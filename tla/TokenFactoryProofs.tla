------------------------- MODULE TokenFactoryProofs -------------------------
(***************************************************************************)
(* Theorems about TokenFactory, for every set of accounts, salts and URIs, *)
(* every fee, cap and amount and every bound.                              *)
(***************************************************************************)
EXTENDS TokenFactory, SequenceTheorems, FiniteSetTheorems, TLAPS

(***************************************************************************)
(* CapRespected is not inductive: mint_tokens tests the counter, not what  *)
(* was issued.  It becomes so with CounterExact, and both need the registry *)
(* to be consistent, because the cap of an address is read through its     *)
(* index.                                                                  *)
(***************************************************************************)
IInv == TypeOK /\ CounterExact /\ CapRespected /\ RegistryConsistent

\* The factory that __constructor leaves satisfies the invariant.
LEMMA InitIInv == Init => IInv
<1> SUFFICES ASSUME Init PROVE IInv
    OBVIOUS
<1> USE DEF Init, EmptyMap
<1>1. state.tokenCount = 0 /\ 1..state.tokenCount = {}
    OBVIOUS
<1>2. TypeOK
    <2>1. state \in [paused : BOOLEAN, whitelistEnabled : BOOLEAN,
                    tokenCount : 0..MaxTokenCount,
                    baseFee : FeeValues, metadataFee : FeeValues]
        BY BoundsAssumption
    <2>2. /\ tokenInfo \in [1..state.tokenCount -> TokenInfo]
          /\ tokenAddress \in [1..state.tokenCount -> DOMAIN tokenIndex]
        BY <1>1
    <2>3. creatorTokens \in [Accounts -> Seq(Nat)]
        OBVIOUS
    <2>4. /\ feeBalance \in [Accounts -> Nat]
          /\ quote \in [Accounts -> Nat]
          /\ collected \in Nat
        BY BoundsAssumption
    <2> QED BY <2>1, <2>2, <2>3, <2>4 DEF TypeOK
<1>3. CounterExact /\ CapRespected /\ RegistryConsistent
    BY <1>1 DEF CounterExact, CapRespected, RegistryConsistent
<1> QED BY <1>2, <1>3 DEF IInv

(***************************************************************************)
(* A charge moves the fee and leaves the types of the fee variables alone. *)
(***************************************************************************)
LEMMA ChargeType ==
    ASSUME TypeOK, NEW a \in Accounts, NEW fee \in Nat, NEW pay,
           Charge(a, fee, pay)
    PROVE  /\ feeBalance' \in [Accounts -> Nat]
           /\ quote' \in [Accounts -> Nat]
           /\ collected' \in Nat
  BY DEF TypeOK, Charge

(***************************************************************************)
(* Creation.  A batch is a function on 1..n; what record_token writes for  *)
(* each new address is found back in the parameters that have its salt.    *)
(***************************************************************************)
LEMMA BatchIsSeq ==
    ASSUME NEW n \in Nat, NEW ps \in [1..n -> TokenParams]
    PROVE  ps \in Seq(TokenParams) /\ Len(ps) = n
  OBVIOUS

\* The parameters found by the salt of a new address are those of some
\* element of the batch that deployed it.
LEMMA ParamsOfNew ==
    ASSUME NEW creator, NEW n \in Nat, NEW ps \in [1..n -> TokenParams], Len(ps) = n,
           NEW t \in {NewAddress(creator, ps, k) : k \in 1..n}
    PROVE  \E k \in 1..n : /\ ParamsOf(t, ps) = ps[k]
                           /\ t = NewAddress(creator, ps, k)
<1>1. PICK k \in 1..n : t = <<creator, ps[k].salt>>
    BY DEF NewAddress
<1>2. t[2] = ps[k].salt
    BY <1>1
<1> DEFINE j == CHOOSE j \in 1..n : ps[j].salt = t[2]
<1>3. j \in 1..n /\ ps[j].salt = t[2]
    BY <1>2
<1>4. t = NewAddress(creator, ps, j)
    BY <1>1, <1>2, <1>3 DEF NewAddress
<1>5. ParamsOf(t, ps) = ps[j]
    BY DEF ParamsOf
<1> QED BY <1>3, <1>4, <1>5

\* What a creation does to the variables of the invariant, stated per address
\* and per index instead of per position in the batch.
Recorded(creator, ps, n) ==
    LET new  == {NewAddress(creator, ps, k) : k \in 1..n}
        idxs == {NewIndex(k) : k \in 1..n}
    IN
    /\ new \subseteq Addresses /\ new \cap DOMAIN tokenIndex = {}
    /\ state'.tokenCount = state.tokenCount + n
    /\ state'.tokenCount \in 0..MaxTokenCount
    /\ idxs = (state.tokenCount + 1)..(state.tokenCount + n)
    /\ DOMAIN tokenIndex' = DOMAIN tokenIndex \cup new
    /\ DOMAIN tokenInfo' = 1..state'.tokenCount
    /\ DOMAIN tokenAddress' = 1..state'.tokenCount
    /\ \A i \in 1..state.tokenCount : /\ tokenInfo'[i] = tokenInfo[i]
                                      /\ tokenAddress'[i] = tokenAddress[i]
    /\ \A t \in DOMAIN tokenIndex : tokenIndex'[t] = tokenIndex[t]
    /\ \A k \in 1..n :
         LET t == NewAddress(creator, ps, k)
             i == NewIndex(k)
         IN  /\ tokenIndex'[t] = i
             /\ tokenAddress'[i] = t
             /\ tokenInfo'[i] = [creator |-> creator, burnEnabled |-> TRUE,
                                 maxSupply |-> ps[k].maxSupply]
             /\ ParamsOf(t, ps) = ps[k]

\* record_token adds exactly the new addresses and indices, and leaves every
\* older entry as it was.
LEMMA RecordTokensEffect ==
    ASSUME TypeOK, NEW creator \in Accounts, NEW n \in Nat \ {0},
           NEW ps \in [1..n -> TokenParams], Len(ps) = n,
           RecordTokens(creator, ps)
    PROVE  Recorded(creator, ps, n)
<1> DEFINE K    == 1..n
           new  == {NewAddress(creator, ps, k) : k \in K}
           idxs == {NewIndex(k) : k \in K}
           c    == state.tokenCount
<1>1. c \in Nat /\ c + n <= MaxTokenCount /\ MaxTokenCount \in Nat
    BY BoundsAssumption DEF RecordTokens, TypeOK
<1>2. state' = [state EXCEPT !.tokenCount = c + n]
    BY DEF RecordTokens
<1>3. state'.tokenCount = c + n
    BY <1>2 DEF TypeOK
<1>4. idxs = (c + 1)..(c + n)
    <2>1. ASSUME NEW i \in (c + 1)..(c + n) PROVE i \in idxs
        <3>1. i - c \in K /\ NewIndex(i - c) = i
            BY <1>1 DEF NewIndex
        <3> QED BY <3>1
    <2>2. ASSUME NEW k \in K PROVE NewIndex(k) \in (c + 1)..(c + n)
        BY <1>1 DEF NewIndex
    <2> QED BY <2>1, <2>2
<1>5. new \subseteq Addresses
    BY DEF NewAddress, Addresses, TokenParams
<1>6. new \cap DOMAIN tokenIndex = {}
    BY DEF RecordTokens, Undeployed, TypeOK
<1>7. \A j, k \in K : NewIndex(j) = NewIndex(k) => j = k
    BY <1>1 DEF NewIndex
<1>8. \A j, k \in K : NewAddress(creator, ps, j) = NewAddress(creator, ps, k) => j = k
    BY DEF RecordTokens, NewAddress
<1>9. DOMAIN tokenIndex' = DOMAIN tokenIndex \cup new
    BY DEF RecordTokens
<1>10. 1..(c + n) = (1..c) \cup idxs
    BY <1>1, <1>4
<1>11. /\ DOMAIN tokenInfo' = 1..state'.tokenCount
       /\ DOMAIN tokenAddress' = 1..state'.tokenCount
    BY <1>3, <1>10 DEF RecordTokens, TypeOK
<1>12. \A i \in 1..c : tokenInfo'[i] = tokenInfo[i] /\ tokenAddress'[i] = tokenAddress[i]
    <2> SUFFICES ASSUME NEW i \in 1..c
                 PROVE  tokenInfo'[i] = tokenInfo[i] /\ tokenAddress'[i] = tokenAddress[i]
        OBVIOUS
    <2>1. i \notin idxs
        <3>1. ASSUME NEW k \in K PROVE NewIndex(k) # i
            BY <1>1 DEF NewIndex
        <3> QED BY <3>1
    <2>2. i \in DOMAIN tokenInfo /\ i \in DOMAIN tokenAddress
        BY DEF TypeOK
    <2> QED BY <2>1, <2>2 DEF RecordTokens
<1>13. \A t \in DOMAIN tokenIndex : tokenIndex'[t] = tokenIndex[t]
    BY <1>6 DEF RecordTokens
<1>14. ASSUME NEW k \in K
       PROVE  LET t == NewAddress(creator, ps, k)
                  i == NewIndex(k)
              IN  /\ tokenIndex'[t] = i
                  /\ tokenAddress'[i] = t
                  /\ tokenInfo'[i] = [creator |-> creator, burnEnabled |-> TRUE,
                                      maxSupply |-> ps[k].maxSupply]
                  /\ ParamsOf(t, ps) = ps[k]
    <2> DEFINE t == NewAddress(creator, ps, k)
               i == NewIndex(k)
    <2>1. t \in new /\ i \in idxs
        OBVIOUS
    <2>2. (CHOOSE j \in K : NewIndex(j) = i) = k
        BY <1>7
    <2>3. (CHOOSE j \in K : NewAddress(creator, ps, j) = t) = k
        BY <1>8
    <2>4. tokenIndex'[t] = i
        BY <2>1, <2>3 DEF RecordTokens
    <2>5. tokenAddress'[i] = t
        BY <2>1, <2>2 DEF RecordTokens
    <2>6. tokenInfo'[i] = [creator |-> creator, burnEnabled |-> TRUE,
                          maxSupply |-> ps[k].maxSupply]
        BY <2>1, <2>2 DEF RecordTokens
    <2>7. ParamsOf(t, ps) = ps[k]
        BY <1>8, <2>1, ParamsOfNew
    <2> QED BY <2>4, <2>5, <2>6, <2>7
<1>15. state'.tokenCount \in 0..MaxTokenCount
    BY <1>1, <1>3
<1> QED BY <1>3, <1>4, <1>5, <1>6, <1>9, <1>11, <1>12, <1>13, <1>14, <1>15 DEF Recorded

\* Recording a batch of valid parameters preserves the invariant.
LEMMA CreationIInv ==
    ASSUME IInv, NEW creator \in Accounts, NEW n \in Nat \ {0},
           NEW ps \in [1..n -> TokenParams], Len(ps) = n,
           \A k \in 1..n : ValidTokenParams(ps[k]),
           RecordTokens(creator, ps),
           NEW fee \in Nat, NEW pay, Charge(creator, fee, pay),
           UNCHANGED <<whitelist, metaVars>>
    PROVE  IInv'
<1> DEFINE K    == 1..n
           new  == {NewAddress(creator, ps, k) : k \in K}
           idxs == {NewIndex(k) : k \in K}
           c    == state.tokenCount
<1>1. TypeOK /\ CounterExact /\ CapRespected /\ RegistryConsistent
    BY DEF IInv
<1>0. Recorded(creator, ps, n)
    BY <1>1, RecordTokensEffect
<1>2. /\ new \subseteq Addresses /\ new \cap DOMAIN tokenIndex = {}
      /\ state'.tokenCount = c + n
      /\ state'.tokenCount \in 0..MaxTokenCount
      /\ idxs = (c + 1)..(c + n)
      /\ DOMAIN tokenIndex' = DOMAIN tokenIndex \cup new
      /\ DOMAIN tokenInfo' = 1..state'.tokenCount
      /\ DOMAIN tokenAddress' = 1..state'.tokenCount
      /\ \A i \in 1..c : tokenInfo'[i] = tokenInfo[i] /\ tokenAddress'[i] = tokenAddress[i]
      /\ \A t \in DOMAIN tokenIndex : tokenIndex'[t] = tokenIndex[t]
    BY <1>0 DEF Recorded
<1>3. \A k \in K :
        /\ tokenIndex'[NewAddress(creator, ps, k)] = NewIndex(k)
        /\ tokenAddress'[NewIndex(k)] = NewAddress(creator, ps, k)
        /\ tokenInfo'[NewIndex(k)] = [creator |-> creator, burnEnabled |-> TRUE,
                                      maxSupply |-> ps[k].maxSupply]
        /\ ParamsOf(NewAddress(creator, ps, k), ps) = ps[k]
    BY <1>0 DEF Recorded
<1>3a. ASSUME NEW k \in K
       PROVE  LET t == NewAddress(creator, ps, k)
              IN  /\ tokenAddress'[tokenIndex'[t]] = t
                  /\ tokenInfo'[tokenIndex'[t]].creator = creator
                  /\ tokenInfo'[tokenIndex'[t]].maxSupply = ps[k].maxSupply
                  /\ tokenInfo'[tokenIndex'[t]] \in TokenInfo
    <2> DEFINE t == NewAddress(creator, ps, k)
    <2>1. tokenIndex'[t] = NewIndex(k)
        BY <1>3
    <2>2. tokenAddress'[NewIndex(k)] = t
        BY <1>3
    <2>3. tokenInfo'[NewIndex(k)] = [creator |-> creator, burnEnabled |-> TRUE,
                                    maxSupply |-> ps[k].maxSupply]
        BY <1>3
    <2>4. ps[k].maxSupply \in Caps
        BY DEF TokenParams
    <2>5. tokenInfo'[NewIndex(k)] \in TokenInfo
        BY <2>3, <2>4 DEF TokenInfo
    <2> QED BY <2>1, <2>2, <2>3, <2>5
<1>4. c \in Nat /\ MaxTokenCount \in Nat
    BY <1>1, BoundsAssumption DEF TypeOK
<1>5. \A i \in 1..(c + n) : i \in 1..c \/ \E k \in K : i = NewIndex(k)
    <2>1. 1..(c + n) = (1..c) \cup ((c + 1)..(c + n))
        BY <1>4
    <2> QED BY <1>2, <2>1
<1>6. \A k \in K : ps[k] \in TokenParams
    OBVIOUS
<1>7. \A t \in DOMAIN tokenIndex :
        /\ tokenInfo'[tokenIndex'[t]] = tokenInfo[tokenIndex[t]]
        /\ tokenAddress'[tokenIndex'[t]] = tokenAddress[tokenIndex[t]]
    BY <1>1, <1>2 DEF TypeOK
<1>8. \A k \in K : NewIndex(k) \in 1..(c + n)
    BY <1>4 DEF NewIndex
<1>9. ASSUME NEW t \in DOMAIN tokenIndex
      PROVE  /\ issued'[t] = issued[t]
             /\ balance'[t] = balance[t]
             /\ owner'[t] = owner[t]
             /\ t \in DOMAIN supply' <=> t \in DOMAIN supply
             /\ t \in DOMAIN supply => supply'[t] = supply[t]
    <2>1. t \notin new
        BY <1>2
    <2>2. t \in DOMAIN issued /\ t \in DOMAIN balance /\ t \in DOMAIN owner
        BY <1>1 DEF TypeOK
    <2>3. issued'[t] = issued[t] /\ balance'[t] = balance[t] /\ owner'[t] = owner[t]
        BY <2>1, <2>2 DEF RecordTokens
    <2>4. supply' = SeededSupply(new, ps)
        BY DEF RecordTokens
    <2>5. /\ t \in DOMAIN supply' <=> t \in DOMAIN supply
          /\ t \in DOMAIN supply => supply'[t] = supply[t]
        BY <2>1, <2>4 DEF SeededSupply
    <2> QED BY <2>3, <2>5
<1>10. ASSUME NEW k \in K
       PROVE  LET t == NewAddress(creator, ps, k)
              IN  /\ issued'[t] = ps[k].initialSupply
                  /\ balance'[t] \in [Accounts -> Nat]
                  /\ owner'[t] = creator
                  /\ t \in DOMAIN supply' <=> ps[k].maxSupply # NoCap
                  /\ t \in DOMAIN supply' => supply'[t] = ps[k].initialSupply
    <2> DEFINE t == NewAddress(creator, ps, k)
    <2>1. t \in new /\ t \notin DOMAIN tokenIndex /\ t \notin DOMAIN supply
        BY <1>1, <1>2 DEF TypeOK
    <2>2. ParamsOf(t, ps) = ps[k]
        BY <1>3
    <2>3. issued'[t] = ps[k].initialSupply /\ owner'[t] = creator
        BY <2>1, <2>2 DEF RecordTokens
    <2>4. balance'[t] = [a \in Accounts |-> IF a = creator THEN ps[k].initialSupply ELSE 0]
        BY <2>1, <2>2 DEF RecordTokens
    <2>5. ps[k].initialSupply \in Nat
        BY <1>6, AmountsAssumption DEF TokenParams
    <2>6. balance'[t] \in [Accounts -> Nat]
        BY <2>4, <2>5
    <2>7. supply' = SeededSupply(new, ps)
        BY DEF RecordTokens
    <2>8. /\ t \in DOMAIN supply' <=> ps[k].maxSupply # NoCap
          /\ t \in DOMAIN supply' => supply'[t] = ps[k].initialSupply
        BY <2>1, <2>2, <2>7 DEF SeededSupply
    <2> QED BY <2>3, <2>6, <2>8
<1>11. /\ DOMAIN issued' = DOMAIN tokenIndex'
       /\ DOMAIN balance' = DOMAIN tokenIndex'
       /\ DOMAIN owner' = DOMAIN tokenIndex'
       /\ DOMAIN supply' \subseteq DOMAIN tokenIndex'
    BY <1>1, <1>2 DEF RecordTokens, TypeOK, SeededSupply
<1>12. \A t \in DOMAIN tokenIndex' :
         t \in DOMAIN tokenIndex \/ \E k \in K : t = NewAddress(creator, ps, k)
    BY <1>2
<1>13. CounterExact'
    <2> SUFFICES ASSUME NEW t \in DOMAIN tokenIndex'
                 PROVE  /\ t \in DOMAIN supply' <=> tokenInfo'[tokenIndex'[t]].maxSupply # NoCap
                        /\ t \in DOMAIN supply' => supply'[t] = issued'[t]
        BY <1>11 DEF CounterExact, CapOf
    <2>1. CASE t \in DOMAIN tokenIndex
        BY <1>1, <1>7, <1>9, <2>1 DEF CounterExact, CapOf, TypeOK
    <2>2. ASSUME NEW k \in K, t = NewAddress(creator, ps, k)
          PROVE  tokenInfo'[tokenIndex'[t]].maxSupply = ps[k].maxSupply
        BY <1>3a, <2>2
    <2> QED BY <1>10, <1>12, <2>1, <2>2
<1>14. CapRespected'
    <2> SUFFICES ASSUME NEW t \in DOMAIN tokenIndex',
                        tokenInfo'[tokenIndex'[t]].maxSupply # NoCap
                 PROVE  issued'[t] <= tokenInfo'[tokenIndex'[t]].maxSupply
        BY <1>11 DEF CapRespected, CapOf
    <2>1. CASE t \in DOMAIN tokenIndex
        BY <1>1, <1>7, <1>9, <2>1 DEF CapRespected, CapOf, TypeOK
    <2>2. ASSUME NEW k \in K, t = NewAddress(creator, ps, k)
          PROVE  issued'[t] <= tokenInfo'[tokenIndex'[t]].maxSupply
        <3>1. tokenInfo'[tokenIndex'[t]].maxSupply = ps[k].maxSupply
            BY <1>3a, <2>2
        <3>2. issued'[t] = ps[k].initialSupply
            BY <1>10, <2>2
        <3>3. ValidTokenParams(ps[k])
            OBVIOUS
        <3> QED BY <3>1, <3>2, <3>3 DEF ValidTokenParams
    <2> QED BY <1>12, <2>1, <2>2
<1>15. RegistryConsistent'
    <2>1. ASSUME NEW i \in 1..state'.tokenCount PROVE tokenIndex'[tokenAddress'[i]] = i
        <3>1. CASE i \in 1..c
            <4>1. tokenAddress[i] \in DOMAIN tokenIndex
                BY <1>1, <3>1 DEF TypeOK
            <4> QED BY <1>1, <1>2, <3>1, <4>1 DEF RegistryConsistent
        <3>2. ASSUME NEW k \in K, i = NewIndex(k) PROVE tokenIndex'[tokenAddress'[i]] = i
            BY <1>3, <3>2
        <3> QED BY <1>2, <1>5, <3>1, <3>2
    <2>2. ASSUME NEW t \in DOMAIN tokenIndex'
          PROVE  /\ tokenAddress'[tokenIndex'[t]] = t
                 /\ tokenInfo'[tokenIndex'[t]].creator = owner'[t]
                 /\ owner'[t] = t[1]
        <3>1. CASE t \in DOMAIN tokenIndex
            BY <1>1, <1>7, <1>9, <3>1 DEF RegistryConsistent
        <3>2. ASSUME NEW k \in K, t = NewAddress(creator, ps, k)
              PROVE  /\ tokenAddress'[tokenIndex'[t]] = t
                     /\ tokenInfo'[tokenIndex'[t]].creator = owner'[t]
                     /\ owner'[t] = t[1]
            <4>1. owner'[t] = creator
                BY <1>10, <3>2
            <4>2. t[1] = creator
                BY <3>2 DEF NewAddress
            <4> QED BY <1>3a, <3>2, <4>1, <4>2
        <3> QED BY <1>12, <3>1, <3>2
    <2> QED BY <2>1, <2>2 DEF RegistryConsistent
<1>16. TypeOK'
    <2>1. state' \in [paused : BOOLEAN, whitelistEnabled : BOOLEAN,
                     tokenCount : 0..MaxTokenCount,
                     baseFee : FeeValues, metadataFee : FeeValues]
        BY <1>1, <1>2 DEF RecordTokens, TypeOK
    <2>2. tokenInfo' \in [1..state'.tokenCount -> TokenInfo]
        <3>1. \A i \in 1..c : tokenInfo'[i] \in TokenInfo
            BY <1>1, <1>2 DEF TypeOK
        <3>2. ASSUME NEW k \in K PROVE tokenInfo'[NewIndex(k)] \in TokenInfo
            <4>1. tokenIndex'[NewAddress(creator, ps, k)] = NewIndex(k)
                BY <1>3
            <4> QED BY <1>3a, <4>1
        <3>3. \A i \in 1..state'.tokenCount : tokenInfo'[i] \in TokenInfo
            BY <1>2, <1>5, <3>1, <3>2
        <3>4. tokenInfo' = [i \in DOMAIN tokenInfo' |-> tokenInfo'[i]]
            BY DEF RecordTokens
        <3> QED BY <1>2, <3>3, <3>4
    <2>3. tokenAddress' \in [1..state'.tokenCount -> DOMAIN tokenIndex']
        <3>1. \A i \in 1..state'.tokenCount : tokenAddress'[i] \in DOMAIN tokenIndex'
            <4>1. \A i \in 1..c : tokenAddress'[i] \in DOMAIN tokenIndex'
                BY <1>1, <1>2 DEF TypeOK
            <4>2. ASSUME NEW k \in K PROVE tokenAddress'[NewIndex(k)] \in DOMAIN tokenIndex'
                <5>1. tokenAddress'[NewIndex(k)] = NewAddress(creator, ps, k)
                    BY <1>3
                <5> QED BY <1>2, <5>1
            <4> QED BY <1>2, <1>5, <4>1, <4>2
        <3>2. tokenAddress' = [i \in DOMAIN tokenAddress' |-> tokenAddress'[i]]
            BY DEF RecordTokens
        <3> QED BY <1>2, <3>1, <3>2
    <2>4. tokenIndex' \in [DOMAIN tokenIndex' -> 1..state'.tokenCount]
        <3>1. \A t \in DOMAIN tokenIndex : tokenIndex'[t] \in 1..(c + n)
            BY <1>1, <1>2, <1>4 DEF TypeOK
        <3>2. \A t \in DOMAIN tokenIndex' : tokenIndex'[t] \in 1..state'.tokenCount
            <4>1. ASSUME NEW k \in K
                  PROVE  tokenIndex'[NewAddress(creator, ps, k)] \in 1..state'.tokenCount
                <5>1. tokenIndex'[NewAddress(creator, ps, k)] = NewIndex(k)
                    BY <1>3
                <5> QED BY <1>2, <1>8, <5>1
            <4> QED BY <1>2, <1>12, <3>1, <4>1
        <3>3. tokenIndex' = [t \in DOMAIN tokenIndex' |-> tokenIndex'[t]]
            BY DEF RecordTokens
        <3> QED BY <3>2, <3>3
    <2>5. owner' \in [DOMAIN tokenIndex' -> Accounts]
        <3>1. \A t \in DOMAIN tokenIndex' : owner'[t] \in Accounts
            <4>1. \A t \in DOMAIN tokenIndex : owner'[t] \in Accounts
                BY <1>1, <1>9 DEF TypeOK
            <4>2. \A k \in K : owner'[NewAddress(creator, ps, k)] \in Accounts
                BY <1>10
            <4> QED BY <1>12, <4>1, <4>2
        <3>2. owner' = [t \in DOMAIN owner' |-> owner'[t]]
            BY DEF RecordTokens
        <3> QED BY <1>11, <3>1, <3>2
    <2>6. creatorTokens' \in [Accounts -> Seq(Nat)]
        <3>1. [k \in 1..n |-> NewIndex(k)] \in Seq(Nat)
            BY <1>4 DEF NewIndex
        <3>2. creatorTokens[creator] \o [k \in 1..n |-> NewIndex(k)] \in Seq(Nat)
            BY <1>1, <3>1, ConcatProperties DEF TypeOK
        <3> QED BY <1>1, <3>2 DEF RecordTokens, AppendCreatorTokens, TypeOK
    <2>7. balance' \in [DOMAIN tokenIndex' -> [Accounts -> Nat]]
        <3>1. \A t \in DOMAIN tokenIndex' : balance'[t] \in [Accounts -> Nat]
            BY <1>1, <1>9, <1>10, <1>12 DEF TypeOK
        <3>2. balance' = [t \in DOMAIN balance' |-> balance'[t]]
            BY DEF RecordTokens
        <3> QED BY <1>11, <3>1, <3>2
    <2>8. issued' \in [DOMAIN tokenIndex' -> Nat]
        <3>1. \A k \in K : ps[k].initialSupply \in Nat
            BY <1>6, AmountsAssumption DEF TokenParams
        <3>2. \A t \in DOMAIN tokenIndex' : issued'[t] \in Nat
            <4>1. \A t \in DOMAIN tokenIndex : issued'[t] \in Nat
                BY <1>1, <1>9 DEF TypeOK
            <4>2. \A k \in K : issued'[NewAddress(creator, ps, k)] \in Nat
                BY <1>10, <3>1
            <4> QED BY <1>12, <4>1, <4>2
        <3>3. issued' = [t \in DOMAIN issued' |-> issued'[t]]
            BY DEF RecordTokens
        <3> QED BY <1>11, <3>2, <3>3
    <2>9. supply' \in [DOMAIN supply' -> Nat]
        <3>1. \A t \in DOMAIN supply' : supply'[t] = issued'[t]
            BY <1>11, <1>13 DEF CounterExact
        <3>2. supply' = [t \in DOMAIN supply' |-> supply'[t]]
            BY DEF RecordTokens, SeededSupply
        <3> QED BY <1>11, <2>8, <3>1, <3>2
    <2>10. /\ feeBalance' \in [Accounts -> Nat]
           /\ quote' \in [Accounts -> Nat]
           /\ collected' \in Nat
        BY <1>1, ChargeType
    <2>11. /\ DOMAIN tokenIndex' \subseteq Addresses
           /\ DOMAIN tokenIndex \subseteq DOMAIN tokenIndex'
        BY <1>1, <1>2 DEF TypeOK
    <2> QED BY <1>1, <1>11, <2>1, <2>2, <2>3, <2>4, <2>5, <2>6, <2>7, <2>8, <2>9, <2>10,
               <2>11 DEF TypeOK, metaVars
<1> QED BY <1>13, <1>14, <1>15, <1>16 DEF IInv

\* The fees in force are natural numbers.
LEMMA FeesNat == TypeOK => state.baseFee \in Nat /\ state.metadataFee \in Nat
  BY FeesAssumption DEF TypeOK

\* create_token preserves the invariant.
LEMMA CreateTokenIInv ==
    ASSUME IInv, NEW a \in Accounts, NEW p \in TokenParams, CreateToken(a, p)
    PROVE  IInv'
<1>1. /\ <<p>> \in [1..1 -> TokenParams]
      /\ Len(<<p>>) = 1
      /\ \A k \in 1..1 : ValidTokenParams(<<p>>[k])
    BY DEF CreateToken
<1>2. state.baseFee \in Nat
    BY FeesNat DEF IInv
<1>3. /\ RecordTokens(a, <<p>>)
      /\ Charge(a, state.baseFee, quote[a])
      /\ UNCHANGED <<whitelist, metaVars>>
    BY DEF CreateToken
<1>4. 1 \in Nat \ {0}
    OBVIOUS
<1> QED BY <1>1, <1>2, <1>3, <1>4, CreationIInv

\* create_tokens_batch preserves the invariant.
LEMMA CreateTokensBatchIInv ==
    ASSUME IInv, NEW a \in Accounts, NEW ps \in Batches, CreateTokensBatch(a, ps)
    PROVE  IInv'
<1>1. PICK n \in 1..MaxBatchSize : ps \in [1..n -> TokenParams]
    BY DEF Batches
<1>2. n \in Nat \ {0} /\ Len(ps) = n
    BY <1>1, BoundsAssumption, BatchIsSeq
<1>3. BatchFee(Len(ps)) \in Nat
    BY <1>2, FeesAssumption DEF IInv, TypeOK, BatchFee
<1> QED BY <1>1, <1>2, <1>3, CreationIInv DEF CreateTokensBatch

(***************************************************************************)
(* The other actions.  A mint moves the counter and the history together.  *)
(***************************************************************************)
LEMMA MintTokensIInv ==
    ASSUME IInv, NEW a \in Accounts, NEW t \in DOMAIN balance, NEW to \in Accounts,
           NEW m \in Amounts, MintTokens(a, t, to, m)
    PROVE  IInv'
<1>1. TypeOK /\ CounterExact /\ CapRespected /\ RegistryConsistent
    BY DEF IInv
<1>2. /\ m \in Nat
      /\ t \in DOMAIN tokenIndex
      /\ UNCHANGED <<state, whitelist, registry, metaVars>>
      /\ balance' = [balance EXCEPT ![t][to] = @ + m]
      /\ issued' = [issued EXCEPT ![t] = @ + m]
      /\ CountIssue(t, m)
      /\ Charge(a, state.baseFee, quote[a])
    BY AmountsAssumption DEF MintTokens
<1>3. state.baseFee \in Nat
    BY <1>1, FeesAssumption DEF TypeOK
<1>4. /\ feeBalance' \in [Accounts -> Nat]
      /\ quote' \in [Accounts -> Nat]
      /\ collected' \in Nat
    BY <1>1, <1>2, <1>3, ChargeType
<1>5. /\ balance' \in [DOMAIN tokenIndex -> [Accounts -> Nat]]
      /\ issued' \in [DOMAIN tokenIndex -> Nat]
      /\ issued'[t] = issued[t] + m
      /\ \A u \in DOMAIN tokenIndex \ {t} : issued'[u] = issued[u]
    <2>1. balance[t] \in [Accounts -> Nat] /\ issued[t] \in Nat
        BY <1>1, <1>2 DEF TypeOK
    <2>2. [balance[t] EXCEPT ![to] = @ + m] \in [Accounts -> Nat]
        BY <1>2, <2>1
    <2>3. balance' \in [DOMAIN tokenIndex -> [Accounts -> Nat]]
        BY <1>1, <1>2, <2>2 DEF TypeOK
    <2>4. issued \in [DOMAIN tokenIndex -> Nat]
        BY <1>1 DEF TypeOK
    <2> QED BY <1>2, <2>3, <2>4
<1>6. /\ DOMAIN supply' = DOMAIN supply
      /\ t \in DOMAIN supply => /\ supply'[t] = supply[t] + m
                                /\ supply'[t] <= CapOf(t)
      /\ \A u \in DOMAIN supply \ {t} : supply'[u] = supply[u]
      /\ supply' \in [DOMAIN supply' -> Nat]
    <2>1. CASE CapOf(t) = NoCap
        <3>1. supply' = supply /\ t \notin DOMAIN supply
            BY <1>1, <1>2, <2>1 DEF CountIssue, CounterExact, TypeOK
        <3> QED BY <1>1, <3>1 DEF TypeOK
    <2>2. CASE CapOf(t) # NoCap
        <3>1. t \in DOMAIN supply /\ supply[t] \in Nat
            BY <1>1, <1>2, <2>2 DEF CounterExact, TypeOK
        <3>2. Get(supply, t, 0) = supply[t]
            BY <3>1 DEF Get
        <3>3. supply[t] + m <= CapOf(t) /\ supply' = Put(supply, t, supply[t] + m)
            BY <1>2, <2>2, <3>2 DEF CountIssue
        <3>4. /\ DOMAIN supply' = DOMAIN supply
              /\ supply'[t] = supply[t] + m
              /\ \A u \in DOMAIN supply \ {t} : supply'[u] = supply[u]
            BY <3>1, <3>3 DEF Put
        <3>5. \A u \in DOMAIN supply' : supply'[u] \in Nat
            <4>1. \A u \in DOMAIN supply : supply[u] \in Nat
                BY <1>1 DEF TypeOK
            <4> QED BY <1>2, <3>1, <3>4, <4>1
        <3>6. supply' = [u \in DOMAIN supply' |-> supply'[u]]
            BY <3>3 DEF Put
        <3>7. supply' \in [DOMAIN supply' -> Nat]
            BY <3>5, <3>6
        <3> QED BY <3>3, <3>4, <3>7
    <2> QED BY <2>1, <2>2
<1>7. TypeOK'
    BY <1>1, <1>2, <1>4, <1>5, <1>6 DEF TypeOK, registry, metaVars
<1>8. RegistryConsistent'
    BY <1>1, <1>2 DEF RegistryConsistent, registry
<1>9. /\ tokenInfo' = tokenInfo /\ tokenIndex' = tokenIndex
      /\ DOMAIN issued = DOMAIN tokenIndex /\ DOMAIN issued' = DOMAIN tokenIndex
    BY <1>1, <1>2, <1>5 DEF registry, TypeOK
<1>10. CounterExact'
    BY <1>1, <1>5, <1>6, <1>9 DEF CounterExact, CapOf
<1>11. CapRespected'
    <2> SUFFICES ASSUME NEW u \in DOMAIN tokenIndex, CapOf(u) # NoCap
                 PROVE  issued'[u] <= CapOf(u)
        BY <1>9 DEF CapRespected, CapOf
    <2>1. CASE u = t
        <3>1. t \in DOMAIN supply /\ supply[t] = issued[t]
            BY <1>1, <1>9, <2>1 DEF CounterExact
        <3> QED BY <1>5, <1>6, <2>1, <3>1
    <2>2. CASE u # t
        BY <1>1, <1>5, <1>9, <2>2 DEF CapRespected
    <2> QED BY <2>1, <2>2
<1> QED BY <1>7, <1>8, <1>10, <1>11 DEF IInv

\* burn preserves the invariant: it lowers a balance and no counter.
LEMMA BurnIInv ==
    ASSUME IInv, NEW a \in Accounts, NEW t \in DOMAIN balance, NEW m \in Amounts,
           Burn(a, t, m)
    PROVE  IInv'
<1>1. TypeOK /\ CounterExact /\ CapRespected /\ RegistryConsistent
    BY DEF IInv
<1>2. /\ UNCHANGED <<state, whitelist, registry, issued, supply, metaVars, feeVars>>
      /\ balance' = [balance EXCEPT ![t][a] = @ - m]
      /\ m \in Nat /\ m <= balance[t][a] /\ t \in DOMAIN tokenIndex
    BY AmountsAssumption DEF Burn, CounterAfterBurn
<1>3. balance' \in [DOMAIN tokenIndex -> [Accounts -> Nat]]
    <2>1. balance[t] \in [Accounts -> Nat]
        BY <1>1, <1>2 DEF TypeOK
    <2>3. balance[t][a] - m \in Nat
        BY <1>2, <2>1
    <2>2. [balance[t] EXCEPT ![a] = @ - m] \in [Accounts -> Nat]
        BY <2>1, <2>3
    <2> QED BY <1>1, <1>2, <2>2 DEF TypeOK
<1>4. TypeOK'
    BY <1>1, <1>2, <1>3 DEF TypeOK, registry, metaVars, feeVars
<1>5. CounterExact' /\ CapRespected' /\ RegistryConsistent'
    BY <1>1, <1>2 DEF CounterExact, CapRespected, RegistryConsistent, CapOf, registry
<1> QED BY <1>4, <1>5 DEF IInv

\* set_burn_enabled preserves the invariant: the cap stays in TokenInfo.
LEMMA SetBurnEnabledIInv ==
    ASSUME IInv, NEW a \in Accounts, NEW t \in DOMAIN balance, NEW b \in BOOLEAN,
           SetBurnEnabled(a, t, b)
    PROVE  IInv'
<1>1. TypeOK /\ CounterExact /\ CapRespected /\ RegistryConsistent
    BY DEF IInv
<1>2. /\ UNCHANGED <<state, whitelist, tokenIndex, tokenAddress, owner, creatorTokens,
                     tokenVars, metaVars, feeVars>>
      /\ tokenInfo' = [tokenInfo EXCEPT ![tokenIndex[t]].burnEnabled = b]
      /\ tokenIndex[t] \in 1..state.tokenCount
    BY <1>1 DEF SetBurnEnabled, TypeOK
<1>3. \A i \in 1..state.tokenCount : /\ tokenInfo'[i] \in TokenInfo
                                     /\ tokenInfo'[i].creator = tokenInfo[i].creator
                                     /\ tokenInfo'[i].maxSupply = tokenInfo[i].maxSupply
    BY <1>1, <1>2 DEF TypeOK, TokenInfo
<1>4. tokenInfo' \in [1..state.tokenCount -> TokenInfo]
    BY <1>1, <1>2, <1>3 DEF TypeOK
<1>5. TypeOK'
    BY <1>1, <1>2, <1>4 DEF TypeOK, tokenVars, metaVars, feeVars
<1>6. \A u \in DOMAIN issued : CapOf(u)' = CapOf(u)
    BY <1>1, <1>2, <1>3 DEF TypeOK, CapOf
<1>7. CounterExact' /\ CapRespected'
    BY <1>1, <1>2, <1>6 DEF CounterExact, CapRespected, tokenVars
<1>8. RegistryConsistent'
    BY <1>1, <1>2, <1>3 DEF RegistryConsistent, TypeOK
<1> QED BY <1>5, <1>7, <1>8 DEF IInv

\* set_metadata preserves the invariant.
LEMMA SetMetadataIInv ==
    ASSUME IInv, NEW a \in Accounts, NEW t \in DOMAIN balance, NEW uri \in Uris,
           SetMetadata(a, t, uri)
    PROVE  IInv'
<1>1. TypeOK /\ CounterExact /\ CapRespected /\ RegistryConsistent
    BY DEF IInv
<1>2. /\ UNCHANGED <<state, whitelist, registry, tokenVars, metadataFrozen>>
      /\ t \in DOMAIN tokenIndex
      /\ metadata' = Put(metadata, t, uri)
      /\ metadataVersion' = Put(metadataVersion, t, Get(metadataVersion, t, 0) + 1)
      /\ Charge(a, state.metadataFee, quote[a])
      /\ state.metadataFee \in Nat
    BY <1>1, FeesAssumption DEF SetMetadata, TypeOK
<1>3. /\ feeBalance' \in [Accounts -> Nat]
      /\ quote' \in [Accounts -> Nat]
      /\ collected' \in Nat
    BY <1>1, <1>2, ChargeType
<1>4. Get(metadataVersion, t, 0) \in Nat
    BY <1>1 DEF Get, TypeOK
<1>5. /\ DOMAIN metadataVersion' \subseteq DOMAIN tokenIndex
      /\ metadataVersion' \in [DOMAIN metadataVersion' -> Nat]
      /\ metadata' \in [DOMAIN metadataVersion' -> Uris]
    <2>1. /\ metadataVersion \in [DOMAIN metadataVersion -> Nat]
          /\ metadata \in [DOMAIN metadataVersion -> Uris]
          /\ DOMAIN metadataVersion \subseteq DOMAIN tokenIndex
        BY <1>1 DEF TypeOK
    <2>2. /\ DOMAIN metadataVersion' = DOMAIN metadataVersion \cup {t}
          /\ metadataVersion' \in [DOMAIN metadataVersion \cup {t} -> Nat]
        BY <1>2, <1>4, <2>1 DEF Put
    <2>3. metadata' \in [DOMAIN metadataVersion \cup {t} -> Uris]
        BY <1>2, <2>1 DEF Put
    <2> QED BY <1>2, <2>1, <2>2, <2>3
<1>6. TypeOK'
    BY <1>1, <1>2, <1>3, <1>5 DEF TypeOK, registry, tokenVars
<1>7. CounterExact' /\ CapRespected' /\ RegistryConsistent'
    BY <1>1, <1>2 DEF CounterExact, CapRespected, RegistryConsistent, CapOf, registry, tokenVars
<1> QED BY <1>6, <1>7 DEF IInv

\* The rest changes one switch, one set or one quote.
LEMMA SwitchesIInv ==
    ASSUME IInv,
           \/ AdminNext
           \/ \E a \in Accounts, t \in DOMAIN balance : FreezeMetadata(a, t)
           \/ \E a \in Accounts, f \in FeeValues : QuoteFee(a, f)
           \/ UNCHANGED vars
    PROVE  IInv'
<1>1. TypeOK /\ CounterExact /\ CapRespected /\ RegistryConsistent
    BY DEF IInv
<1> USE DEF registry, metaVars, tokenVars, feeVars, CounterExact, CapRespected,
            RegistryConsistent, CapOf
<1>2. ASSUME NEW b \in BOOLEAN, SetPaused(b) \/ SetWhitelistEnabled(b) PROVE IInv'
    <2>1. /\ state' \in [paused : BOOLEAN, whitelistEnabled : BOOLEAN,
                         tokenCount : 0..MaxTokenCount,
                         baseFee : FeeValues, metadataFee : FeeValues]
          /\ state'.tokenCount = state.tokenCount
        BY <1>1, <1>2 DEF SetPaused, SetWhitelistEnabled, TypeOK
    <2>2. TypeOK'
        BY <1>1, <1>2, <2>1 DEF SetPaused, SetWhitelistEnabled, TypeOK
    <2> QED BY <1>1, <1>2, <2>1, <2>2 DEF SetPaused, SetWhitelistEnabled, IInv
<1>3. ASSUME NEW f \in FeeValues, NEW g \in FeeValues, UpdateFees(f, g) PROVE IInv'
    <2>1. /\ state' \in [paused : BOOLEAN, whitelistEnabled : BOOLEAN,
                         tokenCount : 0..MaxTokenCount,
                         baseFee : FeeValues, metadataFee : FeeValues]
          /\ state'.tokenCount = state.tokenCount
        BY <1>1, <1>3 DEF UpdateFees, TypeOK
    <2>2. TypeOK'
        BY <1>1, <1>3, <2>1 DEF UpdateFees, TypeOK
    <2> QED BY <1>1, <1>3, <2>1, <2>2 DEF UpdateFees, IInv
<1>4. ASSUME NEW a \in Accounts, AddToWhitelist(a) \/ RemoveFromWhitelist(a) PROVE IInv'
    BY <1>1, <1>4 DEF AddToWhitelist, RemoveFromWhitelist, TypeOK, IInv
<1>5. ASSUME NEW a \in Accounts, NEW t \in DOMAIN balance, FreezeMetadata(a, t) PROVE IInv'
    BY <1>1, <1>5 DEF FreezeMetadata, TypeOK, IInv
<1>6. ASSUME NEW a \in Accounts, NEW f \in FeeValues, QuoteFee(a, f) PROVE IInv'
    BY <1>1, <1>6, FeesAssumption DEF QuoteFee, TypeOK, IInv
<1>7. CASE UNCHANGED vars
    BY <1>1, <1>7 DEF vars, TypeOK, IInv
<1> QED BY <1>2, <1>3, <1>4, <1>5, <1>6, <1>7 DEF AdminNext

\* Every step of the factory preserves the invariant.
LEMMA NextIInv == IInv /\ [Next]_vars => IInv'
<1> SUFFICES ASSUME IInv, [Next]_vars PROVE IInv'
    OBVIOUS
<1>1. ASSUME NEW a \in Accounts, CreationNext(a) PROVE IInv'
    BY <1>1, CreateTokenIInv, CreateTokensBatchIInv DEF CreationNext
<1>2. ASSUME NEW a \in Accounts, TokenNext(a) PROVE IInv'
    <2> PICK t \in DOMAIN balance :
            \/ \E to \in Accounts, n \in Amounts : MintTokens(a, t, to, n)
            \/ \E n \in Amounts : Burn(a, t, n)
            \/ \E b \in BOOLEAN : SetBurnEnabled(a, t, b)
            \/ \E uri \in Uris : SetMetadata(a, t, uri)
            \/ FreezeMetadata(a, t)
        BY <1>2 DEF TokenNext
    <2> QED BY MintTokensIInv, BurnIInv, SetBurnEnabledIInv, SetMetadataIInv, SwitchesIInv
<1>3. ASSUME NEW a \in Accounts, \E f \in FeeValues : QuoteFee(a, f) PROVE IInv'
    BY <1>3, SwitchesIInv
<1>4. CASE AdminNext \/ UNCHANGED vars
    BY <1>4, SwitchesIInv
<1> QED BY <1>1, <1>2, <1>3, <1>4 DEF Next

(***************************************************************************)
(* The theorems.                                                           *)
(***************************************************************************)
\* Every reachable state of the factory satisfies the inductive invariant.
THEOREM Invariance == Spec => []IInv
<1>1. Init => IInv
    BY InitIInv
<1>2. IInv /\ [Next]_vars => IInv'
    BY NextIInv
<1> QED BY <1>1, <1>2, PTL DEF Spec

\* The registry entries of a token are written together and stay typed.
THEOREM TypeCorrect == Spec => []TypeOK
<1>1. IInv => TypeOK
    BY DEF IInv
<1> QED BY <1>1, Invariance, PTL

\* record_token, mint_tokens and burn together never let the cumulative issue
\* of a capped token pass its max_supply.
THEOREM CapSafety == Spec => []CapRespected
<1>1. IInv => CapRespected
    BY DEF IInv
<1> QED BY <1>1, Invariance, PTL

\* The tracked-supply counter is what the token has issued, for capped tokens
\* and only for them.
THEOREM CounterAccurate == Spec => []CounterExact
<1>1. IInv => CounterExact
    BY DEF IInv
<1> QED BY <1>1, Invariance, PTL

\* get_token_index and get_token_address are inverse bijections and the owner
\* entry, TokenInfo and the deployed address name the same creator.
THEOREM RegistrySafety == Spec => []RegistryConsistent
<1>1. IInv => RegistryConsistent
    BY DEF IInv
<1> QED BY <1>1, Invariance, PTL

(***************************************************************************)
(* Action properties.                                                      *)
(***************************************************************************)
\* Every step but set_metadata and freeze_metadata leaves the metadata alone.
LEMMA MetadataActions ==
    ASSUME Next
    PROVE  \/ UNCHANGED metaVars
           \/ \E a \in Accounts, t \in DOMAIN balance, uri \in Uris : SetMetadata(a, t, uri)
           \/ \E a \in Accounts, t \in DOMAIN balance : FreezeMetadata(a, t)
<1>1. ASSUME NEW a \in Accounts, CreationNext(a) PROVE UNCHANGED metaVars
    BY <1>1 DEF CreationNext, CreateToken, CreateTokensBatch
<1>2. ASSUME NEW a \in Accounts, TokenNext(a)
      PROVE  \/ UNCHANGED metaVars
             \/ \E t \in DOMAIN balance, uri \in Uris : SetMetadata(a, t, uri)
             \/ \E t \in DOMAIN balance : FreezeMetadata(a, t)
    BY <1>2 DEF TokenNext, MintTokens, Burn, SetBurnEnabled
<1>3. ASSUME NEW a \in Accounts, NEW f \in FeeValues, QuoteFee(a, f)
      PROVE  UNCHANGED metaVars
    BY <1>3 DEF QuoteFee
<1>4. CASE AdminNext
    BY <1>4 DEF AdminNext, SetPaused, SetWhitelistEnabled, UpdateFees, AddToWhitelist,
                RemoveFromWhitelist
<1> QED BY <1>1, <1>2, <1>3, <1>4 DEF Next

\* freeze_metadata and the update limit are final, and a URI never changes
\* without its version moving to the next number.
THEOREM MetadataIsFinal == Spec => MetadataFinal
<1>1. TypeOK /\ [Next]_vars => [MetadataStep]_vars
    <2> SUFFICES ASSUME TypeOK, [Next]_vars PROVE [MetadataStep]_vars
        OBVIOUS
    <2>1. ASSUME NEW a \in Accounts, NEW t \in DOMAIN balance, NEW uri \in Uris,
                 SetMetadata(a, t, uri)
          PROVE  MetadataStep
        <3>1. /\ t \notin metadataFrozen
              /\ Get(metadataVersion, t, 0) < MetadataMaxUpdates
              /\ metadata' = Put(metadata, t, uri)
              /\ metadataVersion' = Put(metadataVersion, t, Get(metadataVersion, t, 0) + 1)
              /\ metadataFrozen' = metadataFrozen
            BY <2>1 DEF SetMetadata
        <3> SUFFICES ASSUME NEW u \in DOMAIN metadataVersion
                     PROVE  /\ u \in metadataFrozen \/ metadataVersion[u] = MetadataMaxUpdates
                                 => metadata'[u] = metadata[u]
                            /\ metadata'[u] # metadata[u]
                                 => metadataVersion'[u] = metadataVersion[u] + 1
            BY <3>1 DEF MetadataStep
        <3>2. CASE u # t
            <4>1. u \in DOMAIN metadata
                BY DEF TypeOK
            <4> QED BY <3>1, <3>2, <4>1 DEF Put
        <3>3. CASE u = t
            <4>1. Get(metadataVersion, t, 0) = metadataVersion[t]
                BY <3>3 DEF Get
            <4>2. metadataVersion'[t] = metadataVersion[t] + 1
                BY <3>1, <4>1 DEF Put
            <4>3. metadataVersion[t] # MetadataMaxUpdates
                BY <3>1, <4>1, BoundsAssumption, <3>3 DEF TypeOK
            <4> QED BY <3>1, <3>3, <4>2, <4>3
        <3> QED BY <3>2, <3>3
    <2>2. ASSUME NEW a \in Accounts, NEW t \in DOMAIN balance, FreezeMetadata(a, t)
          PROVE  MetadataStep
        BY <2>2 DEF FreezeMetadata, MetadataStep
    <2>3. CASE UNCHANGED metaVars
        BY <2>3 DEF metaVars, MetadataStep
    <2>4. CASE UNCHANGED vars
        BY <2>4 DEF vars
    <2> QED BY <2>1, <2>2, <2>3, <2>4, MetadataActions
<1> QED BY <1>1, TypeCorrect, PTL DEF Spec, MetadataFinal

\* The pause switch stops creation, issue, charges and metadata, and only those.
THEOREM PauseIsQuiet == Spec => PausedQuiet
<1>1. [Next]_vars => [PausedStep]_vars
    <2> SUFFICES ASSUME Next, state.paused PROVE PausedStep
        BY DEF PausedStep
    <2> USE DEF PausedStep, registry, metaVars, tokenVars, feeVars
    <2>1. ASSUME NEW a \in Accounts, CreationNext(a) PROVE FALSE
        BY <2>1 DEF CreationNext, CreateToken, CreateTokensBatch
    <2>2. ASSUME NEW a \in Accounts, TokenNext(a) PROVE PausedStep
        BY <2>2 DEF TokenNext, MintTokens, Burn, SetBurnEnabled, SetMetadata, FreezeMetadata
    <2>3. ASSUME NEW a \in Accounts, NEW f \in FeeValues, QuoteFee(a, f) PROVE PausedStep
        BY <2>3 DEF QuoteFee
    <2>4. CASE AdminNext
        BY <2>4 DEF AdminNext, SetPaused, SetWhitelistEnabled, UpdateFees, AddToWhitelist,
                    RemoveFromWhitelist
    <2> QED BY <2>1, <2>2, <2>3, <2>4 DEF Next
<1> QED BY <1>1, PTL DEF Spec, PausedQuiet

\* Every call that registers tokens collects base_fee for each of them.
THEOREM TokensPaidFor == Spec => EveryTokenPaidFor
<1>1. TypeOK /\ [Next]_vars => [PaidStep]_vars
    <2> SUFFICES ASSUME TypeOK, Next PROVE PaidStep
        OBVIOUS
    <2>0. /\ state.baseFee \in Nat /\ state.metadataFee \in Nat
          /\ state.tokenCount \in Nat /\ collected \in Nat
        <3>1. state.tokenCount \in 0..MaxTokenCount /\ collected \in Nat
            BY DEF TypeOK
        <3> QED BY <3>1, FeesNat, BoundsAssumption
    <2>2. ASSUME NEW a \in Accounts, NEW p \in TokenParams, CreateToken(a, p)
          PROVE  PaidStep
        <3>1. /\ collected' = collected + state.baseFee
              /\ state' = [state EXCEPT !.tokenCount = @ + Len(<<p>>)]
            BY <2>2 DEF CreateToken, Charge, RecordTokens
        <3>2. state'.tokenCount = state.tokenCount + 1
            BY <3>1 DEF TypeOK
        <3> QED BY <2>0, <3>1, <3>2 DEF PaidStep
    <2>3. ASSUME NEW a \in Accounts, NEW ps \in Batches, CreateTokensBatch(a, ps)
          PROVE  PaidStep
        <3>1. /\ collected' = collected + state.baseFee * Len(ps)
              /\ state' = [state EXCEPT !.tokenCount = @ + Len(ps)]
              /\ Len(ps) \in 1..MaxBatchSize
            BY <2>3 DEF CreateTokensBatch, Charge, RecordTokens, BatchFee
        <3>2. state'.tokenCount = state.tokenCount + Len(ps) /\ Len(ps) \in Nat
            BY <3>1, BoundsAssumption DEF TypeOK
        <3>3. state'.tokenCount - state.tokenCount = Len(ps)
            BY <2>0, <3>2
        <3>4. collected' - collected = state.baseFee * Len(ps)
            <4>1. state.baseFee * Len(ps) \in Nat
                BY <2>0, <3>2
            <4> QED BY <2>0, <3>1, <4>1
        <3>5. state.baseFee * Len(ps) \in Nat
            BY <2>0, <3>2
        <3> QED BY <3>3, <3>4, <3>5 DEF PaidStep
    <2>4. ASSUME UNCHANGED <<state, collected>> PROVE PaidStep
        BY <2>0, <2>4 DEF PaidStep
    <2>5. ASSUME NEW a \in Accounts, TokenNext(a) PROVE PaidStep
        <3>1. UNCHANGED state /\ collected' \in {collected, collected + state.baseFee,
                                                 collected + state.metadataFee}
            BY <2>5 DEF TokenNext, MintTokens, Burn, SetBurnEnabled, SetMetadata,
                        FreezeMetadata, Charge, feeVars
        <3> QED BY <2>0, <3>1 DEF PaidStep
    <2>6. ASSUME NEW a \in Accounts, NEW f \in FeeValues, QuoteFee(a, f) PROVE PaidStep
        BY <2>4, <2>6 DEF QuoteFee
    <2>7. ASSUME AdminNext PROVE PaidStep
        <3> USE DEF feeVars
        <3>1. ASSUME NEW b \in BOOLEAN, SetPaused(b) \/ SetWhitelistEnabled(b)
              PROVE  state'.tokenCount = state.tokenCount /\ collected' = collected
            BY <3>1 DEF SetPaused, SetWhitelistEnabled, TypeOK
        <3>2. ASSUME NEW f \in FeeValues, NEW g \in FeeValues, UpdateFees(f, g)
              PROVE  state'.tokenCount = state.tokenCount /\ collected' = collected
            BY <3>2 DEF UpdateFees, TypeOK
        <3>3. ASSUME NEW a \in Accounts, AddToWhitelist(a) \/ RemoveFromWhitelist(a)
              PROVE  state'.tokenCount = state.tokenCount /\ collected' = collected
            BY <3>3 DEF AddToWhitelist, RemoveFromWhitelist
        <3>4. state'.tokenCount = state.tokenCount /\ collected' = collected
            BY <2>7, <3>1, <3>2, <3>3 DEF AdminNext
        <3> QED BY <2>0, <3>4 DEF PaidStep
    <2> QED BY <2>2, <2>3, <2>5, <2>6, <2>7 DEF Next, CreationNext
<1> QED BY <1>1, TypeCorrect, PTL DEF Spec, EveryTokenPaidFor

(***************************************************************************)
(* The lists of creators.                                                  *)
(***************************************************************************)
\* append_creator_token puts the new indices, all above the old ones, at the
\* end of the creator's list and touches no other list.
LEMMA CreationLists ==
    ASSUME TypeOK, CreatorListsExact, NEW creator \in Accounts, NEW n \in Nat \ {0},
           NEW ps \in [1..n -> TokenParams], Len(ps) = n,
           RecordTokens(creator, ps)
    PROVE  CreatorListsExact'
<1> DEFINE c    == state.tokenCount
           s    == creatorTokens[creator]
           ext  == [k \in 1..n |-> NewIndex(k)]
           list == creatorTokens'[creator]
<1>1. Recorded(creator, ps, n)
    BY RecordTokensEffect
<1>2. /\ state'.tokenCount = c + n
      /\ c \in Nat
      /\ \A i \in 1..c : tokenInfo'[i] = tokenInfo[i]
      /\ \A k \in 1..n : tokenInfo'[c + k].creator = creator
    <2>1. c \in Nat
        BY BoundsAssumption DEF TypeOK
    <2>2. ASSUME NEW k \in 1..n PROVE tokenInfo'[c + k].creator = creator
        <3>1. tokenInfo'[c + k] = [creator |-> creator, burnEnabled |-> TRUE,
                                   maxSupply |-> ps[k].maxSupply]
            BY <1>1 DEF Recorded, NewIndex
        <3> QED BY <3>1
    <2> QED BY <1>1, <2>1, <2>2 DEF Recorded
<1>3. /\ creatorTokens \in [Accounts -> Seq(Nat)]
      /\ s \in Seq(Nat)
      /\ ext \in Seq(Nat) /\ Len(ext) = n
      /\ creatorTokens' = [creatorTokens EXCEPT ![creator] = s \o ext]
      /\ list = s \o ext
    <2>1. creatorTokens \in [Accounts -> Seq(Nat)]
        BY DEF TypeOK
    <2>2. ext \in [1..n -> Nat]
        BY <1>2 DEF NewIndex
    <2>3. creatorTokens' = [creatorTokens EXCEPT ![creator] = s \o ext]
        BY <2>1 DEF RecordTokens, AppendCreatorTokens
    <2> QED BY <2>1, <2>2, <2>3
<1>4. /\ Len(s) \in Nat /\ DOMAIN s = 1..Len(s)
      /\ DOMAIN list = 1..(Len(s) + n)
      /\ \A i \in 1..Len(s) : list[i] = s[i]
      /\ \A k \in 1..n : list[Len(s) + k] = c + k
    <2> HIDE DEF s, list
    <2>1. /\ Len(s \o ext) = Len(s) + n
          /\ \A i \in 1..(Len(s) + n) :
                (s \o ext)[i] = IF i <= Len(s) THEN s[i] ELSE ext[i - Len(s)]
        BY <1>3, ConcatProperties
    <2>2. Len(s) \in Nat /\ DOMAIN s = 1..Len(s)
        BY <1>3, LenProperties
    <2>3. s \o ext \in Seq(Nat)
        BY <1>3, ConcatProperties
    <2>4. DOMAIN list = 1..(Len(s) + n)
        BY <1>3, <2>1, <2>3, LenProperties
    <2>5. \A i \in 1..Len(s) : list[i] = s[i]
        BY <1>3, <2>1, <2>2
    <2>6. ASSUME NEW k \in 1..n PROVE list[Len(s) + k] = c + k
        <3>1. list[Len(s) + k] = ext[k]
            BY <1>3, <2>1, <2>2
        <3> QED BY <3>1 DEF NewIndex
    <2> QED BY <2>2, <2>4, <2>5, <2>6
<1>5. \A k \in 1..Len(s) : s[k] \in 1..c /\ tokenInfo[s[k]].creator = creator
    BY <1>4 DEF CreatorListsExact
<1>6. ASSUME NEW a \in Accounts, a # creator
      PROVE  /\ creatorTokens'[a] = creatorTokens[a]
             /\ {i \in 1..(c + n) : tokenInfo'[i].creator = a}
                  = {i \in 1..c : tokenInfo[i].creator = a}
    <2>1. ASSUME NEW i \in 1..(c + n), tokenInfo'[i].creator = a PROVE i \in 1..c
        <3>1. CASE i > c
            <4>1. i - c \in 1..n /\ c + (i - c) = i
                BY <1>2, <3>1
            <4> QED BY <1>2, <1>6, <2>1, <4>1
        <3> QED BY <1>2, <3>1
    <2>2. \A i \in 1..c : i \in 1..(c + n)
        BY <1>2
    <2> QED BY <1>2, <1>3, <1>6, <2>1, <2>2
<1>7. {list[k] : k \in DOMAIN list} = {i \in 1..(c + n) : tokenInfo'[i].creator = creator}
    <2>1. ASSUME NEW k \in DOMAIN list
          PROVE  list[k] \in 1..(c + n) /\ tokenInfo'[list[k]].creator = creator
        <3>1. CASE k \in 1..Len(s)
            <4>1. list[k] \in 1..c /\ tokenInfo[list[k]].creator = creator
                BY <1>4, <1>5, <3>1
            <4> QED BY <1>2, <4>1
        <3>2. CASE k \notin 1..Len(s)
            <4>1. k - Len(s) \in 1..n /\ Len(s) + (k - Len(s)) = k
                BY <1>4, <3>2
            <4>2. list[k] = c + (k - Len(s))
                BY <1>4, <4>1
            <4>3. tokenInfo'[c + (k - Len(s))].creator = creator
                BY <1>2, <4>1
            <4> QED BY <1>2, <4>1, <4>2, <4>3
        <3> QED BY <3>1, <3>2
    <2>2. ASSUME NEW i \in 1..(c + n), tokenInfo'[i].creator = creator
          PROVE  \E k \in DOMAIN list : list[k] = i
        <3>1. CASE i \in 1..c
            <4>1. PICK k \in DOMAIN s : s[k] = i
                BY <1>2, <2>2, <3>1 DEF CreatorListsExact
            <4> QED BY <1>4, <4>1
        <3>2. CASE i \notin 1..c
            <4>1. i - c \in 1..n /\ c + (i - c) = i
                BY <1>2, <3>2
            <4>2. Len(s) + (i - c) \in DOMAIN list /\ list[Len(s) + (i - c)] = i
                BY <1>4, <4>1
            <4> QED BY <4>2
        <3> QED BY <3>1, <3>2
    <2> QED BY <2>1, <2>2
<1>8. ASSUME NEW j \in DOMAIN list, NEW k \in DOMAIN list, j < k
      PROVE  list[j] < list[k]
    <2>1. CASE k \in 1..Len(s)
        <3>1. j \in 1..Len(s)
            BY <1>4, <1>8, <2>1
        <3>2. s[j] < s[k]
            BY <1>4, <1>8, <2>1, <3>1 DEF CreatorListsExact
        <3> QED BY <1>4, <2>1, <3>1, <3>2
    <2>2. CASE k \notin 1..Len(s)
        <3>1. k - Len(s) \in 1..n /\ list[k] = c + (k - Len(s))
            <4>1. k - Len(s) \in 1..n /\ Len(s) + (k - Len(s)) = k
                BY <1>4, <2>2
            <4> QED BY <1>4, <4>1
        <3>2. CASE j \in 1..Len(s)
            <4>1. list[j] \in 1..c
                BY <1>4, <1>5, <3>2
            <4> QED BY <1>2, <3>1, <4>1
        <3>3. CASE j \notin 1..Len(s)
            <4>0. j \in 1..(Len(s) + n) /\ Len(s) \in Nat
                BY <1>4
            <4>1. j - Len(s) \in 1..n /\ Len(s) + (j - Len(s)) = j
                BY <3>3, <4>0
            <4>2. list[j] = c + (j - Len(s))
                BY <1>4, <4>1
            <4> QED BY <1>2, <1>4, <1>8, <3>1, <4>2
        <3> QED BY <3>2, <3>3
    <2> QED BY <2>1, <2>2
<1> HIDE DEF list
<1>9. ASSUME NEW a \in Accounts
      PROVE  /\ {creatorTokens'[a][k] : k \in DOMAIN creatorTokens'[a]}
                  = {i \in 1..state'.tokenCount : tokenInfo'[i].creator = a}
             /\ \A j, k \in DOMAIN creatorTokens'[a] :
                  j < k => creatorTokens'[a][j] < creatorTokens'[a][k]
    <2>1. CASE a = creator
        BY <1>2, <1>7, <1>8, <2>1 DEF list
    <2>2. CASE a # creator
        <3>1. /\ creatorTokens'[a] = creatorTokens[a]
              /\ {i \in 1..(c + n) : tokenInfo'[i].creator = a}
                   = {i \in 1..c : tokenInfo[i].creator = a}
            BY <1>6, <2>2
        <3>2. /\ {creatorTokens[a][k] : k \in DOMAIN creatorTokens[a]}
                   = {i \in 1..c : tokenInfo[i].creator = a}
              /\ \A j, k \in DOMAIN creatorTokens[a] :
                   j < k => creatorTokens[a][j] < creatorTokens[a][k]
            BY DEF CreatorListsExact
        <3> QED BY <1>2, <3>1, <3>2
    <2> QED BY <2>1, <2>2
<1> QED BY <1>9 DEF CreatorListsExact

\* Every step keeps the lists of creators exact.
LEMMA NextLists == TypeOK /\ CreatorListsExact /\ [Next]_vars => CreatorListsExact'
<1> SUFFICES ASSUME TypeOK, CreatorListsExact, [Next]_vars PROVE CreatorListsExact'
    OBVIOUS
<1>1. ASSUME NEW a \in Accounts, NEW p \in TokenParams, CreateToken(a, p)
      PROVE  CreatorListsExact'
    <2>1. /\ <<p>> \in [1..1 -> TokenParams] /\ Len(<<p>>) = 1 /\ 1 \in Nat \ {0}
          /\ RecordTokens(a, <<p>>)
        BY <1>1 DEF CreateToken
    <2> QED BY <2>1, CreationLists
<1>2. ASSUME NEW a \in Accounts, NEW ps \in Batches, CreateTokensBatch(a, ps)
      PROVE  CreatorListsExact'
    <2>1. PICK n \in 1..MaxBatchSize : ps \in [1..n -> TokenParams]
        BY DEF Batches
    <2>2. n \in Nat \ {0} /\ Len(ps) = n
        BY <2>1, BoundsAssumption, BatchIsSeq
    <2>3. RecordTokens(a, ps)
        BY <1>2 DEF CreateTokensBatch
    <2> QED BY <2>1, <2>2, <2>3, CreationLists
<1>3. ASSUME state'.tokenCount = state.tokenCount, UNCHANGED creatorTokens,
             \A i \in 1..state.tokenCount : tokenInfo'[i].creator = tokenInfo[i].creator
      PROVE  CreatorListsExact'
    BY <1>3 DEF CreatorListsExact
<1> USE DEF registry, tokenVars, metaVars, feeVars
<1>4. ASSUME NEW a \in Accounts, TokenNext(a) PROVE CreatorListsExact'
    <2>1. UNCHANGED <<state, creatorTokens>>
        BY <1>4 DEF TokenNext, MintTokens, Burn, SetBurnEnabled, SetMetadata, FreezeMetadata
    <2>2. \A i \in 1..state.tokenCount : tokenInfo'[i].creator = tokenInfo[i].creator
        <3>1. CASE tokenInfo' = tokenInfo
            BY <3>1
        <3>2. ASSUME NEW t \in DOMAIN balance, NEW b \in BOOLEAN, SetBurnEnabled(a, t, b)
              PROVE  \A i \in 1..state.tokenCount : tokenInfo'[i].creator = tokenInfo[i].creator
            BY <3>2 DEF SetBurnEnabled, TypeOK, TokenInfo
        <3> QED
            BY <1>4, <3>1, <3>2 DEF TokenNext, MintTokens, Burn, SetMetadata, FreezeMetadata
    <2> QED BY <1>3, <2>1, <2>2
<1>5. ASSUME NEW a \in Accounts, NEW f \in FeeValues, QuoteFee(a, f) PROVE CreatorListsExact'
    BY <1>3, <1>5 DEF QuoteFee
<1>6. CASE AdminNext
    <2>1. UNCHANGED <<creatorTokens, tokenInfo>>
        BY <1>6 DEF AdminNext, SetPaused, SetWhitelistEnabled, UpdateFees, AddToWhitelist,
                    RemoveFromWhitelist
    <2>2. ASSUME NEW b \in BOOLEAN, SetPaused(b) \/ SetWhitelistEnabled(b)
          PROVE  state'.tokenCount = state.tokenCount
        BY <2>2 DEF SetPaused, SetWhitelistEnabled, TypeOK
    <2>3. ASSUME NEW f \in FeeValues, NEW g \in FeeValues, UpdateFees(f, g)
          PROVE  state'.tokenCount = state.tokenCount
        BY <2>3 DEF UpdateFees, TypeOK
    <2>4. ASSUME NEW a \in Accounts, AddToWhitelist(a) \/ RemoveFromWhitelist(a)
          PROVE  state'.tokenCount = state.tokenCount
        BY <2>4 DEF AddToWhitelist, RemoveFromWhitelist
    <2> QED BY <1>3, <1>6, <2>1, <2>2, <2>3, <2>4 DEF AdminNext
<1>7. CASE UNCHANGED vars
    BY <1>3, <1>7 DEF vars
<1> QED BY <1>1, <1>2, <1>4, <1>5, <1>6, <1>7 DEF Next, CreationNext

\* get_tokens_by_creator lists, in the order of creation and once each, what
\* TokenInfo says that creator created.
THEOREM CreatorListsAccurate == Spec => []CreatorListsExact
<1>1. Init => CreatorListsExact
    BY DEF Init, CreatorListsExact
<1> QED BY <1>1, NextLists, TypeCorrect, PTL DEF Spec

\* A charge takes the fee from one account, which authorised at least it.
LEMMA ChargeEffect ==
    ASSUME TypeOK, NEW a \in Accounts, NEW fee \in Nat, NEW pay \in Nat,
           Charge(a, fee, pay), NEW b \in Accounts
    PROVE  /\ feeBalance[b] - feeBalance'[b] = IF b = a THEN fee ELSE 0
           /\ fee <= pay
  BY DEF Charge, TypeOK

\* A call that charges once for every one of n tokens, or once for a call that
\* registers none, keeps within the quote.
LEMMA ChargedPerToken ==
    ASSUME TypeOK, NEW a \in Accounts, NEW n \in Nat, NEW calls \in Nat \ {0},
           calls = IF n > 1 THEN n ELSE 1,
           NEW fee \in Nat, Charge(a, fee, quote[a] * calls),
           fee \in {state.baseFee * calls, state.metadataFee},
           state'.tokenCount = state.tokenCount + n
    PROVE  ChargeStep
<1> SUFFICES ASSUME NEW b \in Accounts
             PROVE  /\ feeBalance[b] - feeBalance'[b] <= quote[b] * calls
                    /\ feeBalance[b] - feeBalance'[b]
                         \in {0, state.baseFee * calls, state.metadataFee}
    <2>1. state'.tokenCount - state.tokenCount = n
        BY BoundsAssumption DEF TypeOK
    <2> QED BY <2>1 DEF ChargeStep
<1>1. quote[a] * calls \in Nat /\ quote[b] * calls \in Nat
    <2>1. quote[a] \in Nat /\ quote[b] \in Nat
        BY DEF TypeOK
    <2> QED BY <2>1
<1>2. /\ feeBalance[b] - feeBalance'[b] = IF b = a THEN fee ELSE 0
      /\ fee <= quote[a] * calls
    BY <1>1, ChargeEffect
<1>3. CASE b = a
    BY <1>2, <1>3
<1>4. CASE b # a
    BY <1>1, <1>2, <1>4
<1> QED BY <1>3, <1>4

\* A step that moves no fee is within every quote.
LEMMA NotCharged == TypeOK /\ feeBalance' = feeBalance /\ TypeOK' => ChargeStep
<1> SUFFICES ASSUME TypeOK, TypeOK', feeBalance' = feeBalance, NEW a \in Accounts,
                    NEW calls,
                    calls = IF state'.tokenCount - state.tokenCount > 1
                            THEN state'.tokenCount - state.tokenCount ELSE 1
             PROVE  /\ feeBalance[a] - feeBalance'[a] <= quote[a] * calls
                    /\ feeBalance[a] - feeBalance'[a] = 0
    BY DEF ChargeStep
<1>1. state.tokenCount \in Nat /\ state'.tokenCount \in Nat
    BY BoundsAssumption DEF TypeOK
<1>2. calls \in Nat
    BY <1>1
<1>3. quote[a] \in Nat /\ feeBalance[a] \in Nat
    BY DEF TypeOK
<1>4. quote[a] * calls \in Nat
    BY <1>2, <1>3
<1> QED BY <1>3, <1>4

\* An account never pays more than it authorised for the calls it made, nor
\* anything but the fee in force, whatever update_fees did in between.
THEOREM ChargesWithinQuotes == Spec => ChargeWithinQuote
<1>1. TypeOK /\ TypeOK' /\ [Next]_vars => [ChargeStep]_vars
    <2> SUFFICES ASSUME TypeOK, TypeOK', Next PROVE ChargeStep
        OBVIOUS
    <2>1. /\ state.baseFee \in Nat /\ state.metadataFee \in Nat
          /\ \A a \in Accounts : quote[a] \in Nat
          /\ state.tokenCount \in Nat
        <3>1. state.tokenCount \in Nat
            BY BoundsAssumption DEF TypeOK
        <3> QED BY <3>1, FeesNat DEF TypeOK
    <2>2. ASSUME NEW a \in Accounts, NEW p \in TokenParams, CreateToken(a, p)
          PROVE  ChargeStep
        <3>1. /\ Charge(a, state.baseFee, quote[a])
              /\ state' = [state EXCEPT !.tokenCount = @ + Len(<<p>>)]
            BY <2>2 DEF CreateToken, RecordTokens
        <3>2. state'.tokenCount = state.tokenCount + 1
            BY <3>1 DEF TypeOK
        <3>3. quote[a] * 1 = quote[a] /\ state.baseFee * 1 = state.baseFee
            BY <2>1
        <3> QED BY <2>1, <3>1, <3>2, <3>3, ChargedPerToken
    <2>3. ASSUME NEW a \in Accounts, NEW ps \in Batches, CreateTokensBatch(a, ps)
          PROVE  ChargeStep
        <3>1. /\ Charge(a, state.baseFee * Len(ps), quote[a] * Len(ps))
              /\ state' = [state EXCEPT !.tokenCount = @ + Len(ps)]
              /\ Len(ps) \in 1..MaxBatchSize
            BY <2>3 DEF CreateTokensBatch, RecordTokens, BatchFee
        <3>2. state'.tokenCount = state.tokenCount + Len(ps) /\ Len(ps) \in Nat \ {0}
            BY <3>1, BoundsAssumption DEF TypeOK
        <3>3. state.baseFee * Len(ps) \in Nat
            BY <2>1, <3>2
        <3>4. Len(ps) = IF Len(ps) > 1 THEN Len(ps) ELSE 1
            <4>1. \A n \in Nat \ {0} : n = IF n > 1 THEN n ELSE 1
                OBVIOUS
            <4> QED BY <3>2, <4>1, Zenon
        <3> QED BY <3>1, <3>2, <3>3, <3>4, ChargedPerToken
    <2>4. ASSUME NEW a \in Accounts, NEW fee \in {state.baseFee, state.metadataFee},
                 Charge(a, fee, quote[a]), UNCHANGED state
          PROVE  ChargeStep
        <3>1. quote[a] * 1 = quote[a] /\ state.baseFee * 1 = state.baseFee
            BY <2>1
        <3>2. state'.tokenCount = state.tokenCount + 0
            BY <2>1, <2>4
        <3> QED BY <2>1, <2>4, <3>1, <3>2, ChargedPerToken
    <2>5. ASSUME NEW a \in Accounts, TokenNext(a) PROVE ChargeStep
        <3>1. \/ \E fee \in {state.baseFee, state.metadataFee} :
                    Charge(a, fee, quote[a]) /\ UNCHANGED state
              \/ feeBalance' = feeBalance
            BY <2>5 DEF TokenNext, MintTokens, Burn, SetBurnEnabled, SetMetadata,
                        FreezeMetadata, feeVars
        <3> QED BY <2>4, <3>1, NotCharged
    <2>6. ASSUME NEW a \in Accounts, NEW f \in FeeValues, QuoteFee(a, f) PROVE ChargeStep
        BY <2>6, NotCharged DEF QuoteFee
    <2>7. ASSUME AdminNext PROVE ChargeStep
        <3>1. feeBalance' = feeBalance
            BY <2>7 DEF AdminNext, SetPaused, SetWhitelistEnabled, UpdateFees,
                        AddToWhitelist, RemoveFromWhitelist, feeVars
        <3> QED BY <3>1, NotCharged
    <2> QED BY <2>2, <2>3, <2>5, <2>6, <2>7 DEF Next, CreationNext
<1> QED BY <1>1, TypeCorrect, PTL DEF Spec, ChargeWithinQuote

(***************************************************************************)
(* The refinement of CappedIssuance.  What circulates is a sum over the    *)
(* accounts, stated as the number of base units in their hands: a mint     *)
(* adds an interval of units to one hand, and a burn is a mint undone.     *)
(***************************************************************************)
\* Finitely many accounts hold finitely many units.
LEMMA HeldUnitsFinite ==
    ASSUME NEW holding \in [Accounts -> Nat]
    PROVE  IsFiniteSet(HeldUnits(holding)) /\ Circulating(holding) \in Nat
<1> DEFINE Hand(a) == {a} \X (1..holding[a])
           hands == {Hand(a) : a \in Accounts}
<1>1. ASSUME NEW a \in Accounts PROVE IsFiniteSet(Hand(a))
    <2>1. IsFiniteSet(1..holding[a])
        BY FS_Interval
    <2> QED BY <2>1, FS_Singleton, FS_Product
<1>2. IsFiniteSet(hands)
    <2> DEFINE f == [a \in Accounts |-> Hand(a)]
    <2>1. f \in Surjection(Accounts, hands)
        <3> HIDE DEF Hand
        <3> QED BY DEF Surjection
    <2> QED BY <2>1, AccountsAssumption, FS_Surjection
<1>3. \A H \in hands : IsFiniteSet(H)
    BY <1>1
<1>4. IsFiniteSet(UNION hands)
    BY <1>2, <1>3, FS_UNION
<1>5. IsFiniteSet(HeldUnits(holding))
    BY <1>4 DEF HeldUnits
<1> QED BY <1>5, FS_CardinalityType DEF Circulating

\* m more units in the hand of one account are m more in circulation.
LEMMA CirculatingGrows ==
    ASSUME NEW holding \in [Accounts -> Nat], NEW a \in Accounts, NEW m \in Nat
    PROVE  Circulating([holding EXCEPT ![a] = @ + m]) = Circulating(holding) + m
<1> DEFINE more == [holding EXCEPT ![a] = @ + m]
           h    == holding[a]
           rest == {a} \X ((h + 1)..(h + m))
<1>1. more \in [Accounts -> Nat] /\ h \in Nat /\ more[a] = h + m
    OBVIOUS
<1>2. HeldUnits(more) = HeldUnits(holding) \cup rest
    <2>1. ASSUME NEW u \in HeldUnits(more) PROVE u \in HeldUnits(holding) \cup rest
        <3>0. PICK b \in Accounts : u \in {b} \X (1..more[b])
            BY DEF HeldUnits
        <3>1. PICK i \in 1..more[b] : u = <<b, i>>
            BY <3>0
        <3>2. CASE b = a /\ i > h
            <4>1. i \in (h + 1)..(h + m)
                BY <1>1, <3>1, <3>2
            <4> QED BY <3>1, <3>2, <4>1
        <3>3. CASE ~(b = a /\ i > h)
            <4>1. i \in 1..holding[b]
                BY <1>1, <3>1, <3>3
            <4> QED BY <3>1, <4>1 DEF HeldUnits
        <3> QED BY <3>2, <3>3
    <2>2. ASSUME NEW u \in HeldUnits(holding) PROVE u \in HeldUnits(more)
        <3>0. PICK b \in Accounts : u \in {b} \X (1..holding[b])
            BY DEF HeldUnits
        <3>1. PICK i \in 1..holding[b] : u = <<b, i>>
            BY <3>0
        <3>2. i \in 1..more[b]
            BY <1>1, <3>1
        <3> QED BY <3>1, <3>2 DEF HeldUnits
    <2>3. ASSUME NEW i \in (h + 1)..(h + m) PROVE <<a, i>> \in HeldUnits(more)
        <3>1. i \in 1..more[a]
            BY <1>1
        <3> QED BY <3>1 DEF HeldUnits
    <2>4. ASSUME NEW u \in rest PROVE u \in HeldUnits(more)
        <3>1. PICK i \in (h + 1)..(h + m) : u = <<a, i>>
            OBVIOUS
        <3> HIDE DEF more
        <3> QED BY <2>3, <3>1
    <2> HIDE DEF more, rest
    <2> QED BY <2>1, <2>2, <2>4
<1>3. HeldUnits(holding) \cap rest = {}
    <2> SUFFICES ASSUME NEW b \in Accounts, NEW i \in 1..holding[b],
                        <<b, i>> \in rest
                 PROVE  FALSE
        BY DEF HeldUnits
    <2>1. b = a /\ i \in (h + 1)..(h + m) /\ i \in 1..h
        OBVIOUS
    <2> QED BY <1>1, <2>1
<1>4. IsFiniteSet(rest) /\ Cardinality(rest) = m
    <2>1. /\ IsFiniteSet((h + 1)..(h + m))
          /\ Cardinality((h + 1)..(h + m)) = m
        <3>1. h + 1 \in Int /\ h + m \in Int
            BY <1>1
        <3>2. /\ IsFiniteSet((h + 1)..(h + m))
              /\ Cardinality((h + 1)..(h + m))
                   = IF h + 1 > h + m THEN 0 ELSE (h + m) - (h + 1) + 1
            BY <3>1, FS_Interval
        <3> QED BY <1>1, <3>2
    <2>2. IsFiniteSet({a}) /\ Cardinality({a}) = 1
        BY FS_Singleton
    <2>3. IsFiniteSet(rest) /\ Cardinality(rest) = 1 * m
        BY <2>1, <2>2, FS_Product
    <2> QED BY <2>3
<1>5. IsFiniteSet(HeldUnits(holding)) /\ Circulating(holding) \in Nat
    BY HeldUnitsFinite
<1>6. Cardinality(HeldUnits(holding) \cup rest) = Cardinality(HeldUnits(holding)) + m
    <2>1. Cardinality(HeldUnits(holding) \cup rest)
            = Cardinality(HeldUnits(holding)) + m - Cardinality({})
        BY <1>3, <1>4, <1>5, FS_Union
    <2> QED BY <1>5, <2>1, FS_EmptySet DEF Circulating
<1> QED BY <1>2, <1>6 DEF Circulating

\* A new token circulates as its creator's initial supply.
LEMMA CirculatingAtLaunch ==
    ASSUME NEW a \in Accounts, NEW m \in Nat
    PROVE  Circulating([b \in Accounts |-> IF b = a THEN m ELSE 0]) = m
<1> DEFINE none == [b \in Accounts |-> 0]
<1>1. HeldUnits(none) = {}
    <2>1. \A c \in Accounts : ({c} \X (1..none[c])) = {}
        OBVIOUS
    <2> QED BY <2>1 DEF HeldUnits
<1>2. Circulating(none) = 0
    BY <1>1, FS_EmptySet DEF Circulating
<1>3. Circulating([none EXCEPT ![a] = @ + m]) = 0 + m
    BY <1>2, CirculatingGrows
<1>4. [none EXCEPT ![a] = @ + m] = [b \in Accounts |-> IF b = a THEN m ELSE 0]
    OBVIOUS
<1> QED BY <1>3, <1>4

\* What a creation does to the amounts of the new tokens and of the others.
Launched(creator, ps, n) ==
    LET new == {NewAddress(creator, ps, k) : k \in 1..n}
    IN  /\ DOMAIN issued' = DOMAIN tokenIndex \cup new
        /\ DOMAIN balance' = DOMAIN tokenIndex \cup new
        /\ \A t \in DOMAIN tokenIndex : issued'[t] = issued[t] /\ balance'[t] = balance[t]
        /\ \A k \in 1..n :
             LET t == NewAddress(creator, ps, k)
                 m == ps[k].initialSupply
             IN  /\ issued'[t] = m
                 /\ balance'[t] = [a \in Accounts |-> IF a = creator THEN m ELSE 0]

\* record_token gives the initial supply of a new token to its creator, and
\* the amounts of the other tokens stay.
LEMMA CreationAmounts ==
    ASSUME TypeOK, NEW creator \in Accounts, NEW n \in Nat \ {0},
           NEW ps \in [1..n -> TokenParams], Len(ps) = n,
           RecordTokens(creator, ps)
    PROVE  Launched(creator, ps, n)
<1> DEFINE new == {NewAddress(creator, ps, k) : k \in 1..n}
<1>1. Recorded(creator, ps, n)
    BY RecordTokensEffect
<1>2. DOMAIN issued = DOMAIN tokenIndex /\ DOMAIN balance = DOMAIN tokenIndex
    BY DEF TypeOK
<1>3. new \cap DOMAIN tokenIndex = {}
    BY <1>1 DEF Recorded
<1>4. /\ issued' = [t \in DOMAIN issued \cup new |->
                       IF t \in new THEN ParamsOf(t, ps).initialSupply ELSE issued[t]]
      /\ balance' = [t \in DOMAIN balance \cup new |->
                       IF t \in new
                       THEN [a \in Accounts |-> IF a = creator
                                                THEN ParamsOf(t, ps).initialSupply ELSE 0]
                       ELSE balance[t]]
    BY DEF RecordTokens
<1>5. ASSUME NEW t \in DOMAIN tokenIndex
      PROVE  issued'[t] = issued[t] /\ balance'[t] = balance[t]
    <2>1. t \notin new
        BY <1>3
    <2> HIDE DEF new
    <2> QED BY <1>2, <1>4, <2>1
<1>6. ASSUME NEW k \in 1..n
      PROVE  LET t == NewAddress(creator, ps, k)
                 m == ps[k].initialSupply
             IN  /\ issued'[t] = m
                 /\ balance'[t] = [a \in Accounts |-> IF a = creator THEN m ELSE 0]
    <2> DEFINE t == NewAddress(creator, ps, k)
    <2>1. t \in new
        OBVIOUS
    <2>2. ParamsOf(t, ps) = ps[k]
        BY <1>1 DEF Recorded
    <2> HIDE DEF new, t
    <2>3. /\ issued'[t] = ps[k].initialSupply
          /\ balance'[t] = [a \in Accounts |-> IF a = creator THEN ps[k].initialSupply ELSE 0]
        BY <1>4, <2>1, <2>2
    <2> QED BY <2>3 DEF t
<1>7. /\ DOMAIN issued' = DOMAIN tokenIndex \cup new
      /\ DOMAIN balance' = DOMAIN tokenIndex \cup new
    BY <1>2, <1>4
<1> QED BY <1>5, <1>6, <1>7 DEF Launched

\* create_token and create_tokens_batch launch tokens within their caps.
LEMMA CreationLaunches ==
    ASSUME IInv, IInv', NEW creator \in Accounts, NEW n \in Nat \ {0},
           NEW ps \in [1..n -> TokenParams], Len(ps) = n,
           RecordTokens(creator, ps)
    PROVE  Promise!Launch
<1> DEFINE new  == {NewAddress(creator, ps, k) : k \in 1..n}
           old  == DOMAIN tokenIndex
           caps == [t \in DOMAIN tokenIndex |-> CapOf(t)]
           circ == [t \in DOMAIN balance |-> Circulating(balance[t])]
<1>1. Recorded(creator, ps, n)
    BY RecordTokensEffect DEF IInv
<1>2. /\ DOMAIN tokenIndex' = old \cup new
      /\ new \cap old = {}
      /\ new \subseteq Addresses
      /\ \A t \in old : tokenIndex'[t] = tokenIndex[t]
      /\ \A i \in 1..state.tokenCount : tokenInfo'[i] = tokenInfo[i]
    BY <1>1 DEF Recorded
<1>3. /\ DOMAIN issued' = old \cup new
      /\ DOMAIN balance' = old \cup new
      /\ \A t \in old : issued'[t] = issued[t] /\ balance'[t] = balance[t]
      /\ \A k \in 1..n :
           LET t == NewAddress(creator, ps, k)
               m == ps[k].initialSupply
           IN  /\ issued'[t] = m
               /\ balance'[t] = [a \in Accounts |-> IF a = creator THEN m ELSE 0]
    <2>1. Launched(creator, ps, n)
        BY CreationAmounts DEF IInv
    <2> QED BY <2>1 DEF Launched
<1>4. \A t \in old : caps'[t] = caps[t]
    <2>1. \A t \in old : tokenIndex[t] \in 1..state.tokenCount
        BY DEF IInv, TypeOK
    <2> QED BY <1>2, <2>1 DEF CapOf
<1>5. ASSUME NEW t \in new
      PROVE  /\ caps'[t] \in Caps
             /\ issued'[t] \in Nat
             /\ caps'[t] # NoCap => issued'[t] <= caps'[t]
    <2>1. t \in DOMAIN tokenIndex' /\ t \in DOMAIN issued'
        BY <1>2, <1>3
    <2>2. tokenIndex'[t] \in 1..state'.tokenCount /\ issued'[t] \in Nat
        BY <2>1 DEF IInv, TypeOK
    <2>3. tokenInfo'[tokenIndex'[t]] \in TokenInfo
        BY <2>2 DEF IInv, TypeOK
    <2>4. CapOf(t)' \in Caps
        BY <2>3 DEF CapOf, TokenInfo
    <2>5. CapOf(t)' # NoCap => issued'[t] <= CapOf(t)'
        BY <2>1 DEF IInv, CapRespected
    <2> QED BY <2>1, <2>2, <2>4, <2>5
<1>6. ASSUME NEW t \in new PROVE Circulating(balance'[t]) = issued'[t]
    <2>1. PICK k \in 1..n : t = NewAddress(creator, ps, k)
        OBVIOUS
    <2>2. ps[k].initialSupply \in Nat
        BY AmountsAssumption DEF TokenParams
    <2>3. /\ issued'[t] = ps[k].initialSupply
          /\ balance'[t] = [a \in Accounts |-> IF a = creator THEN ps[k].initialSupply ELSE 0]
        BY <1>3, <2>1
    <2>4. Circulating([a \in Accounts |-> IF a = creator THEN ps[k].initialSupply ELSE 0])
            = ps[k].initialSupply
        BY <2>2, CirculatingAtLaunch
    <2> QED BY <2>3, <2>4
<1>7. circ' = [t \in DOMAIN caps' |-> IF t \in new THEN issued'[t] ELSE circ[t]]
    <2>1. ASSUME NEW t \in old PROVE circ'[t] = circ[t] /\ t \notin new
        <3>1. t \in DOMAIN balance /\ t \in DOMAIN balance' /\ t \notin new
            BY <1>2, <1>3 DEF IInv, TypeOK
        <3>2. balance'[t] = balance[t]
            BY <1>3
        <3> HIDE DEF new
        <3> QED BY <3>1, <3>2
    <2>2. \A t \in new : circ'[t] = issued'[t]
        BY <1>3, <1>6
    <2>3. DOMAIN balance' = old \cup new /\ DOMAIN caps' = old \cup new
        BY <1>2, <1>3
    <2> HIDE DEF new, old
    <2> QED BY <2>1, <2>2, <2>3 DEF old
<1>8. new # {} /\ new \in SUBSET (Addresses \ old)
    <2>1. NewAddress(creator, ps, 1) \in new
        OBVIOUS
    <2> QED BY <1>2, <2>1
<1>9. DOMAIN caps = old /\ DOMAIN caps' = old \cup new
    BY <1>2
<1> HIDE DEF new
<1> QED BY <1>3, <1>4, <1>5, <1>7, <1>8, <1>9 DEF Promise!Launch

\* mint_tokens issues within the cap: CapRespected holds after it.
LEMMA MintIssues ==
    ASSUME IInv, IInv', NEW a \in Accounts, NEW t \in DOMAIN balance, NEW to \in Accounts,
           NEW m \in Amounts, MintTokens(a, t, to, m)
    PROVE  Promise!Issue(t)
<1> DEFINE caps == [u \in DOMAIN tokenIndex |-> CapOf(u)]
           circ == [u \in DOMAIN balance |-> Circulating(balance[u])]
<1>1. /\ m \in Nat /\ m > 0
      /\ UNCHANGED <<tokenIndex, tokenInfo>>
      /\ balance' = [balance EXCEPT ![t][to] = @ + m]
      /\ issued' = [issued EXCEPT ![t] = @ + m]
    BY AmountsAssumption DEF MintTokens, registry
<1>2. /\ balance \in [DOMAIN tokenIndex -> [Accounts -> Nat]]
      /\ issued \in [DOMAIN tokenIndex -> Nat]
      /\ t \in DOMAIN tokenIndex
    BY DEF IInv, TypeOK
<1>3. issued'[t] = issued[t] + m /\ issued[t] \in Nat
    BY <1>1, <1>2
<1>4. caps' = caps /\ caps[t] = CapOf(t)
    BY <1>1, <1>2 DEF CapOf
<1>5. caps[t] # NoCap => issued'[t] <= caps[t]
    <2>1. t \in DOMAIN issued' /\ CapOf(t)' = CapOf(t)
        BY <1>1, <1>2 DEF CapOf
    <2> QED BY <1>4, <2>1 DEF IInv, CapRespected
<1>6. issued' = [issued EXCEPT ![t] = issued'[t]]
    BY <1>1, <1>3
<1>7. circ' = [circ EXCEPT ![t] = @ + (issued'[t] - issued[t])]
    <2>1. balance'[t] = [balance[t] EXCEPT ![to] = @ + m] /\ balance[t] \in [Accounts -> Nat]
        BY <1>1, <1>2
    <2>2. Circulating(balance'[t]) = Circulating(balance[t]) + m
        BY <1>1, <2>1, CirculatingGrows
    <2>3. issued'[t] - issued[t] = m
        BY <1>1, <1>3
    <2>4. \A u \in DOMAIN balance \ {t} : balance'[u] = balance[u]
        BY <1>1
    <2>5. DOMAIN balance' = DOMAIN balance
        BY <1>1
    <2> QED BY <2>2, <2>3, <2>4, <2>5
<1>8. issued'[t] > issued[t]
    BY <1>1, <1>3
<1> QED BY <1>4, <1>5, <1>6, <1>7, <1>8 DEF Promise!Issue

\* burn retires units, and only those of one token.
LEMMA BurnRetires ==
    ASSUME IInv, NEW a \in Accounts, NEW t \in DOMAIN balance, NEW m \in Amounts,
           Burn(a, t, m)
    PROVE  Promise!Retire(t)
<1> DEFINE caps == [u \in DOMAIN tokenIndex |-> CapOf(u)]
           circ == [u \in DOMAIN balance |-> Circulating(balance[u])]
<1>1. /\ m \in Nat /\ m <= balance[t][a]
      /\ UNCHANGED <<tokenIndex, tokenInfo, issued>>
      /\ balance' = [balance EXCEPT ![t][a] = @ - m]
    BY AmountsAssumption DEF Burn, registry
<1>2. balance \in [DOMAIN tokenIndex -> [Accounts -> Nat]] /\ t \in DOMAIN tokenIndex
    BY DEF IInv, TypeOK
<1>3. caps' = caps
    BY <1>1, <1>2 DEF CapOf
<1>4. circ'[t] \in 0..circ[t]
    <2> DEFINE less == [balance[t] EXCEPT ![a] = @ - m]
    <2>1. balance'[t] = less /\ balance[t] \in [Accounts -> Nat]
        BY <1>1, <1>2
    <2>2. balance[t][a] - m \in Nat
        BY <1>1, <2>1
    <2>3. less \in [Accounts -> Nat]
        BY <2>1, <2>2
    <2>4. balance[t] = [less EXCEPT ![a] = @ + m]
        <3> DEFINE h    == balance[t]
                   back == [less EXCEPT ![a] = @ + m]
        <3>1. less[a] + m = h[a]
            BY <1>1, <2>1, <2>2
        <3>2. \A x \in Accounts : back[x] = h[x]
            BY <2>1, <3>1
        <3>3. back \in [Accounts -> Int] /\ h \in [Accounts -> Int]
            BY <1>1, <2>1, <2>3
        <3> HIDE DEF h, back
        <3>4. back = h
            BY <3>2, <3>3
        <3> QED BY <3>4 DEF h, back
    <2> HIDE DEF less
    <2>5. Circulating(balance[t]) = Circulating(less) + m /\ Circulating(less) \in Nat
        BY <1>1, <2>3, <2>4, CirculatingGrows, HeldUnitsFinite
    <2>6. circ'[t] = Circulating(less) /\ circ[t] = Circulating(balance[t])
        BY <1>1, <1>2, <2>1
    <2> QED BY <1>1, <2>5, <2>6
<1>5. circ' = [circ EXCEPT ![t] = circ'[t]]
    <2>1. \A u \in DOMAIN balance \ {t} : balance'[u] = balance[u]
        BY <1>1
    <2>2. DOMAIN balance' = DOMAIN balance
        BY <1>1
    <2> QED BY <2>1, <2>2
<1> QED BY <1>1, <1>3, <1>4, <1>5 DEF Promise!Retire

\* A step of the factory is, for the holders of its tokens, a launch, an issue
\* within the cap, a burn, or nothing.
LEMMA PromiseStep == IInv /\ IInv' /\ [Next]_vars => [Promise!Next]_(Promise!vars)
<1> SUFFICES ASSUME IInv, IInv', [Next]_vars PROVE [Promise!Next]_(Promise!vars)
    OBVIOUS
<1> DEFINE caps == [t \in DOMAIN tokenIndex |-> CapOf(t)]
<1>1. ASSUME UNCHANGED <<tokenIndex, issued, balance>>,
             \A t \in DOMAIN tokenIndex : CapOf(t)' = CapOf(t)
      PROVE  UNCHANGED Promise!vars
    <2>1. caps' = caps
        BY <1>1
    <2> QED BY <1>1, <2>1 DEF Promise!vars
<1>2. ASSUME NEW a \in Accounts, NEW p \in TokenParams, CreateToken(a, p)
      PROVE  Promise!Launch
    <2>1. /\ <<p>> \in [1..1 -> TokenParams] /\ Len(<<p>>) = 1 /\ 1 \in Nat \ {0}
          /\ RecordTokens(a, <<p>>)
        BY <1>2 DEF CreateToken
    <2> QED BY <2>1, CreationLaunches
<1>3. ASSUME NEW a \in Accounts, NEW ps \in Batches, CreateTokensBatch(a, ps)
      PROVE  Promise!Launch
    <2>1. PICK n \in 1..MaxBatchSize : ps \in [1..n -> TokenParams]
        BY DEF Batches
    <2>2. n \in Nat \ {0} /\ Len(ps) = n
        BY <2>1, BoundsAssumption, BatchIsSeq
    <2>3. RecordTokens(a, ps)
        BY <1>3 DEF CreateTokensBatch
    <2> QED BY <2>1, <2>2, <2>3, CreationLaunches
<1> USE DEF registry, tokenVars, metaVars, feeVars
<1>4. ASSUME NEW a \in Accounts, NEW t \in DOMAIN balance, NEW b \in BOOLEAN,
             SetBurnEnabled(a, t, b)
      PROVE  UNCHANGED Promise!vars
    <2>1. /\ UNCHANGED <<tokenIndex, issued, balance>>
          /\ tokenInfo' = [tokenInfo EXCEPT ![tokenIndex[t]].burnEnabled = b]
        BY <1>4 DEF SetBurnEnabled
    <2>2. \A u \in DOMAIN tokenIndex : CapOf(u)' = CapOf(u)
        BY <2>1 DEF CapOf, IInv, TypeOK, TokenInfo
    <2> QED BY <1>1, <2>1, <2>2
<1>5. ASSUME NEW a \in Accounts, TokenNext(a) PROVE [Promise!Next]_(Promise!vars)
    <2> PICK t \in DOMAIN balance :
            \/ \E to \in Accounts, n \in Amounts : MintTokens(a, t, to, n)
            \/ \E n \in Amounts : Burn(a, t, n)
            \/ \E b \in BOOLEAN : SetBurnEnabled(a, t, b)
            \/ \E uri \in Uris : SetMetadata(a, t, uri)
            \/ FreezeMetadata(a, t)
        BY <1>5 DEF TokenNext
    <2>1. t \in DOMAIN [u \in DOMAIN tokenIndex |-> CapOf(u)]
        BY DEF IInv, TypeOK
    <2>2. ASSUME NEW to \in Accounts, NEW n \in Amounts, MintTokens(a, t, to, n)
          PROVE  Promise!Next
        BY <2>1, <2>2, MintIssues DEF Promise!Next
    <2>3. ASSUME NEW n \in Amounts, Burn(a, t, n) PROVE Promise!Next
        BY <2>1, <2>3, BurnRetires DEF Promise!Next
    <2>4. ASSUME UNCHANGED <<registry, tokenVars>> PROVE UNCHANGED Promise!vars
        BY <1>1, <2>4 DEF CapOf
    <2> QED BY <1>4, <2>2, <2>3, <2>4 DEF SetMetadata, FreezeMetadata
<1>6. ASSUME UNCHANGED <<registry, tokenVars>> PROVE UNCHANGED Promise!vars
    BY <1>1, <1>6 DEF CapOf
<1>7. ASSUME NEW a \in Accounts, NEW f \in FeeValues, QuoteFee(a, f)
      PROVE  UNCHANGED Promise!vars
    BY <1>6, <1>7 DEF QuoteFee
<1>8. CASE AdminNext
    <2>1. UNCHANGED <<registry, tokenVars>>
        BY <1>8 DEF AdminNext, SetPaused, SetWhitelistEnabled, UpdateFees,
                    AddToWhitelist, RemoveFromWhitelist
    <2> QED BY <1>6, <2>1
<1>9. CASE UNCHANGED vars
    BY <1>6, <1>9 DEF vars
<1>10. Promise!Launch => Promise!Next
    BY DEF Promise!Next
<1> QED BY <1>2, <1>3, <1>5, <1>7, <1>8, <1>9, <1>10 DEF Next, CreationNext

\* The factory keeps its promise to the holders of its tokens: a token is
\* launched once with a cap that never changes, its cumulative issue stays
\* within it, and what circulates grows only by issue.
THEOREM PromiseKept == Spec => ImplementsPromise
<1>1. Init => Promise!Init
    BY DEF Init, Promise!Init, EmptyMap
<1> QED BY <1>1, Invariance, PromiseStep, PTL DEF Spec, ImplementsPromise, Promise!Spec

=============================================================================
