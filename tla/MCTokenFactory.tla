--------------------------- MODULE MCTokenFactory ---------------------------
(***************************************************************************)
(* TLC instance of TokenFactory: the symmetric constants, and Next         *)
(* explored in two halves: who holds how much of what (amounts, no fees),  *)
(* and who created, owns, describes and pays for what (fees, no amounts).  *)
(* A behaviour stays in the half that MCInit chose.                        *)
(***************************************************************************)
EXTENDS TokenFactory, TLC

VARIABLE half

MCSymmetry == Permutations(Accounts) \cup Permutations(Salts) \cup Permutations(Uris)

Free == state.baseFee = 0 /\ state.metadataFee = 0

MCInit ==
    /\ Init
    /\ \/ half = "supply" /\ Free
       \/ half = "registry" /\ state.baseFee > 0 /\ state.metadataFee > 0

\* Two tokens suffice where their amounts vary.
SupplyNext ==
    /\ \/ \E a \in Accounts :
           \/ CreationNext(a)
           \/ \E t \in DOMAIN balance :
               \/ \E to \in Accounts, n \in Amounts : MintTokens(a, t, to, n)
               \/ \E n \in Amounts : Burn(a, t, n)
               \/ \E b \in BOOLEAN : SetBurnEnabled(a, t, b)
       \/ \E b \in BOOLEAN : SetPaused(b)
    /\ state'.tokenCount <= 2

PlainParams == {p \in TokenParams : p.maxSupply = NoCap /\ p.initialSupply = 0}
PlainBatches == UNION {[1..n -> PlainParams] : n \in 1..MaxBatchSize}

RegistryNext ==
    \/ \E a \in Accounts :
        \/ \E p \in PlainParams : CreateToken(a, p)
        \/ \E ps \in PlainBatches : CreateTokensBatch(a, ps)
        \/ \E f \in FeeValues : QuoteFee(a, f)
        \/ \E t \in DOMAIN balance :
            \/ \E uri \in Uris : SetMetadata(a, t, uri)
            \/ FreezeMetadata(a, t)
    \/ \E b \in BOOLEAN : SetPaused(b) \/ SetWhitelistEnabled(b)
    \/ \E f, g \in FeeValues \ {0} : UpdateFees(f, g)
    \/ \E a \in Accounts : AddToWhitelist(a) \/ RemoveFromWhitelist(a)

MCNext ==
    /\ \/ half = "supply" /\ SupplyNext
       \/ half = "registry" /\ RegistryNext
    /\ UNCHANGED half

MCSpec == MCInit /\ [][MCNext]_<<vars, half>>

=============================================================================
