------------------------------ MODULE MCClient ------------------------------
(***************************************************************************)
(* TLC instance of what the web client and its API keep around the         *)
(* contract: the pins (two tokens of two wallets that choose the same      *)
(* image), the wallet session, the upload login and the explorer's pages.  *)
(* They share no state that their properties are about, so a behaviour     *)
(* runs one of them, its part, and leaves the others as they start.        *)
(***************************************************************************)
EXTENDS MCMetadataPins, WalletSession, UploadLogin, ExplorerPages

CONSTANTS
    MaxInFlight,   \* bound on the wallet session's requests, late watchers' included
    MaxLate,       \* bound on the requests of cancelled page loads
    n1, c1         \* networks to start with

VARIABLE part

FewInFlight == Cardinality(fetches) + Cardinality(checks) + Cardinality(stopped) <= MaxInFlight

FewLate == Cardinality(late) <= MaxLate

\* A factory without tokens stays without.
EmptyStays == \A c \in Chains : count[c] = 0 => count'[c] = 0

ClientInit ==
    /\ part \in {"pins", "session", "login", "pages"}
    /\ Init
    /\ WalletInit
    /\ LoginInit
    /\ PageInit
    /\ part # "session" => network = n1 /\ freighter = None /\ saved = None
    /\ chain = c1 /\ count[c1] = 2
    /\ \A c \in Chains : count[c] \in (IF part = "pages" THEN {0, 2} ELSE {2})

PinsStep    == Next /\ UNCHANGED <<walletVars, loginVars, pageVars>>
SessionStep == WalletNext /\ FewInFlight' /\ UNCHANGED <<vars, loginVars, pageVars>>
LoginStep   == LoginNext /\ UNCHANGED <<vars, walletVars, pageVars>>
PagesStep   == PageNext /\ FewLate' /\ EmptyStays
                        /\ UNCHANGED <<vars, walletVars, loginVars>>

ClientNext ==
    /\ \/ part = "pins" /\ PinsStep
       \/ part = "session" /\ SessionStep
       \/ part = "login" /\ LoginStep
       \/ part = "pages" /\ PagesStep
    /\ UNCHANGED part

ClientSpec == ClientInit /\ [][ClientNext]_<<vars, walletVars, loginVars, pageVars, part>>

Symmetry == Permutations(Addresses) \cup Permutations(Tabs)

=============================================================================
