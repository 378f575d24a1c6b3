--------------------------- MODULE WalletSession ---------------------------
(***************************************************************************)
(* Which account the page shows, and which one signs                       *)
(* (src/frontend/src/context/WalletContext.tsx over services/wallet.ts).   *)
(* The context shows an account and its balance; the wallet service keeps  *)
(* the account it builds and signs for, and the browser a copy of it for   *)
(* the next visit.  Requests to Freighter and to Horizon are answered      *)
(* later, in any order, and nothing cancels one.                           *)
(***************************************************************************)
EXTENDS FiniteSets

CONSTANTS
    Addresses,   \* accounts the Freighter extension can select
    Networks,
    None

VARIABLES
    session,     \* wallet.address of the context; None: not connected
    balance,     \* wallet.balance: whose it is, on which network
    connected,   \* WalletService.connectedAddress: what is built is signed for it
    saved,       \* localStorage, stellar_wallet_address
    network,     \* the network the user chose
    connecting,  \* the connect() in flight: its network and Freighter's answer
    checks,      \* the initWallet() calls in flight, likewise
    fetches,     \* the balance requests in flight
    watcher,     \* the watcher of this page: the answer it is to report
    stopped,     \* the questions in flight of watchers that were stopped
    freighter,   \* external: the account selected in the extension
    selected     \* history: the accounts selected while this page was open

watchers   == <<watcher, stopped>>
extension  == <<freighter, selected>>
page       == <<session, balance, connecting, checks, fetches, watchers>>
walletVars == <<page, connected, saved, network, extension>>

\* What a call holds before it asks Freighter, and until the answer comes.
Unasked == "unasked"
Asked   == "asked"

\* fetchBalance(address) with the network of the callback's closure.  Equal
\* requests are one element of the set.
Request(a, n) == [of |-> a, net |-> n]

FreshPage ==
    /\ session = None
    /\ balance = None
    /\ connected = None
    /\ connecting = None
    /\ checks = {[net |-> network, answer |-> Unasked]}
    /\ fetches = {}
    /\ watcher = Asked
    /\ stopped = {}

WalletInit ==
    /\ network \in Networks
    /\ freighter \in Addresses \cup {None}
    /\ saved \in Addresses \cup {None}
    /\ selected = {freighter} \ {None}
    /\ FreshPage

-----------------------------------------------------------------------------
(* A definition named X_<fault> is X with that fault; it stands before X and *)
(* is used only to see that the properties detect the fault.                *)

\* The balances that turning to account a asks for: the caller, for network n,
\* and the effect on the address if it changed.
Wanted(a, n) == {Request(a, n)} \cup IF a = session THEN {} ELSE {Request(a, network)}

\* The context turns to account a, whose balance is not known yet.
Show_KeepsBalance(a, n) ==
    /\ session' = a
    /\ UNCHANGED balance
    /\ fetches' = fetches \cup Wanted(a, n)

Show(a, n) ==
    /\ session' = a
    /\ balance' = None
    /\ fetches' = fetches \cup Wanted(a, n)

Forget ==
    /\ session' = None
    /\ balance' = None
    /\ UNCHANGED fetches

\* The service remembers a for itself and for the next visit.
Remember(a) ==
    /\ connected' = a
    /\ saved' = a

\* The effect that watches runs again when the account shown or the network
\* changes.  It stops the watcher, which may be between two of its questions;
\* one that is in flight is answered and reported all the same, to a callback
\* that knows the account and the network of its time.  others are the stopped
\* watchers' questions besides.
Rewatch(others) ==
    IF session' = session /\ network' = network
    THEN /\ UNCHANGED watcher
         /\ stopped' = others
    ELSE /\ watcher' = Asked
         /\ \/ stopped' = others \cup {[shown |-> session, net |-> network, answer |-> watcher]}
            \/ watcher = Asked /\ stopped' = others

Connect ==
    /\ session = None
    /\ connecting = None
    /\ connecting' = [net |-> network, answer |-> Asked]
    /\ UNCHANGED <<session, balance, checks, fetches, watchers, connected, saved, network,
                   extension>>

\* An answer without an account, or an error, clears the context only.
ConnectEnds ==
    /\ connecting # None
    /\ connecting.answer # Asked
    /\ connecting' = None
    /\ IF connecting.answer = None
       THEN Forget /\ UNCHANGED <<connected, saved>>
       ELSE Show(connecting.answer, connecting.net) /\ Remember(connecting.answer)
    /\ UNCHANGED <<checks, network, extension>>
    /\ Rewatch(stopped)

Disconnect ==
    /\ session # None
    /\ Forget
    /\ connected' = None
    /\ saved' = None
    /\ UNCHANGED <<connecting, checks, network, extension>>
    /\ Rewatch(stopped)

-----------------------------------------------------------------------------
(* initWallet: once per page and per network, it asks for the account again  *)
(* if one was saved.                                                         *)

ReadSaved(c) ==
    /\ c.answer = Unasked
    /\ \/ checks' = checks \ {c}    \* Freighter is not installed, or nothing saved
       \/ /\ saved # None
          /\ checks' = (checks \ {c}) \cup {[c EXCEPT !.answer = Asked]}
    /\ UNCHANGED <<session, balance, connecting, fetches, watchers, connected, saved, network,
                   extension>>

\* Freighter answers with the account selected now, or with an error; the
\* page acts on it later.
FreighterAnswers(c) ==
    /\ c.answer = Asked
    /\ \E a \in {freighter, None} :
         \/ /\ c \in checks
            /\ checks' = (checks \ {c}) \cup {[c EXCEPT !.answer = a]}
            /\ UNCHANGED connecting
         \/ /\ c = connecting
            /\ connecting' = [connecting EXCEPT !.answer = a]
            /\ UNCHANGED checks
    /\ UNCHANGED <<session, balance, fetches, watchers, connected, saved, network, extension>>

\* What checkExistingConnection makes of the answer.
AccountOf_Saved(c) == IF saved # None THEN saved ELSE c.answer

AccountOf(c) == c.answer

CheckEnds(c) ==
    /\ c.answer \notin {Unasked, Asked}
    /\ checks' = checks \ {c}
    /\ IF c.answer = None
       THEN saved' = None /\ UNCHANGED <<session, balance, fetches, connected>>
       ELSE Show(AccountOf(c), c.net) /\ Remember(AccountOf(c))
    /\ UNCHANGED <<connecting, network, extension>>
    /\ Rewatch(stopped)

-----------------------------------------------------------------------------
(* The watcher.  WatchWalletChanges asks Freighter again and again, one       *)
(* question at a time, and reports each account that differs from the one it  *)
(* reported last; reporting one twice would change nothing.  The service is   *)
(* not told of what it reports.                                               *)

\* Freighter answers the watcher, or a question of a stopped one; an error is
\* no report.
WatcherAnswered ==
    /\ freighter # None
    /\ watcher = Asked
    /\ watcher' = freighter
    /\ UNCHANGED <<session, balance, connecting, checks, fetches, stopped, connected, saved,
                   network, extension>>

StoppedAnswered(w) ==
    /\ w.answer = Asked
    /\ \/ stopped' = stopped \ {w}
       \/ /\ freighter # None
          /\ stopped' = (stopped \ {w}) \cup {[w EXCEPT !.answer = freighter]}
    /\ UNCHANGED <<session, balance, connecting, checks, fetches, watcher, connected, saved,
                   network, extension>>

\* The callback compares the account reported with the one its effect was run
\* for, which for this page's watcher is the one shown, and turns to it.
WatcherReports ==
    /\ watcher # Asked
    /\ watcher' = Asked
    /\ IF watcher # session THEN Show(watcher, network)
       ELSE UNCHANGED <<session, balance, fetches>>
    /\ UNCHANGED <<connecting, checks, stopped, connected, saved, network, extension>>

\* A report of a stopped watcher, at any later time; an equal one may follow.
StoppedReports(w) ==
    /\ w.answer # Asked
    /\ IF w.answer # w.shown THEN Show(w.answer, w.net)
       ELSE UNCHANGED <<session, balance, fetches>>
    /\ UNCHANGED <<connecting, checks, connected, saved, network, extension>>
    /\ \E others \in {stopped, stopped \ {w}} : Rewatch(others)

\* The init effect runs again, and the balance of the account is fetched.
SwitchNetwork(n) ==
    /\ n # network
    /\ network' = n
    /\ checks' = checks \cup {[net |-> n, answer |-> Unasked]}
    /\ fetches' = IF session = None THEN fetches ELSE fetches \cup {Request(session, n)}
    /\ UNCHANGED <<session, balance, connecting, connected, saved, extension>>
    /\ Rewatch(stopped)

RefreshBalance ==
    /\ session # None
    /\ fetches' = fetches \cup {Request(session, network)}
    /\ UNCHANGED <<session, balance, connecting, checks, watchers, connected, saved, network,
                   extension>>

\* The answer is put beside whatever account is shown by then; a failed one
\* changes nothing.  An equal request may still be in flight.
BalanceArrives(f) ==
    /\ fetches' \in {fetches, fetches \ {f}}
    /\ balance' \in {balance, [of |-> f.of, net |-> f.net, late |-> f.of # session]}
    /\ UNCHANGED <<session, connecting, checks, watchers, connected, saved, network, extension>>

-----------------------------------------------------------------------------
\* External: the user selects another account, or locks the extension.
SelectAccount(a) ==
    /\ freighter' = a
    /\ selected' = selected \cup ({a} \ {None})
    /\ UNCHANGED <<page, connected, saved, network>>

\* What the browser saved is all that outlives the page.
Reload ==
    /\ session' = None
    /\ balance' = None
    /\ connected' = None
    /\ connecting' = None
    /\ checks' = {[net |-> network, answer |-> Unasked]}
    /\ fetches' = {}
    /\ watcher' = Asked
    /\ stopped' = {}
    /\ selected' = {freighter} \ {None}
    /\ UNCHANGED <<saved, network, freighter>>

WalletNext ==
    \/ Connect
    \/ ConnectEnds
    \/ Disconnect
    \/ \E c \in checks : ReadSaved(c) \/ CheckEnds(c)
    \/ \E c \in checks \cup ({connecting} \ {None}) : FreighterAnswers(c)
    \/ WatcherAnswered
    \/ WatcherReports
    \/ \E w \in stopped : StoppedAnswered(w) \/ StoppedReports(w)
    \/ \E n \in Networks : SwitchNetwork(n)
    \/ RefreshBalance
    \/ \E f \in fetches : BalanceArrives(f)
    \/ \E a \in Addresses \cup {None} : SelectAccount(a)
    \/ Reload

WalletSpec == WalletInit /\ [][WalletNext]_walletVars

-----------------------------------------------------------------------------
(* Properties *)

\* Connecting, checks of a saved account, watchers and their late reports race,
\* and what a former visit saved has a part in it; yet only accounts that were
\* selected in the extension while this page was open are shown or signed for.
\* So the account signed for is the one shown as long as the user keeps to one.
OnlySelectedAccounts == {session, connected} \ {None} \subseteq selected

\* A balance stands beside an account it does not belong to only if its own
\* answer came in after the account had changed: turning to another account
\* clears the old balance on every path, connecting, checking or watching.
BalanceOfShownAccount == balance # None /\ balance.of # session => balance.late

=============================================================================
