---------------------------- MODULE ClientProofs ----------------------------
(***************************************************************************)
(* Proofs about what the browser and its API keep around the contract: the *)
(* wallet session, the upload login, the explorer's pages and the pins,    *)
(* for any accounts, networks, tabs, tokens, lives and page sizes.  The    *)
(* four share no state that their properties are about; each has a         *)
(* specification and an invariant of its own.                              *)
(***************************************************************************)
EXTENDS MetadataPins, WalletSession, UploadLogin, ExplorerPages, SequenceTheorems, TLAPS

-----------------------------------------------------------------------------
(*****************************************************************************)
(* The wallet session                                                        *)
(*****************************************************************************)

Shown == selected \cup {None}

Connecting == [net : Networks, answer : Shown \cup {Asked}]

Checking == [net : Networks, answer : Shown \cup {Unasked, Asked}]

Reporting == [shown : Shown, net : Networks, answer : selected \cup {Asked}]

\* Whoever asked Freighter is answered with an account selected on this page.
AnswersSelected ==
    /\ network \in Networks
    /\ freighter \in Shown
    /\ connecting \in Connecting \cup {None}
    /\ checks \subseteq Checking
    /\ watcher \in selected \cup {Asked}
    /\ stopped \subseteq Reporting

SessionInv == AnswersSelected /\ OnlySelectedAccounts

-----------------------------------------------------------------------------

\* A fresh page has asked nobody, and knows what is selected.
LEMMA WalletInitInv == WalletInit => SessionInv
BY DEF WalletInit, FreshPage, Shown, Connecting, Checking, Reporting, SessionInv,
       AnswersSelected, OnlySelectedAccounts

\* A watcher that is stopped was run for an account of this page, and its
\* answer, if it has one, is of this page.
LEMMA RewatchInv ==
    ASSUME SessionInv, NEW others \in SUBSET Reporting, Rewatch(others),
           selected' = selected
    PROVE  watcher' \in selected' \cup {Asked} /\ stopped' \subseteq Reporting'
<1>1. watcher' \in {watcher, Asked}
    BY DEF Rewatch
<1>2. [shown |-> session, net |-> network, answer |-> watcher] \in Reporting
    BY DEF SessionInv, AnswersSelected, OnlySelectedAccounts, Shown, Reporting
<1>3. stopped' \subseteq Reporting
    BY <1>2 DEF Rewatch
<1>4. Reporting' = Reporting
    BY DEF Reporting, Shown
<1> QED
    BY <1>1, <1>3, <1>4 DEF SessionInv, AnswersSelected

\* An answer connects with an account of this page, an error clears the screen.
LEMMA ConnectEndsInv == SessionInv /\ ConnectEnds => SessionInv'
<1> SUFFICES ASSUME SessionInv, ConnectEnds PROVE SessionInv'
    OBVIOUS
<1>1. watcher' \in selected' \cup {Asked} /\ stopped' \subseteq Reporting'
    BY RewatchInv DEF ConnectEnds, extension, SessionInv, AnswersSelected
<1>2. OnlySelectedAccounts'
  <2>1. CASE connecting.answer = None
    BY <2>1 DEF ConnectEnds, extension, Forget, SessionInv, OnlySelectedAccounts
  <2>2. CASE connecting.answer # None
    <3>1. connecting.answer \in selected
        BY <2>2 DEF ConnectEnds, SessionInv, AnswersSelected, Connecting, Shown
    <3> QED
        BY <2>2, <3>1 DEF ConnectEnds, extension, Show, Remember, OnlySelectedAccounts
  <2> QED
    BY <2>1, <2>2
<1> QED
    BY <1>1, <1>2 DEF ConnectEnds, extension, SessionInv, AnswersSelected,
                      Connecting, Checking, Shown

\* So does the check of a saved account; without an answer it changes neither.
LEMMA CheckEndsInv ==
    ASSUME NEW c \in checks, SessionInv, CheckEnds(c)
    PROVE  SessionInv'
<1>1. watcher' \in selected' \cup {Asked} /\ stopped' \subseteq Reporting'
    BY RewatchInv DEF CheckEnds, extension, SessionInv, AnswersSelected
<1>2. OnlySelectedAccounts'
  <2>1. CASE c.answer = None
    BY <2>1 DEF CheckEnds, extension, SessionInv, OnlySelectedAccounts
  <2>2. CASE c.answer # None
    <3>1. c.answer \in selected
        BY <2>2 DEF CheckEnds, SessionInv, AnswersSelected, Checking, Shown
    <3> QED
        BY <2>2, <3>1 DEF CheckEnds, AccountOf, extension, Show, Remember, OnlySelectedAccounts
  <2> QED
    BY <2>1, <2>2
<1> QED
    BY <1>1, <1>2 DEF CheckEnds, extension, SessionInv, AnswersSelected,
                      Connecting, Checking, Shown

\* Freighter answers with what is selected, whoever asked and however late.
LEMMA AnsweredInv ==
    ASSUME SessionInv,
           \/ \E c \in checks \cup ({connecting} \ {None}) : FreighterAnswers(c)
           \/ WatcherAnswered
           \/ \E w \in stopped : StoppedAnswered(w)
    PROVE  SessionInv'
<1>1. ASSUME NEW c \in checks \cup ({connecting} \ {None}), FreighterAnswers(c) PROVE SessionInv'
  <2>1. PICK a \in {freighter, None} :
            \/ /\ c \in checks
               /\ checks' = (checks \ {c}) \cup {[c EXCEPT !.answer = a]}
               /\ UNCHANGED connecting
            \/ /\ c = connecting
               /\ connecting' = [connecting EXCEPT !.answer = a]
               /\ UNCHANGED checks
    BY <1>1 DEF FreighterAnswers
  <2>2. a \in Shown
    BY DEF SessionInv, AnswersSelected, Shown
  <2>3. [c EXCEPT !.answer = a] \in Connecting /\ Connecting \subseteq Checking
    BY <1>1, <2>2 DEF Connecting, Checking, SessionInv, AnswersSelected
  <2>4. checks' \subseteq Checking /\ connecting' \in Connecting \cup {None}
    BY <2>1, <2>3 DEF SessionInv, AnswersSelected
  <2> QED
    BY <1>1, <2>4 DEF FreighterAnswers, extension, watchers, SessionInv, AnswersSelected,
                      OnlySelectedAccounts, Connecting, Checking, Reporting, Shown
<1>2. CASE WatcherAnswered
    BY <1>2 DEF WatcherAnswered, extension, SessionInv, AnswersSelected,
                OnlySelectedAccounts, Connecting, Checking, Reporting, Shown
<1>3. ASSUME NEW w \in stopped, StoppedAnswered(w) PROVE SessionInv'
  <2>1. w \in Reporting /\ stopped' \subseteq stopped \cup {[w EXCEPT !.answer = freighter]}
    BY <1>3 DEF StoppedAnswered, SessionInv, AnswersSelected
  <2>2. freighter # None => freighter \in selected
    BY DEF SessionInv, AnswersSelected, Shown
  <2>3. stopped' \subseteq Reporting
    BY <1>3, <2>1, <2>2 DEF StoppedAnswered, SessionInv, AnswersSelected, Reporting
  <2> QED
    BY <1>3, <2>3 DEF StoppedAnswered, extension, SessionInv, AnswersSelected,
                      OnlySelectedAccounts, Connecting, Checking, Reporting, Shown
<1> QED
    BY <1>1, <1>2, <1>3

\* A report, of this page's watcher or of a stopped one, turns the screen to
\* an account of this page.
LEMMA ReportsInv ==
    ASSUME SessionInv, WatcherReports \/ \E w \in stopped : StoppedReports(w)
    PROVE  SessionInv'
<1>1. CASE WatcherReports
  <2>1. watcher \in selected
    BY <1>1 DEF WatcherReports, SessionInv, AnswersSelected
  <2> QED
    BY <1>1, <2>1 DEF WatcherReports, Show, extension, SessionInv, AnswersSelected,
                      OnlySelectedAccounts, Connecting, Checking, Reporting, Shown
<1>2. ASSUME NEW w \in stopped, StoppedReports(w) PROVE SessionInv'
  <2>1. w.answer \in selected
    BY <1>2 DEF StoppedReports, SessionInv, AnswersSelected, Reporting
  <2>2. PICK others \in {stopped, stopped \ {w}} : Rewatch(others)
    BY <1>2 DEF StoppedReports
  <2>3. others \in SUBSET Reporting
    BY DEF SessionInv, AnswersSelected
  <2>4. watcher' \in selected' \cup {Asked} /\ stopped' \subseteq Reporting'
    BY <1>2, <2>2, <2>3, RewatchInv DEF StoppedReports, extension
  <2> QED
    BY <1>2, <2>1, <2>4 DEF StoppedReports, Show, extension, SessionInv, AnswersSelected,
                            OnlySelectedAccounts, Connecting, Checking, Shown
<1> QED
    BY <1>1, <1>2

\* The user acts on the screen, the network or the extension; a new page asks
\* nothing it was not going to ask.
LEMMA UserStepInv ==
    ASSUME SessionInv,
           \/ Connect
           \/ Disconnect
           \/ \E n \in Networks : SwitchNetwork(n)
           \/ \E a \in Addresses \cup {None} : SelectAccount(a)
           \/ Reload
    PROVE  SessionInv'
<1>1. CASE Connect
    BY <1>1 DEF Connect, watchers, extension, SessionInv, AnswersSelected,
                OnlySelectedAccounts, Connecting, Checking, Reporting, Shown
<1>2. CASE Disconnect
  <2>1. watcher' \in selected' \cup {Asked} /\ stopped' \subseteq Reporting'
    BY <1>2, RewatchInv DEF Disconnect, extension, SessionInv, AnswersSelected
  <2> QED
    BY <1>2, <2>1 DEF Disconnect, Forget, extension, SessionInv, AnswersSelected,
                      OnlySelectedAccounts, Connecting, Checking, Shown
<1>3. ASSUME NEW n \in Networks, SwitchNetwork(n) PROVE SessionInv'
  <2>1. watcher' \in selected' \cup {Asked} /\ stopped' \subseteq Reporting'
    BY <1>3, RewatchInv DEF SwitchNetwork, extension, SessionInv, AnswersSelected
  <2> QED
    BY <1>3, <2>1 DEF SwitchNetwork, extension, SessionInv, AnswersSelected,
                      OnlySelectedAccounts, Connecting, Checking, Shown
<1>4. ASSUME NEW a \in Addresses \cup {None}, SelectAccount(a) PROVE SessionInv'
  <2>1. selected \subseteq selected' /\ freighter' \in Shown'
    BY <1>4 DEF SelectAccount, Shown
  <2>2. Checking \subseteq Checking' /\ Connecting \subseteq Connecting' /\ Reporting \subseteq Reporting'
    BY <2>1 DEF Connecting, Checking, Reporting, Shown
  <2> QED
    BY <1>4, <2>1, <2>2 DEF SelectAccount, page, watchers, SessionInv, AnswersSelected,
                            OnlySelectedAccounts
<1>5. CASE Reload
    BY <1>5 DEF Reload, SessionInv, AnswersSelected, OnlySelectedAccounts, Connecting, Checking,
                Reporting, Shown
<1> QED
    BY <1>1, <1>2, <1>3, <1>4, <1>5

\* Everything else leaves the accounts alone, and asks Freighter at most.
LEMMA OtherStepsInv ==
    ASSUME SessionInv,
           UNCHANGED <<session, connected, connecting, network, freighter, selected, watchers>>,
           checks' \subseteq Checking
    PROVE  SessionInv'
BY DEF watchers, SessionInv, AnswersSelected, OnlySelectedAccounts, Connecting, Checking,
       Reporting, Shown

\* Every step keeps the invariant.
LEMMA WalletStepInv == SessionInv /\ [WalletNext]_walletVars => SessionInv'
<1> SUFFICES ASSUME SessionInv, [WalletNext]_walletVars PROVE SessionInv'
    OBVIOUS
<1> checks \subseteq Checking
    BY DEF SessionInv, AnswersSelected
<1>1. CASE Connect \/ Disconnect \/ Reload
    BY <1>1, UserStepInv
<1>2. CASE ConnectEnds
    BY <1>2, ConnectEndsInv
<1>3. ASSUME NEW c \in checks, ReadSaved(c) PROVE SessionInv'
  <2>1. checks' \subseteq Checking
    BY <1>3 DEF ReadSaved, Checking
  <2> QED
    BY <1>3, <2>1, OtherStepsInv DEF ReadSaved, extension
<1>4. ASSUME NEW c \in checks, CheckEnds(c) PROVE SessionInv'
    BY <1>4, CheckEndsInv
<1>5. CASE \/ \E c \in checks \cup ({connecting} \ {None}) : FreighterAnswers(c)
           \/ WatcherAnswered
           \/ \E w \in stopped : StoppedAnswered(w)
    BY <1>5, AnsweredInv
<1>6. CASE WatcherReports \/ \E w \in stopped : StoppedReports(w)
    BY <1>6, ReportsInv
<1>7. CASE \E n \in Networks : SwitchNetwork(n)
    BY <1>7, UserStepInv
<1>8. CASE RefreshBalance
    BY <1>8, OtherStepsInv DEF RefreshBalance, extension
<1>9. ASSUME NEW f \in fetches, BalanceArrives(f) PROVE SessionInv'
    BY <1>9, OtherStepsInv DEF BalanceArrives, extension
<1>10. CASE \E a \in Addresses \cup {None} : SelectAccount(a)
    BY <1>10, UserStepInv
<1>11. CASE UNCHANGED walletVars
    BY <1>11, OtherStepsInv DEF walletVars, page, extension
<1> QED
    BY <1>1, <1>2, <1>3, <1>4, <1>5, <1>6, <1>7, <1>8, <1>9, <1>10, <1>11 DEF WalletNext

\* Whatever is shown or signed for was selected in the extension while this
\* page was open, however late the answers and the watchers' reports come.
THEOREM SelectedAccountsOnly == WalletSpec => []OnlySelectedAccounts
<1>1. SessionInv => OnlySelectedAccounts
    BY DEF SessionInv
<1> QED
    BY WalletInitInv, WalletStepInv, <1>1, PTL DEF WalletSpec

-----------------------------------------------------------------------------

\* A step keeps the account and its balance, clears the balance, or puts one
\* that knows whether it came late.
LEMMA BalanceStep ==
    ASSUME BalanceOfShownAccount,
           \/ UNCHANGED <<session, balance>>
           \/ balance' = None
    PROVE  BalanceOfShownAccount'
BY DEF BalanceOfShownAccount

\* A balance that arrives is marked late when another account is shown.
LEMMA BalanceArrivesLate ==
    ASSUME NEW f, BalanceOfShownAccount, BalanceArrives(f)
    PROVE  BalanceOfShownAccount'
<1>1. CASE balance' = balance
    BY <1>1 DEF BalanceArrives, BalanceOfShownAccount
<1>2. CASE balance' = [of |-> f.of, net |-> f.net, late |-> f.of # session]
    BY <1>2 DEF BalanceArrives, BalanceOfShownAccount
<1> QED
    BY <1>1, <1>2 DEF BalanceArrives

\* Every step keeps a balance with its account.
LEMMA WalletStepBalance ==
    BalanceOfShownAccount /\ [WalletNext]_walletVars => BalanceOfShownAccount'
<1> SUFFICES ASSUME BalanceOfShownAccount, [WalletNext]_walletVars
             PROVE  BalanceOfShownAccount'
    OBVIOUS
<1>1. CASE Connect \/ RefreshBalance \/ WatcherAnswered
    BY <1>1, BalanceStep DEF Connect, RefreshBalance, WatcherAnswered
<1>2. CASE ConnectEnds \/ Disconnect \/ Reload
    BY <1>2, BalanceStep DEF ConnectEnds, Disconnect, Reload, Show, Forget
<1>3. ASSUME NEW c \in checks, ReadSaved(c) \/ CheckEnds(c) PROVE BalanceOfShownAccount'
    BY <1>3, BalanceStep DEF ReadSaved, CheckEnds, Show
<1>4. ASSUME NEW c \in checks \cup ({connecting} \ {None}), FreighterAnswers(c)
      PROVE  BalanceOfShownAccount'
    BY <1>4, BalanceStep DEF FreighterAnswers
<1>5. CASE WatcherReports
    BY <1>5, BalanceStep DEF WatcherReports, Show
<1>6. ASSUME NEW w \in stopped, StoppedAnswered(w) \/ StoppedReports(w)
      PROVE  BalanceOfShownAccount'
    BY <1>6, BalanceStep DEF StoppedAnswered, StoppedReports, Show
<1>7. ASSUME NEW n \in Networks, SwitchNetwork(n) PROVE BalanceOfShownAccount'
    BY <1>7, BalanceStep DEF SwitchNetwork
<1>8. ASSUME NEW f \in fetches, BalanceArrives(f) PROVE BalanceOfShownAccount'
    BY <1>8, BalanceArrivesLate
<1>9. ASSUME NEW a \in Addresses \cup {None}, SelectAccount(a) PROVE BalanceOfShownAccount'
    BY <1>9, BalanceStep DEF SelectAccount, page
<1>10. CASE UNCHANGED walletVars
    BY <1>10, BalanceStep DEF walletVars, page
<1> QED
    BY <1>1, <1>2, <1>3, <1>4, <1>5, <1>6, <1>7, <1>8, <1>9, <1>10 DEF WalletNext

\* A balance beside an account that is not its own came in after the account
\* had changed; no path to another account keeps the balance of the last.
THEOREM BalanceIsShownAccounts == WalletSpec => []BalanceOfShownAccount
<1>1. WalletInit => BalanceOfShownAccount
    BY DEF WalletInit, FreshPage, BalanceOfShownAccount
<1> QED
    BY <1>1, WalletStepBalance, PTL DEF WalletSpec

-----------------------------------------------------------------------------
(*****************************************************************************)
(* The upload login                                                          *)
(*****************************************************************************)

Drawn == 1..drawn

\* Whoever holds a challenge holds one that was drawn, and a challenge in the
\* store is its wallet's: nobody else's login signs it.
StoreIsDrawn ==
    /\ drawn \in Nat
    /\ redeemed \subseteq Drawn
    /\ \A a \in Accounts : stored[a].value \in Drawn \cup {0}

Holds(wallet, c) ==
    /\ c \in Drawn
    /\ wallet \in Accounts
    /\ \A a \in Accounts : stored[a].value = c => a = wallet

SignersOwn ==
    \A t \in Tabs : tab[t].step = "sign" => Holds(tab[t].wallet, tab[t].challenge)

PostsOwn == \A p \in posts : Holds(p.wallet, p.signed)

Shapes == tab = [t \in Tabs |-> tab[t]] /\ stored = [a \in Accounts |-> stored[a]]

LoginInv == Shapes /\ StoreIsDrawn /\ SignersOwn /\ PostsOwn /\ OneTimeUse

-----------------------------------------------------------------------------

\* Nothing is drawn, stored or bought at the start.
LEMMA LoginInitInv == LoginInit => LoginInv
BY DEF LoginInit, LoginInv, Shapes, StoreIsDrawn, SignersOwn, PostsOwn, OneTimeUse, Drawn,
       Nothing, NotUploading

\* A step that touches neither store nor challenges keeps the invariant when
\* whoever signs or posts after it did so before.
LEMMA QuietStep ==
    ASSUME LoginInv, UNCHANGED <<stored, drawn, redeemed>>, Shapes', posts' \subseteq posts,
           \A t \in Tabs : tab'[t].step = "sign" => tab'[t] = tab[t]
    PROVE  LoginInv'
BY DEF LoginInv, StoreIsDrawn, Holds, SignersOwn, PostsOwn, OneTimeUse, Drawn, Shapes

\* A tab that leaves the state it was in, and not to sign.
LEMMA TabStep ==
    ASSUME LoginInv, NEW t \in Tabs, NEW s, s.step # "sign", tab' = [tab EXCEPT ![t] = s],
           UNCHANGED <<stored, drawn, redeemed, posts>>
    PROVE  LoginInv'
<1>1. Shapes'
    BY DEF LoginInv, Shapes
<1>2. \A u \in Tabs : tab'[u].step = "sign" => tab'[u] = tab[u]
    BY DEF LoginInv, Shapes
<1> QED
    BY <1>1, <1>2, QuietStep

\* A deletion keeps what is said of the other challenges.
LEMMA DeleteInv ==
    ASSUME LoginInv, NEW p \in posts, DeleteChallenge(p), UNCHANGED <<drawn, redeemed, tab>>,
           \A q \in posts' : \E r \in posts : q.wallet = r.wallet /\ q.signed = r.signed
    PROVE  LoginInv'
<1>1. \A a \in Accounts : stored'[a].value \in {stored[a].value, 0}
    BY DEF DeleteChallenge, LoginInv, Shapes, Nothing
<1>2. Shapes'
    BY DEF DeleteChallenge, LoginInv, Shapes
<1>3. StoreIsDrawn' /\ OneTimeUse'
    BY <1>1 DEF LoginInv, StoreIsDrawn, OneTimeUse, Drawn
<1>4. \A w, c : Holds(w, c) => Holds(w, c)'
    <2> SUFFICES ASSUME NEW w, NEW c, Holds(w, c) PROVE Holds(w, c)'
        OBVIOUS
    <2>1. c # 0
        BY DEF Holds, Drawn, LoginInv, StoreIsDrawn
    <2> QED
        BY <1>1, <2>1 DEF Holds, Drawn
<1>5. SignersOwn' /\ PostsOwn'
    BY <1>4 DEF LoginInv, SignersOwn, PostsOwn
<1> QED
    BY <1>2, <1>3, <1>5 DEF LoginInv

\* A challenge is put for the wallet that gets it, and nobody else holds it yet.
LEMMA GetChallengeInv ==
    ASSUME LoginInv, NEW t \in Tabs, NEW a \in Accounts, GetChallenge(t, a)
    PROVE  LoginInv'
<1>1. /\ drawn' = drawn + 1
      /\ drawn \in Nat
      /\ Shapes'
    BY DEF GetChallenge, PutChallenge, LoginInv, Shapes, StoreIsDrawn
<1>2. \A b \in Accounts : stored'[b].value \in {stored[b].value} \cup
                                 (IF b = a THEN {drawn + 1} ELSE {})
    BY DEF GetChallenge, PutChallenge, LoginInv, Shapes
<1>3. StoreIsDrawn' /\ OneTimeUse'
    BY <1>1, <1>2 DEF GetChallenge, LoginInv, StoreIsDrawn, OneTimeUse, Drawn
<1>4. \A w, c : Holds(w, c) => Holds(w, c)'
    BY <1>1, <1>2 DEF Holds, Drawn
<1>5. PostsOwn'
    BY <1>4 DEF GetChallenge, LoginInv, PostsOwn
<1>6. SignersOwn'
    <2>1. CASE tab' = tab
        BY <2>1, <1>4 DEF LoginInv, SignersOwn
    <2>2. CASE tab' = [tab EXCEPT ![t] = [step |-> "sign", wallet |-> a,
                                          challenge |-> drawn + 1]]
        <3>1. PICK c : c = drawn + 1
            OBVIOUS
        <3>2. Holds(a, c)'
            BY <1>1, <1>2, <3>1 DEF Holds, Drawn, LoginInv, StoreIsDrawn
        <3>3. ASSUME NEW u \in Tabs, tab'[u].step = "sign"
              PROVE  Holds(tab[u].wallet, tab[u].challenge)'
            <4>1. CASE u = t
                BY <4>1, <2>2, <3>1, <3>2 DEF LoginInv, Shapes
            <4>2. CASE u # t
                <5>1. tab'[u] = tab[u]
                    BY <4>2, <2>2 DEF LoginInv, Shapes
                <5>2. Holds(tab[u].wallet, tab[u].challenge)
                    BY <5>1, <3>3 DEF LoginInv, SignersOwn
                <5>3. PICK w, d : w = tab[u].wallet /\ d = tab[u].challenge
                    OBVIOUS
                <5>4. Holds(w, d)'
                    BY <5>2, <5>3, <1>4
                <5> QED
                    BY <5>1, <5>3, <5>4
            <4> QED
                BY <4>1, <4>2
        <3> QED
            BY <3>3 DEF SignersOwn
    <2> QED
        BY <2>1, <2>2 DEF GetChallenge
<1> QED
    BY <1>1, <1>3, <1>5, <1>6 DEF LoginInv

\* The post carries the challenge of the tab that signed it.
LEMMA SignAndPostInv ==
    ASSUME LoginInv, NEW t \in Tabs, SignAndPost(t)
    PROVE  LoginInv'
<1>1. Shapes' /\ StoreIsDrawn' /\ OneTimeUse'
    BY DEF SignAndPost, LoginInv, Shapes, StoreIsDrawn, OneTimeUse, Drawn
<1>2. SignersOwn'
    BY DEF SignAndPost, LoginInv, Shapes, SignersOwn, Holds, Drawn
<1>3. Holds(tab[t].wallet, tab[t].challenge)
    BY DEF SignAndPost, LoginInv, SignersOwn
<1>4. PostsOwn'
    BY <1>3 DEF SignAndPost, Post, LoginInv, PostsOwn, Holds, Drawn
<1> QED
    BY <1>1, <1>2, <1>4 DEF LoginInv

\* A refused or verified post is the post it was.
LEMMA VerifyChallengeInv ==
    ASSUME LoginInv, NEW p \in posts, VerifyChallenge(p)
    PROVE  LoginInv'
<1>1. \A q \in posts' : \E r \in posts : q.wallet = r.wallet /\ q.signed = r.signed
    BY DEF VerifyChallenge, Refuse, Post
<1>2. PostsOwn'
    BY <1>1 DEF VerifyChallenge, LoginInv, PostsOwn, Holds, Drawn
<1> QED
    BY <1>2 DEF VerifyChallenge, LoginInv, Shapes, StoreIsDrawn, SignersOwn, Holds, OneTimeUse,
                Drawn

\* The late deletion of a refusal may remove another challenge of the wallet.
LEMMA DeleteAfterRefusalInv ==
    ASSUME LoginInv, NEW p \in posts, DeleteAfterRefusal(p)
    PROVE  LoginInv'
<1>1. CASE DeleteChallenge(p)
    BY <1>1, DeleteInv DEF DeleteAfterRefusal
<1>2. CASE UNCHANGED <<stored, displaced>>
    BY <1>2, QuietStep DEF DeleteAfterRefusal, LoginInv, Shapes
<1> QED
    BY <1>1, <1>2 DEF DeleteAfterRefusal

\* The challenge that buys a token was deleted first, and no other wallet's
\* challenge is the same.
LEMMA IssueTokenInv ==
    ASSUME LoginInv, NEW p \in posts, IssueToken(p)
    PROVE  LoginInv'
<1>1. CASE DeleteChallenge(p) /\ redeemed' = redeemed \cup {p.signed}
    <2>1. \A a \in Accounts : stored'[a].value = IF a = p.wallet THEN 0 ELSE stored[a].value
        BY <1>1 DEF DeleteChallenge, LoginInv, Shapes, Nothing
    <2>2. Holds(p.wallet, p.signed)
        BY DEF LoginInv, PostsOwn
    <2>3. StoreIsDrawn'
        BY <1>1, <2>1, <2>2 DEF IssueToken, LoginInv, StoreIsDrawn, Holds, Drawn
    <2>4. OneTimeUse'
        <3> SUFFICES ASSUME NEW a \in Accounts PROVE stored'[a].value \notin redeemed'
            BY DEF OneTimeUse
        <3>1. 0 \notin redeemed /\ p.signed # 0
            BY <2>2 DEF LoginInv, StoreIsDrawn, Holds, Drawn
        <3>2. CASE a = p.wallet
            BY <3>1, <3>2, <2>1, <1>1
        <3>3. CASE a # p.wallet
            <4>1. stored'[a].value = stored[a].value /\ stored[a].value # p.signed
                BY <3>3, <2>1, <2>2 DEF Holds
            <4> QED
                BY <4>1, <1>1 DEF LoginInv, OneTimeUse
        <3> QED
            BY <3>2, <3>3
    <2>5. \A w, c : Holds(w, c) => Holds(w, c)'
        <3> SUFFICES ASSUME NEW w, NEW c, Holds(w, c) PROVE Holds(w, c)'
            OBVIOUS
        <3>1. c # 0 /\ drawn' = drawn
            BY DEF Holds, Drawn, LoginInv, StoreIsDrawn, IssueToken
        <3> QED
            BY <2>1, <3>1 DEF Holds, Drawn
    <2>6. SignersOwn' /\ PostsOwn'
        BY <2>5 DEF IssueToken, LoginInv, SignersOwn, PostsOwn
    <2>7. Shapes'
        BY <1>1 DEF DeleteChallenge, IssueToken, LoginInv, Shapes
    <2> QED
        BY <2>3, <2>4, <2>6, <2>7 DEF LoginInv
<1>2. CASE UNCHANGED redeemed /\ DeleteChallenge(p)
    BY <1>2, DeleteInv DEF IssueToken
<1>3. CASE UNCHANGED redeemed /\ UNCHANGED <<stored, displaced>>
    BY <1>3, QuietStep DEF IssueToken, LoginInv, Shapes
<1> QED
    BY <1>1, <1>2, <1>3 DEF IssueToken, Redeem

\* What the tab that waits for an answer turns to.
LEMMA AnswerMovesWaiter ==
    ASSUME NEW a \in answers, AnswerArrives(a), tab' # tab
    PROVE  \E t \in Tabs :
             \/ tab' = [tab EXCEPT ![t] = [step |-> "upload", token |-> Received(a),
                                           taken |-> now]]
             \/ tab' = [tab EXCEPT ![t] = NotUploading]
<1> DEFINE waiting == CHOOSE u \in Tabs : tab[u].step = "wait" /\ tab[u].challenge = a.to
<1>1. \E u \in Tabs : tab[u].step = "wait" /\ tab[u].challenge = a.to
    BY DEF AnswerArrives
<1>2. waiting \in Tabs
    BY <1>1
<1>3. \/ tab' = [tab EXCEPT ![waiting] = [step |-> "upload", token |-> Received(a),
                                          taken |-> now]]
      \/ tab' = [tab EXCEPT ![waiting] = NotUploading]
    BY <1>1 DEF AnswerArrives
<1> HIDE DEF waiting
<1> QED
    BY <1>2, <1>3

\* An answer moves the tab that waits for it, or nothing.
LEMMA AnswerArrivesInv ==
    ASSUME LoginInv, NEW a \in answers, AnswerArrives(a)
    PROVE  LoginInv'
<1>1. CASE tab' = tab
    BY <1>1, QuietStep DEF AnswerArrives, LoginInv, Shapes
<1>2. CASE tab' # tab
    BY <1>2, AnswerMovesWaiter, TabStep DEF AnswerArrives, NotUploading
<1> QED
    BY <1>1, <1>2

\* An upload ends or goes on without the store.
LEMMA UploadArrivesInv ==
    ASSUME LoginInv, NEW t \in Tabs, UploadArrives(t)
    PROVE  LoginInv'
<1>1. CASE tab' = tab
    BY <1>1, QuietStep DEF UploadArrives, LoginInv, Shapes
<1>2. CASE tab' # tab
    <2>1. \/ tab' = [tab EXCEPT ![t] = [step |-> "refused", token |-> tab[t].token,
                                       delay |-> now - tab[t].taken]]
          \/ tab' = [tab EXCEPT ![t] = NotUploading]
        BY <1>2 DEF UploadArrives
    <2> QED
        BY <2>1, TabStep DEF UploadArrives, NotUploading
<1> QED
    BY <1>1, <1>2

\* Every step keeps the invariant.
LEMMA LoginStepInv == LoginInv /\ [LoginNext]_loginVars => LoginInv'
<1> SUFFICES ASSUME LoginInv, [LoginNext]_loginVars PROVE LoginInv'
    OBVIOUS
<1>1. CASE Tick \/ UNCHANGED loginVars
    BY <1>1, QuietStep DEF Tick, loginVars, LoginInv, Shapes
<1>2. ASSUME NEW t \in Tabs, UseCached(t) \/ LeaveUpload(t) PROVE LoginInv'
    BY <1>2, TabStep DEF UseCached, LeaveUpload, NotUploading
<1>3. ASSUME NEW t \in Tabs, NEW a \in Accounts, GetChallenge(t, a) PROVE LoginInv'
    BY <1>3, GetChallengeInv
<1>4. ASSUME NEW t \in Tabs, SignAndPost(t) \/ UploadArrives(t) PROVE LoginInv'
    BY <1>4, SignAndPostInv, UploadArrivesInv
<1>5. ASSUME NEW p \in posts, VerifyChallenge(p) \/ DeleteAfterRefusal(p) \/ IssueToken(p)
      PROVE  LoginInv'
    BY <1>5, VerifyChallengeInv, DeleteAfterRefusalInv, IssueTokenInv
<1>6. ASSUME NEW a \in answers, AnswerArrives(a) PROVE LoginInv'
    BY <1>6, AnswerArrivesInv
<1> QED
    BY <1>1, <1>2, <1>3, <1>4, <1>5, <1>6 DEF LoginNext

\* A challenge that bought a token is not in the store, for any number of
\* wallets and tabs and whatever deletions fail.
THEOREM ChallengesBuyOnce == LoginSpec => []OneTimeUse
<1>1. LoginInv => OneTimeUse
    BY DEF LoginInv
<1> QED
    BY LoginInitInv, LoginStepInv, <1>1, PTL DEF LoginSpec

(***************************************************************************)
(* Why a login is refused.  A challenge is in one pair of hands: the tab   *)
(* that signs it or the one post that carries it.  Until that post is      *)
(* verified, the challenge is in its wallet's place of the store or was    *)
(* displaced from it, because only the holder's own post removes it        *)
(* without displacing it.                                                  *)
(***************************************************************************)
OneHolder ==
    /\ \A t, u \in Tabs :
         /\ tab[t].step = "sign" /\ tab[u].step = "sign"
         /\ tab[t].challenge = tab[u].challenge
         => t = u
    /\ \A t \in Tabs, p \in posts : tab[t].step = "sign" => tab[t].challenge # p.signed
    /\ \A p, q \in posts : p.signed = q.signed => p = q

Traced(wallet, c) == stored[wallet].value = c \/ c \in displaced

HoldersTraced ==
    /\ \A t \in Tabs : tab[t].step = "sign" => Traced(tab[t].wallet, tab[t].challenge)
    /\ \A p \in posts : p.step = "arrived" => Traced(p.wallet, p.signed)

HandsInv == OneHolder /\ HoldersTraced /\ RefusalsExplained

Explained(a) == a.status \in {400, 401} => a.to \in displaced \/ a.late

\* Nothing is held at the start.
LEMMA LoginInitHands == LoginInit => HandsInv
BY DEF LoginInit, HandsInv, OneHolder, HoldersTraced, RefusalsExplained, NotUploading

\* A step that draws, posts and deletes nothing.
LEMMA QuietHands ==
    ASSUME HandsInv, UNCHANGED <<stored, displaced>>, posts' \subseteq posts,
           \A t \in Tabs : tab'[t].step = "sign" => tab'[t] = tab[t],
           \A a \in answers' : a \in answers \/ Explained(a)
    PROVE  HandsInv'
<1>1. OneHolder'
    BY DEF HandsInv, OneHolder
<1>2. HoldersTraced'
    BY DEF HandsInv, HoldersTraced, Traced
<1>3. RefusalsExplained'
    BY DEF HandsInv, RefusalsExplained, Explained
<1> QED
    BY <1>1, <1>2, <1>3 DEF HandsInv

\* A tab that leaves the state it was in, and not to sign.
LEMMA TabHands ==
    ASSUME HandsInv, Shapes, NEW t \in Tabs, NEW s, s.step # "sign",
           tab' = [tab EXCEPT ![t] = s],
           UNCHANGED <<stored, displaced, posts>>, answers' \subseteq answers
    PROVE  HandsInv'
<1>1. \A u \in Tabs : tab'[u].step = "sign" => tab'[u] = tab[u]
    BY DEF Shapes
<1> QED
    BY <1>1, QuietHands

\* A deletion with the post that did it: what it removes is that post's own or
\* is displaced.
LEMMA DeleteHands ==
    ASSUME LoginInv, HandsInv, NEW p \in posts, DeleteChallenge(p), posts' = posts \ {p},
           UNCHANGED tab, \A a \in answers' : a \in answers \/ Explained(a)
    PROVE  HandsInv'
<1>1. OneHolder'
    BY DEF HandsInv, OneHolder
<1>2. RefusalsExplained'
    BY DEF DeleteChallenge, HandsInv, RefusalsExplained, Explained
<1>3. ASSUME NEW w, NEW c, Holds(w, c), c # p.signed, Traced(w, c) PROVE Traced(w, c)'
    <2>1. c # 0
        BY <1>3 DEF Holds, Drawn, LoginInv, StoreIsDrawn
    <2>2. w \in Accounts /\ displaced \subseteq displaced'
        BY <1>3 DEF Holds, DeleteChallenge
    <2>3. CASE w = p.wallet /\ stored[w].value = c
        BY <1>3, <2>1, <2>3 DEF DeleteChallenge, Traced
    <2>4. CASE w # p.wallet
        BY <1>3, <2>2, <2>4 DEF DeleteChallenge, Traced, LoginInv, Shapes
    <2> QED
        BY <1>3, <2>2, <2>3, <2>4 DEF Traced
<1>4. HoldersTraced'
    <2>1. ASSUME NEW t \in Tabs, tab'[t].step = "sign"
          PROVE  Traced(tab[t].wallet, tab[t].challenge)'
        <3>1. Holds(tab[t].wallet, tab[t].challenge) /\ tab[t].challenge # p.signed
              /\ Traced(tab[t].wallet, tab[t].challenge)
            BY <2>1 DEF LoginInv, SignersOwn, HandsInv, OneHolder, HoldersTraced
        <3> QED
            BY <3>1, <1>3 DEF Traced
    <2>2. ASSUME NEW q \in posts', q.step = "arrived" PROVE Traced(q.wallet, q.signed)'
        <3>1. Holds(q.wallet, q.signed) /\ q.signed # p.signed /\ Traced(q.wallet, q.signed)
            BY <2>2 DEF LoginInv, PostsOwn, HandsInv, OneHolder, HoldersTraced
        <3> QED
            BY <3>1, <1>3
    <2> QED
        BY <2>1, <2>2 DEF HoldersTraced
<1> QED
    BY <1>1, <1>2, <1>4 DEF HandsInv

\* Nobody holds the new challenge; the one it replaces is displaced.
LEMMA GetChallengeHands ==
    ASSUME LoginInv, HandsInv, NEW t \in Tabs, NEW a \in Accounts, GetChallenge(t, a)
    PROVE  HandsInv'
<1>1. CASE UNCHANGED <<stored, displaced, tab>>
    BY <1>1, QuietHands DEF GetChallenge
<1>2. CASE PutChallenge(a, drawn + 1)
    <2> DEFINE c == drawn + 1
    <2>1. c \notin Drawn
        BY DEF Drawn, LoginInv, StoreIsDrawn
    <2>2. stored'[a].value = c
        BY <1>2 DEF PutChallenge, LoginInv, Shapes
    <2> HIDE DEF c
    <2>3. ASSUME NEW w, NEW d, Holds(w, d), Traced(w, d) PROVE Traced(w, d)'
        <3>1. d # 0 /\ w \in Accounts
            BY <2>3 DEF Holds, Drawn, LoginInv, StoreIsDrawn
        <3>2. CASE w = a
            BY <1>2, <2>3, <3>1, <3>2 DEF PutChallenge, Traced
        <3>3. CASE w # a
            BY <1>2, <2>3, <3>1, <3>3 DEF PutChallenge, Traced, LoginInv, Shapes
        <3> QED
            BY <3>2, <3>3
    <2>4. \A u \in Tabs : tab[u].step = "sign" => tab[u].challenge # c
        BY <2>1 DEF LoginInv, SignersOwn, Holds
    <2>5. \A p \in posts : p.signed # c
        BY <2>1 DEF LoginInv, PostsOwn, Holds
    <2>6. \A u \in Tabs : tab'[u] = tab[u] \/ (u = t /\ tab'[u].challenge = c /\ tab'[u].wallet = a)
        BY DEF GetChallenge, LoginInv, Shapes, c
    <2>7. OneHolder'
        BY <2>4, <2>5, <2>6 DEF GetChallenge, HandsInv, OneHolder
    <2>8. HoldersTraced'
        <3>1. ASSUME NEW u \in Tabs, tab'[u].step = "sign"
              PROVE  Traced(tab[u].wallet, tab[u].challenge)'
            <4>1. CASE tab'[u] = tab[u]
                <5>1. Holds(tab[u].wallet, tab[u].challenge)
                      /\ Traced(tab[u].wallet, tab[u].challenge)
                    BY <3>1, <4>1 DEF LoginInv, SignersOwn, HandsInv, HoldersTraced
                <5> QED
                    BY <4>1, <5>1, <2>3 DEF Traced
            <4>2. CASE tab'[u].challenge = c /\ tab'[u].wallet = a
                BY <4>2, <2>2 DEF Traced
            <4> QED
                BY <2>6, <4>1, <4>2
        <3>2. ASSUME NEW q \in posts', q.step = "arrived" PROVE Traced(q.wallet, q.signed)'
            BY <3>2, <2>3 DEF GetChallenge, LoginInv, PostsOwn, HandsInv, HoldersTraced
        <3> QED
            BY <3>1, <3>2 DEF HoldersTraced
    <2>9. RefusalsExplained'
        BY <1>2 DEF PutChallenge, GetChallenge, HandsInv, RefusalsExplained
    <2> QED
        BY <2>7, <2>8, <2>9 DEF HandsInv
<1> QED
    BY <1>1, <1>2 DEF GetChallenge

\* The challenge passes from the tab to the post.
LEMMA SignAndPostHands ==
    ASSUME LoginInv, HandsInv, NEW t \in Tabs, SignAndPost(t)
    PROVE  HandsInv'
<1> DEFINE new == Post(tab[t].wallet, tab[t].challenge, "arrived")
<1>1. posts' = posts \cup {new} /\ new.signed = tab[t].challenge /\ new.wallet = tab[t].wallet
    BY DEF SignAndPost, Post
<1>2. tab[t].step = "sign" /\ UNCHANGED <<stored, displaced, answers>>
    BY DEF SignAndPost
<1>3. \A u \in Tabs : tab'[u].step = "sign" => u # t /\ tab'[u] = tab[u]
    BY DEF SignAndPost, LoginInv, Shapes
<1> HIDE DEF new
<1>4. OneHolder'
    BY <1>1, <1>2, <1>3 DEF HandsInv, OneHolder
<1>5. Traced(new.wallet, new.signed)
    BY <1>1, <1>2 DEF HandsInv, HoldersTraced
<1>6. HoldersTraced'
    BY <1>1, <1>2, <1>3, <1>5 DEF HandsInv, HoldersTraced, Traced
<1>7. RefusalsExplained'
    BY <1>2 DEF HandsInv, RefusalsExplained
<1> QED
    BY <1>4, <1>6, <1>7 DEF HandsInv

\* A post that finds no challenge, or another one, was displaced or is late.
LEMMA VerifyChallengeHands ==
    ASSUME LoginInv, HandsInv, NEW p \in posts, VerifyChallenge(p)
    PROVE  HandsInv'
<1>1. UNCHANGED <<stored, tab, displaced>> /\ Traced(p.wallet, p.signed)
    BY DEF VerifyChallenge, HandsInv, HoldersTraced
<1>2. ASSUME NEW status, answers' = answers \cup {Answer(p, status)},
             status \in {400, 401} => Explained(Answer(p, status))
      PROVE  \A a \in answers' : a \in answers \/ Explained(a)
    BY <1>2 DEF Answer, Explained
<1>3. CASE \E status \in {429, 500} : Refuse(p, status)
    BY <1>1, <1>2, <1>3, QuietHands DEF Refuse
<1>4. CASE Pending(p.wallet) = 0 /\ Refuse(p, 400)
    <2>1. Explained(Answer(p, 400))
        BY <1>1, <1>4 DEF Explained, Answer, Traced
    <2> QED
        BY <1>1, <1>2, <1>4, <2>1, QuietHands DEF Refuse
<1>5. ASSUME NEW step \in {"verified", "refused"},
             posts' = (posts \ {p}) \cup {Post(p.wallet, p.signed, step)},
             \A a \in answers' : a \in answers \/ Explained(a)
      PROVE  HandsInv'
    <2>1. OneHolder'
        BY <1>1, <1>5 DEF HandsInv, OneHolder, Post
    <2>2. HoldersTraced'
        BY <1>1, <1>5 DEF HandsInv, HoldersTraced, Traced, Post
    <2>3. RefusalsExplained'
        BY <1>1, <1>5 DEF HandsInv, RefusalsExplained, Explained
    <2> QED
        BY <2>1, <2>2, <2>3 DEF HandsInv
<1>6. CASE posts' = (posts \ {p}) \cup {Post(p.wallet, p.signed, "verified")}
           /\ UNCHANGED answers
    BY <1>5, <1>6
<1>7. CASE /\ Pending(p.wallet) \notin {0, p.signed}
           /\ answers' = answers \cup {Answer(p, 401)}
           /\ posts' = (posts \ {p}) \cup {Post(p.wallet, p.signed, "refused")}
    <2>1. p.signed \in displaced
        BY <1>1, <1>7 DEF Pending, Traced
    <2>2. Explained(Answer(p, 401))
        BY <2>1 DEF Explained, Answer
    <2> QED
        BY <1>2, <1>5, <1>7, <2>2
<1> QED
    BY <1>3, <1>4, <1>6, <1>7 DEF VerifyChallenge, ReadChallenge

\* Deletions, and the answers of a redemption, which refuse nobody with 400 or
\* 401.
LEMMA DeletionHands ==
    ASSUME LoginInv, HandsInv, NEW p \in posts, DeleteAfterRefusal(p) \/ IssueToken(p)
    PROVE  HandsInv'
<1>1. posts' = posts \ {p} /\ UNCHANGED tab
      /\ \A a \in answers' : a \in answers \/ Explained(a)
    BY DEF DeleteAfterRefusal, IssueToken, Redeem, Answer, Explained
<1>2. CASE DeleteChallenge(p)
    BY <1>1, <1>2, DeleteHands
<1>3. CASE UNCHANGED <<stored, displaced>>
    BY <1>1, <1>3, QuietHands
<1> QED
    BY <1>2, <1>3 DEF DeleteAfterRefusal, IssueToken, Redeem

\* Every step keeps challenges in one pair of hands and traced.
LEMMA LoginStepHands == LoginInv /\ HandsInv /\ [LoginNext]_loginVars => HandsInv'
<1> SUFFICES ASSUME LoginInv, HandsInv, [LoginNext]_loginVars PROVE HandsInv'
    OBVIOUS
<1>1. CASE Tick \/ UNCHANGED loginVars
    BY <1>1, QuietHands DEF Tick, loginVars
<1>2. ASSUME NEW t \in Tabs, UseCached(t) \/ LeaveUpload(t) PROVE HandsInv'
    BY <1>2, TabHands DEF UseCached, LeaveUpload, NotUploading, LoginInv
<1>3. ASSUME NEW t \in Tabs, NEW a \in Accounts, GetChallenge(t, a) PROVE HandsInv'
    BY <1>3, GetChallengeHands
<1>4. ASSUME NEW t \in Tabs, SignAndPost(t) PROVE HandsInv'
    BY <1>4, SignAndPostHands
<1>5. ASSUME NEW t \in Tabs, UploadArrives(t) PROVE HandsInv'
    <2>1. CASE tab' = tab
        BY <1>5, <2>1, QuietHands DEF UploadArrives
    <2>2. CASE tab' # tab
        <3>1. \/ tab' = [tab EXCEPT ![t] = [step |-> "refused", token |-> tab[t].token,
                                           delay |-> now - tab[t].taken]]
              \/ tab' = [tab EXCEPT ![t] = NotUploading]
            BY <1>5, <2>2 DEF UploadArrives
        <3> QED
            BY <1>5, <3>1, TabHands DEF UploadArrives, NotUploading, LoginInv
    <2> QED
        BY <2>1, <2>2
<1>6. ASSUME NEW p \in posts, VerifyChallenge(p) PROVE HandsInv'
    BY <1>6, VerifyChallengeHands
<1>7. ASSUME NEW p \in posts, DeleteAfterRefusal(p) \/ IssueToken(p) PROVE HandsInv'
    BY <1>7, DeletionHands
<1>8. ASSUME NEW a \in answers, AnswerArrives(a) PROVE HandsInv'
    <2>1. UNCHANGED <<stored, displaced, posts>> /\ answers' \subseteq answers
        BY <1>8 DEF AnswerArrives
    <2>2. CASE tab' = tab
        BY <2>1, <2>2, QuietHands
    <2>3. CASE tab' # tab
        BY <1>8, <2>1, <2>3, AnswerMovesWaiter, TabHands DEF NotUploading, LoginInv
    <2> QED
        BY <2>2, <2>3
<1> QED
    BY <1>1, <1>2, <1>3, <1>4, <1>5, <1>6, <1>7, <1>8 DEF LoginNext

\* A login that signs correctly is refused its challenge only when another
\* login of the wallet displaced it or it came late, for any number of tabs and
\* whatever the store fails to do.
THEOREM RefusalsAreExplained == LoginSpec => []RefusalsExplained
<1>1. HandsInv => RefusalsExplained
    BY DEF HandsInv
<1> QED
    BY LoginInitInv, LoginStepInv, LoginInitHands, LoginStepHands, <1>1, PTL DEF LoginSpec

-----------------------------------------------------------------------------
(***************************************************************************)
(* Why a token is refused.  A token is handed out while it is kept, which  *)
(* is CacheLife from the moment it was received.                           *)
(***************************************************************************)
KeptToken(token) ==
    /\ token.issued \in Nat
    /\ token.received \in Nat
    /\ token.till = token.received + CacheLife

Times ==
    /\ now \in Nat
    /\ \A a \in answers : a.issued \in Nat
    /\ kept = NoToken \/ KeptToken(kept)

TakenWhileKept ==
    \A t \in Tabs : tab[t].step = "upload" =>
        KeptToken(tab[t].token) /\ tab[t].taken \in 0..tab[t].token.till

TimesInv == Times /\ TakenWhileKept /\ CachedTokenAccepted

\* No token at the start.
LEMMA LoginInitTimes == LoginInit => TimesInv
BY DEF LoginInit, TimesInv, Times, TakenWhileKept, CachedTokenAccepted, NotUploading

\* A step after which no tab uploads or is refused that did not before.
LEMMA QuietTimes ==
    ASSUME TimesInv, Times',
           \A t \in Tabs : tab'[t].step \in {"upload", "refused"} => tab'[t] = tab[t]
    PROVE  TimesInv'
<1>1. TakenWhileKept'
    BY DEF TimesInv, TakenWhileKept, KeptToken
<1>2. CachedTokenAccepted'
    BY DEF TimesInv, CachedTokenAccepted
<1> QED
    BY <1>1, <1>2 DEF TimesInv

\* A tab gets a token that is still kept.
LEMMA UploadStarts ==
    ASSUME TimesInv, Shapes, Times', NEW t \in Tabs, NEW token, KeptToken(token),
           now <= token.till,
           tab' = [tab EXCEPT ![t] = [step |-> "upload", token |-> token, taken |-> now]]
    PROVE  TimesInv'
<1>1. \A u \in Tabs : tab'[u] = IF u = t
                                THEN [step |-> "upload", token |-> token, taken |-> now]
                                ELSE tab[u]
    BY DEF Shapes
<1>2. now \in 0..token.till
    BY LivesAssumption DEF TimesInv, Times, KeptToken
<1>3. TakenWhileKept'
    BY <1>1, <1>2 DEF TimesInv, TakenWhileKept, KeptToken
<1>4. CachedTokenAccepted'
    BY <1>1 DEF TimesInv, CachedTokenAccepted
<1> QED
    BY <1>3, <1>4 DEF TimesInv

\* A token that was taken while it was kept and is expired now was delayed.
LEMMA RefusedWasDelayed ==
    ASSUME TimesInv, Shapes, NEW t \in Tabs, tab[t].step = "upload", Expired(tab[t].token),
           tab' = [tab EXCEPT ![t] = [step |-> "refused", token |-> tab[t].token,
                                      delay |-> now - tab[t].taken]],
           UNCHANGED <<now, answers, kept>>
    PROVE  TimesInv'
<1> DEFINE token == tab[t].token
           taken == tab[t].taken
<1>1. KeptToken(token) /\ taken \in 0..token.till
    BY DEF TimesInv, TakenWhileKept
<1>2. now > token.issued + TokenLife /\ now \in Nat
    BY DEF Expired, TimesInv, Times
<1>3. \A u \in Tabs : tab'[u] = IF u = t
                                THEN [step |-> "refused", token |-> token, delay |-> now - taken]
                                ELSE tab[u]
    BY DEF Shapes
<1> HIDE DEF token, taken
<1>4. (token.received - token.issued) + (now - taken) > TokenLife - CacheLife
    BY <1>1, <1>2, LivesAssumption DEF KeptToken
<1>5. CachedTokenAccepted'
    BY <1>3, <1>4 DEF TimesInv, CachedTokenAccepted
<1>6. Times' /\ TakenWhileKept'
    BY <1>3 DEF TimesInv, Times, TakenWhileKept, KeptToken
<1> QED
    BY <1>5, <1>6 DEF TimesInv

\* Every step keeps the times.
LEMMA LoginStepTimes == Shapes /\ TimesInv /\ [LoginNext]_loginVars => TimesInv'
<1> SUFFICES ASSUME Shapes, TimesInv, [LoginNext]_loginVars PROVE TimesInv'
    OBVIOUS
<1>1. CASE Tick \/ UNCHANGED loginVars
    BY <1>1, QuietTimes DEF Tick, loginVars, TimesInv, Times, KeptToken
<1>2. ASSUME NEW t \in Tabs, UseCached(t) PROVE TimesInv'
    BY <1>2, UploadStarts DEF UseCached, TimesInv, Times, KeptToken
<1>3. ASSUME NEW t \in Tabs, LeaveUpload(t) \/ SignAndPost(t) PROVE TimesInv'
    <2>1. \A u \in Tabs : tab'[u].step \in {"upload", "refused"} => tab'[u] = tab[u]
        BY <1>3 DEF LeaveUpload, SignAndPost, NotUploading, Shapes
    <2> QED
        BY <1>3, <2>1, QuietTimes DEF LeaveUpload, SignAndPost, TimesInv, Times, KeptToken
<1>4. ASSUME NEW t \in Tabs, NEW a \in Accounts, GetChallenge(t, a) PROVE TimesInv'
    <2>1. \A u \in Tabs : tab'[u].step \in {"upload", "refused"} => tab'[u] = tab[u]
        BY <1>4 DEF GetChallenge, Shapes
    <2>2. Times'
        BY <1>4 DEF GetChallenge, TimesInv, Times
    <2> QED
        BY <2>1, <2>2, QuietTimes
<1>5. ASSUME NEW t \in Tabs, UploadArrives(t) PROVE TimesInv'
    <2>1. CASE Expired(tab[t].token)
        BY <1>5, <2>1, RefusedWasDelayed DEF UploadArrives
    <2>2. CASE ~Expired(tab[t].token)
        <3>1. \A u \in Tabs : tab'[u].step \in {"upload", "refused"} => tab'[u] = tab[u]
            BY <1>5, <2>2 DEF UploadArrives, NotUploading, Shapes
        <3> QED
            BY <1>5, <3>1, QuietTimes DEF UploadArrives, TimesInv, Times, KeptToken
    <2> QED
        BY <2>1, <2>2
<1>6. ASSUME NEW p \in posts, VerifyChallenge(p) \/ DeleteAfterRefusal(p) \/ IssueToken(p)
      PROVE  TimesInv'
    <2>1. UNCHANGED <<now, tab, kept>>
        BY <1>6 DEF VerifyChallenge, DeleteAfterRefusal, IssueToken
    <2>2. \A a \in answers' : a \in answers \/ a.issued \in {now, 0}
        BY <1>6 DEF VerifyChallenge, Refuse, DeleteAfterRefusal, IssueToken, Redeem, Answer
    <2>3. Times'
        BY <2>1, <2>2 DEF TimesInv, Times
    <2> QED
        BY <2>1, <2>3, QuietTimes
<1>7. ASSUME NEW a \in answers, AnswerArrives(a) PROVE TimesInv'
    <2>1. KeptToken(Received(a)) /\ now <= Received(a).till
        BY LivesAssumption DEF KeptToken, Received, KeptUntil, TimesInv, Times
    <2>2. Times'
        BY <1>7, <2>1 DEF AnswerArrives, TimesInv, Times
    <2>3. CASE tab' = tab
        BY <2>2, <2>3, QuietTimes
    <2>4. ASSUME NEW t \in Tabs,
                 tab' = [tab EXCEPT ![t] = [step |-> "upload", token |-> Received(a),
                                            taken |-> now]]
          PROVE  TimesInv'
        BY <2>1, <2>2, <2>4, UploadStarts
    <2>5. ASSUME NEW t \in Tabs, tab' = [tab EXCEPT ![t] = NotUploading]
          PROVE  TimesInv'
        <3>1. \A u \in Tabs : tab'[u].step \in {"upload", "refused"} => tab'[u] = tab[u]
            BY <2>5 DEF NotUploading, Shapes
        <3> QED
            BY <2>2, <3>1, QuietTimes
    <2> QED
        BY <1>7, <2>3, <2>4, <2>5, AnswerMovesWaiter
<1> QED
    BY <1>1, <1>2, <1>3, <1>4, <1>5, <1>6, <1>7 DEF LoginNext

\* A token that getUploadToken handed out is refused as expired only after
\* delays longer than the margin between the two lives, whatever the lives are.
THEOREM CachedTokensAccepted == LoginSpec => []CachedTokenAccepted
<1>1. TimesInv => CachedTokenAccepted
    BY DEF TimesInv
<1>2. LoginInv => Shapes
    BY DEF LoginInv
<1> QED
    BY LoginInitInv, LoginStepInv, LoginInitTimes, LoginStepTimes, <1>1, <1>2, PTL
       DEF LoginSpec

-----------------------------------------------------------------------------
(*****************************************************************************)
(* The explorer's pages                                                      *)
(*****************************************************************************)

\* A run that starts is not done, whatever it finds in the cache.
LEMMA StartRunLoads ==
    ASSUME NEW key, NEW snap, NEW pages
    PROVE  StartRun(key, snap, pages).stage # "done"
BY DEF StartRun

\* Every step that turns to another page or network starts a run, and a run
\* ends by showing what is selected then.
LEMMA PageStepLatest == LatestWins /\ [PageNext]_pageVars => LatestWins'
<1> SUFFICES ASSUME LatestWins, [PageNext]_pageVars PROVE LatestWins'
    OBVIOUS
<1>1. ASSUME NEW c \in Chains, TokenCreated(c) PROVE LatestWins'
    BY <1>1 DEF TokenCreated, LatestWins, Loading, Key
<1>2. ASSUME NEW c \in Chains, SwitchChain(c) PROVE LatestWins'
    BY <1>2, StartRunLoads DEF SwitchChain, LatestWins, Loading
<1>3. ASSUME NEW p \in 1..MaxCount, GoTo(p) PROVE LatestWins'
    BY <1>3, StartRunLoads DEF GoTo, LatestWins, Loading
<1>4. CASE Refresh \/ Retry
    BY <1>4 DEF Refresh, Retry, LatestWins, Loading
<1>5. CASE CountArrives
    <2>1. CASE RunFails
        BY <2>1, <1>5 DEF CountArrives, RunFails, LatestWins, Key
    <2>2. CASE \E snap : run' = StartRun(Key, snap, pageCache)
        BY <2>2, StartRunLoads DEF LatestWins, Loading
    <2> QED
        BY <1>5, <2>1, <2>2 DEF CountArrives
<1>6. CASE TokensArrive
    <2>1. CASE RunFails
        BY <2>1, <1>6 DEF TokensArrive, RunFails, LatestWins, Key
    <2>2. CASE \E answer : run' = [stage |-> "enrich", page |-> answer]
        BY <2>2 DEF LatestWins, Loading
    <2> QED
        BY <1>6, <2>1, <2>2 DEF TokensArrive
<1>7. CASE EnrichmentArrives
    BY <1>7 DEF EnrichmentArrives, LatestWins, Key
<1>8. ASSUME NEW f \in late, LateArrives(f) PROVE LatestWins'
    BY <1>8 DEF LateArrives, LatestWins, Loading, Key
<1>9. CASE UNCHANGED pageVars
    BY <1>9 DEF pageVars, LatestWins, Loading, Key
<1> QED
    BY <1>1, <1>2, <1>3, <1>4, <1>5, <1>6, <1>7, <1>8, <1>9 DEF PageNext

\* When nothing is loading, the explorer shows the page and the network that
\* are selected, whichever source answers and however late.
THEOREM LatestAlwaysWins == PageSpec => []LatestWins
<1>1. PageInit => LatestWins
    BY DEF PageInit, LatestWins, Loading
<1> QED
    BY <1>1, PageStepLatest, PTL DEF PageSpec

(***************************************************************************)
(* The windows of one session tile.  WindowsTile speaks of the cache; what *)
(* keeps it is that the cache, the requests of cancelled runs and the run  *)
(* all have the snapshot of the session: a snapshot is read only when no   *)
(* page and no request of an older one is left, unless it is known to mix. *)
(***************************************************************************)
PageNumbers == Nat \ {0}

PagesTyped ==
    /\ count \in [Chains -> 0..MaxCount]
    /\ chain \in Chains
    /\ currentPage \in PageNumbers
    /\ \A key \in DOMAIN pageCache : key[2] \in PageNumbers
    /\ \A f \in late : f.key[2] \in PageNumbers
    /\ snapshot \in (0..MaxCount) \cup {Unread}

CountOnlyWhenUnread == run.stage = "count" => snapshot = Unread

NothingReadYet == DOMAIN pageCache = {} /\ late = {} /\ run.stage \in {"count", "done"}

OfSnapshot ==
    /\ \A key \in DOMAIN pageCache : Indices(key) = Window(snapshot, key[2])
    /\ \A f \in late : f.snap = snapshot
    /\ run.stage = "tokens" => run.snap = snapshot

OneSnapshot == ~mixed => IF snapshot = Unread THEN NothingReadYet ELSE OfSnapshot

SnapshotInv == PagesTyped /\ CountOnlyWhenUnread /\ OneSnapshot

\* A run with a snapshot asks for its page or has it; without one it asks for
\* the count.
LEMMA StartRunStage ==
    ASSUME NEW key, NEW snap, NEW pages
    PROVE  /\ snap = Unread => StartRun(key, snap, pages).stage = "count"
           /\ snap # Unread =>
                /\ StartRun(key, snap, pages).stage \in {"enrich", "tokens"}
                /\ StartRun(key, snap, pages).stage = "tokens"
                     => StartRun(key, snap, pages).snap = snap
BY DEF StartRun

\* Over RPC a page is the window that was asked for.
LEMMA RpcPageIsWindow ==
    ASSUME ~indexerEnabled, NEW key, NEW snap, NEW answer \in getAllTokens(key, snap)
    PROVE  answer.indices = Window(snap, key[2])
BY DEF getAllTokens, RpcPages

\* Another page or network, with the snapshot and the cache of before.
LEMMA TurnKeepsSnapshot ==
    ASSUME SnapshotInv, UNCHANGED <<count, snapshot, pageCache, mixed>>,
           chain' \in Chains, currentPage' \in PageNumbers,
           \/ late' = late
           \/ run.stage = "tokens" /\ late' = late \cup {[key |-> Key, snap |-> run.snap]},
           NEW key, run' = StartRun(key, snapshot, pageCache)
    PROVE  SnapshotInv'
<1>1. PagesTyped'
    BY DEF SnapshotInv, PagesTyped, Key
<1>2. CountOnlyWhenUnread'
    BY StartRunStage DEF CountOnlyWhenUnread
<1>3. OneSnapshot'
    <2> SUFFICES ASSUME ~mixed PROVE IF snapshot = Unread THEN NothingReadYet' ELSE OfSnapshot'
        BY DEF OneSnapshot
    <2>1. CASE snapshot = Unread
        BY <2>1, StartRunStage DEF SnapshotInv, OneSnapshot, NothingReadYet
    <2>2. CASE snapshot # Unread
        BY <2>2, StartRunStage DEF SnapshotInv, OneSnapshot, OfSnapshot, Indices
    <2> QED BY <2>1, <2>2
<1> QED BY <1>1, <1>2, <1>3 DEF SnapshotInv

\* A page is added to the cache: the window of the session's snapshot.
LEMMA CachedKeepsSnapshot ==
    ASSUME ~indexerEnabled, SnapshotInv, NEW key, key[2] \in PageNumbers, NEW snap,
           NEW answer \in getAllTokens(key, snap),
           ~mixed => snapshot # Unread /\ snap = snapshot,
           pageCache' = Cached(key, answer), late' \subseteq late,
           run' = run \/ run'.stage = "enrich",
           UNCHANGED <<count, chain, currentPage, snapshot, mixed>>
    PROVE  SnapshotInv'
<1>1. DOMAIN pageCache' = DOMAIN pageCache \cup {key}
    BY DEF Cached
<1>2. \A k \in DOMAIN pageCache \ {key} : pageCache'[k] = pageCache[k]
    BY DEF Cached
<1>3. pageCache'[key].indices = Window(snap, key[2])
    BY RpcPageIsWindow DEF Cached
<1>4. PagesTyped'
    BY <1>1 DEF SnapshotInv, PagesTyped
<1>5. CountOnlyWhenUnread'
    BY DEF SnapshotInv, CountOnlyWhenUnread
<1>6. OneSnapshot'
    <2> SUFFICES ASSUME ~mixed PROVE OfSnapshot'
        BY DEF OneSnapshot
    <2>1. OfSnapshot /\ snap = snapshot
        BY DEF SnapshotInv, OneSnapshot
    <2>2. \A k \in DOMAIN pageCache' : pageCache'[k].indices = Window(snapshot, k[2])
        BY <1>1, <1>2, <1>3, <2>1 DEF OfSnapshot, Indices
    <2> QED BY <2>1, <2>2 DEF OfSnapshot, Indices
<1> QED BY <1>4, <1>5, <1>6 DEF SnapshotInv

\* A run ends; nothing else that the invariant is about changes.
LEMMA EndKeepsSnapshot ==
    ASSUME SnapshotInv, run' = run \/ run'.stage = "done", late' \subseteq late,
           UNCHANGED <<count, chain, currentPage, snapshot, pageCache, mixed>>
    PROVE  SnapshotInv'
<1>1. PagesTyped' /\ CountOnlyWhenUnread'
    BY DEF SnapshotInv, PagesTyped, CountOnlyWhenUnread
<1>2. OneSnapshot'
    BY DEF SnapshotInv, OneSnapshot, NothingReadYet, OfSnapshot, Indices
<1> QED BY <1>1, <1>2 DEF SnapshotInv

\* The snapshot is dropped: by a refresh with the whole cache, by a retry with
\* one page of it.
LEMMA DropSnapshot ==
    ASSUME SnapshotInv, Refresh \/ Retry
    PROVE  SnapshotInv'
<1>1. snapshot' = Unread /\ run'.stage = "count" /\ late' = late
      /\ DOMAIN pageCache' \subseteq DOMAIN pageCache
      /\ currentPage' \in {1, currentPage} /\ UNCHANGED <<count, chain>>
    BY DEF Refresh, Retry, NoPages
<1>2. PagesTyped' /\ CountOnlyWhenUnread'
    BY <1>1 DEF SnapshotInv, PagesTyped, CountOnlyWhenUnread, PageNumbers
<1>3. ~mixed' => DOMAIN pageCache' = {} /\ late = {}
    BY DEF Refresh, Retry, NoPages
<1>4. OneSnapshot'
    BY <1>1, <1>3 DEF OneSnapshot, NothingReadYet
<1> QED BY <1>2, <1>4 DEF SnapshotInv

\* The count becomes the snapshot of a session that has read nothing yet.
LEMMA CountKeepsSnapshot ==
    ASSUME SnapshotInv, CountArrives
    PROVE  SnapshotInv'
<1>1. CASE RunFails /\ UNCHANGED snapshot
    BY <1>1, EndKeepsSnapshot DEF CountArrives, RunFails
<1>2. CASE snapshot' = count[chain] /\ run' = StartRun(Key, count[chain], pageCache)
    <2>1. count[chain] \in 0..MaxCount /\ count[chain] # Unread
        BY DEF SnapshotInv, PagesTyped, Unread
    <2>2. PagesTyped'
        BY <1>2, <2>1 DEF CountArrives, SnapshotInv, PagesTyped
    <2>3. CountOnlyWhenUnread'
        BY <1>2, <2>1, StartRunStage DEF CountOnlyWhenUnread
    <2>4. OneSnapshot'
        BY <1>2, <2>1, StartRunStage
           DEF CountArrives, SnapshotInv, OneSnapshot, CountOnlyWhenUnread, NothingReadYet,
               OfSnapshot
    <2> QED BY <2>2, <2>3, <2>4 DEF SnapshotInv
<1> QED BY <1>1, <1>2 DEF CountArrives

\* Every step over RPC keeps what is cached, asked for and shown of one
\* snapshot.
LEMMA PageStepSnapshot ==
    ASSUME ~indexerEnabled
    PROVE  SnapshotInv /\ [PageNext]_pageVars => SnapshotInv'
<1> SUFFICES ASSUME SnapshotInv, [PageNext]_pageVars PROVE SnapshotInv'
    OBVIOUS
<1>1. ASSUME NEW c \in Chains, TokenCreated(c) PROVE SnapshotInv'
    <2>1. count' \in [Chains -> 0..MaxCount]
        BY <1>1, PagesAssumption DEF TokenCreated, SnapshotInv, PagesTyped
    <2>2. UNCHANGED <<chain, currentPage, snapshot, pageCache, run, late, mixed>>
        BY <1>1 DEF TokenCreated
    <2> QED
        BY <2>1, <2>2 DEF SnapshotInv, PagesTyped, CountOnlyWhenUnread, OneSnapshot,
                          NothingReadYet, OfSnapshot, Indices
<1>2. ASSUME NEW c \in Chains, SwitchChain(c) PROVE SnapshotInv'
    BY <1>2, TurnKeepsSnapshot DEF SwitchChain, Supersede, SnapshotInv, PagesTyped
<1>3. ASSUME NEW p \in 1..MaxCount, GoTo(p) PROVE SnapshotInv'
    <2>1. p \in PageNumbers
        BY PagesAssumption DEF PageNumbers
    <2> QED BY <1>3, <2>1, TurnKeepsSnapshot DEF GoTo, SnapshotInv, PagesTyped
<1>4. CASE Refresh \/ Retry
    BY <1>4, DropSnapshot
<1>5. CASE CountArrives
    BY <1>5, CountKeepsSnapshot
<1>6. CASE TokensArrive
    <2>1. CASE RunFails /\ UNCHANGED pageCache
        BY <1>6, <2>1, EndKeepsSnapshot DEF TokensArrive, RunFails
    <2>2. ASSUME NEW answer \in getAllTokens(Key, run.snap), pageCache' = Cached(Key, answer),
                 run' = [stage |-> "enrich", page |-> answer]
          PROVE  SnapshotInv'
        <3>1. ~mixed => snapshot # Unread /\ run.snap = snapshot
            BY <1>6 DEF TokensArrive, SnapshotInv, OneSnapshot, NothingReadYet, OfSnapshot
        <3>2. Key[2] \in PageNumbers
            BY DEF Key, SnapshotInv, PagesTyped
        <3> QED BY <1>6, <2>2, <3>1, <3>2, CachedKeepsSnapshot DEF TokensArrive
    <2> QED BY <1>6, <2>1, <2>2 DEF TokensArrive
<1>7. CASE EnrichmentArrives
    BY <1>7, EndKeepsSnapshot DEF EnrichmentArrives
<1>8. ASSUME NEW f \in late, LateArrives(f) PROVE SnapshotInv'
    <2>1. CASE UNCHANGED pageCache
        BY <1>8, <2>1, EndKeepsSnapshot DEF LateArrives
    <2>2. ASSUME NEW answer \in getAllTokens(f.key, f.snap), pageCache' = Cached(f.key, answer)
          PROVE  SnapshotInv'
        <3>1. ~mixed => snapshot # Unread /\ f.snap = snapshot
            BY DEF SnapshotInv, OneSnapshot, NothingReadYet, OfSnapshot
        <3>2. f.key[2] \in PageNumbers
            BY DEF SnapshotInv, PagesTyped
        <3> QED BY <1>8, <2>2, <3>1, <3>2, CachedKeepsSnapshot DEF LateArrives
    <2> QED BY <1>8, <2>1, <2>2 DEF LateArrives
<1>9. CASE UNCHANGED pageVars
    BY <1>9, EndKeepsSnapshot DEF pageVars
<1> QED
    BY <1>1, <1>2, <1>3, <1>4, <1>5, <1>6, <1>7, <1>8, <1>9 DEF PageNext

\* A session starts without a snapshot and without pages.
LEMMA PageInitSnapshot == PageInit => SnapshotInv
BY PagesAssumption DEF PageInit, SnapshotInv, PagesTyped, CountOnlyWhenUnread,
                       OneSnapshot, NothingReadYet, PageNumbers, Unread

Top(snap, p) == snap - (p - 1) * PAGE_SIZE

\* A page holds the PAGE_SIZE tokens up to its top, and less only when the
\* tokens end before.
LEMMA WindowMembers ==
    ASSUME NEW snap \in Nat, NEW p \in PageNumbers
    PROVE  /\ Top(snap, p) \in Int
           /\ \A i : i \in Window(snap, p)
                       <=> /\ i \in Int
                           /\ 1 <= i /\ i <= Top(snap, p) /\ i > Top(snap, p) - PAGE_SIZE
<1>1. Top(snap, p) \in Int
    <2>1. (p - 1) * PAGE_SIZE \in Int
        BY PagesAssumption DEF PageNumbers
    <2> QED BY <2>1 DEF Top
<1>2. \A high \in Int : \A i : i \in {j \in 1..high : j > high - PAGE_SIZE}
                       <=> i \in Int /\ 1 <= i /\ i <= high /\ i > high - PAGE_SIZE
    BY PagesAssumption
<1>3. Window(snap, p) = {j \in 1..Top(snap, p) : j > Top(snap, p) - PAGE_SIZE}
    BY DEF Window, Top
<1> QED BY <1>1, <1>2, <1>3, Zenon

\* From page to page the top goes down by whole pages.
LEMMA TopsApart ==
    ASSUME NEW snap \in Nat, NEW p \in PageNumbers, NEW q \in PageNumbers, p < q
    PROVE  /\ (q - p - 1) * PAGE_SIZE \in Nat
           /\ Top(snap, p) = Top(snap, q) + PAGE_SIZE + (q - p - 1) * PAGE_SIZE
<1>1. q - p - 1 \in Nat
    BY DEF PageNumbers
<1>2. \A m, n \in Nat : m * n \in Nat
    OBVIOUS
<1>3. (q - p - 1) * PAGE_SIZE \in Nat
    BY <1>1, <1>2, PagesAssumption
<1>4. \A k, l \in Int : \A n \in Int :
          (l - k - 1) * n = (l - 1) * n - (k - 1) * n - n
    OBVIOUS
<1>5. (q - p - 1) * PAGE_SIZE = (q - 1) * PAGE_SIZE - (p - 1) * PAGE_SIZE - PAGE_SIZE
    BY <1>4, PagesAssumption DEF PageNumbers
<1>6. (q - 1) * PAGE_SIZE \in Int /\ (p - 1) * PAGE_SIZE \in Int
    BY PagesAssumption DEF PageNumbers
<1> QED BY <1>3, <1>5, <1>6, PagesAssumption DEF Top

\* The greatest element of a set is unique.
LEMMA HighestIs ==
    ASSUME NEW S, S \subseteq Int, NEW m \in S, \A j \in S : j <= m
    PROVE  Highest(S) = m
<1>1. Highest(S) \in S /\ \A j \in S : j <= Highest(S)
    BY DEF Highest
<1>2. \A h \in Int : h <= m /\ m <= h => h = m
    OBVIOUS
<1>3. Highest(S) \in Int /\ Highest(S) <= m /\ m <= Highest(S)
    BY <1>1, Zenon
<1> QED BY <1>1, <1>2, <1>3

\* The same for the least.
LEMMA LowestIs ==
    ASSUME NEW S, S \subseteq Int, NEW m \in S, \A j \in S : m <= j
    PROVE  Lowest(S) = m
<1>1. Lowest(S) \in S /\ \A j \in S : Lowest(S) <= j
    BY DEF Lowest
<1>2. \A h \in Int : h <= m /\ m <= h => h = m
    OBVIOUS
<1>3. Lowest(S) \in Int /\ Lowest(S) <= m /\ m <= Lowest(S)
    BY <1>1, Zenon
<1> QED BY <1>1, <1>2, <1>3

\* Two windows of one snapshot: the earlier page is full when the later one
\* has a token, and the later one begins where the pages between end.
LEMMA WindowsOfOneSnapshot ==
    ASSUME NEW snap \in Nat, NEW p \in PageNumbers, NEW q \in PageNumbers, p < q,
           Window(snap, q) # {}
    PROVE  /\ Window(snap, p) # {}
           /\ Highest(Window(snap, q)) = Lowest(Window(snap, p)) - 1 - (q - p - 1) * PAGE_SIZE
<1> DEFINE tp == Top(snap, p)
           tq == Top(snap, q)
           between == (q - p - 1) * PAGE_SIZE
<1>1. tp \in Int /\ tq \in Int /\ between \in Nat /\ tp = tq + PAGE_SIZE + between
    BY WindowMembers, TopsApart
<1>2. \A i : i \in Window(snap, p) <=> i \in Int /\ 1 <= i /\ i <= tp /\ i > tp - PAGE_SIZE
    BY WindowMembers
<1>3. \A i : i \in Window(snap, q) <=> i \in Int /\ 1 <= i /\ i <= tq /\ i > tq - PAGE_SIZE
    BY WindowMembers
<1> HIDE DEF tp, tq, between
<1>4. tq >= 1
    BY <1>1, <1>3
<1>5. Highest(Window(snap, q)) = tq
    <2>1. tq \in Window(snap, q) /\ \A j \in Window(snap, q) : j <= tq
        BY <1>1, <1>3, <1>4, PagesAssumption
    <2>2. Window(snap, q) \subseteq Int
        BY <1>3
    <2> QED BY <2>1, <2>2, HighestIs
<1>6. tq + between + 1 \in Window(snap, p) /\ \A j \in Window(snap, p) : tq + between + 1 <= j
    BY <1>1, <1>2, <1>4, PagesAssumption
<1>7. Lowest(Window(snap, p)) = tq + between + 1
    <2>1. Window(snap, p) \subseteq Int
        BY <1>2
    <2> QED BY <2>1, <1>6, LowestIs
<1>8. tq = (tq + between + 1) - 1 - between
    BY <1>1
<1> QED BY <1>5, <1>6, <1>7, <1>8 DEF between

\* A cache of one snapshot tiles.
LEMMA SnapshotTiles == SnapshotInv => WindowsTile
<1> SUFFICES ASSUME SnapshotInv, ~mixed,
                    NEW a \in DOMAIN pageCache, NEW b \in DOMAIN pageCache,
                    a[1] = b[1], a[2] < b[2], Indices(b) # {}
             PROVE  /\ Indices(a) # {}
                    /\ Highest(Indices(b)) =
                         Lowest(Indices(a)) - 1 - (b[2] - a[2] - 1) * PAGE_SIZE
    BY DEF WindowsTile, Tile
<1>1. snapshot # Unread /\ OfSnapshot
    BY DEF SnapshotInv, OneSnapshot, NothingReadYet
<1>2. snapshot \in Nat /\ a[2] \in PageNumbers /\ b[2] \in PageNumbers
    BY <1>1, PagesAssumption DEF SnapshotInv, PagesTyped
<1>3. Indices(a) = Window(snapshot, a[2]) /\ Indices(b) = Window(snapshot, b[2])
    BY <1>1 DEF OfSnapshot
<1> QED BY <1>2, <1>3, WindowsOfOneSnapshot

\* Over RPC, the pages of a session are never shifted by tokens created
\* meanwhile: they tile unless a retry or a late answer mixed two snapshots.
THEOREM PagesTileOverRpc ==
    ASSUME ~indexerEnabled
    PROVE  PageSpec => []WindowsTile
<1>1. SnapshotInv /\ [PageNext]_pageVars => SnapshotInv'
    BY PageStepSnapshot
<1> QED BY <1>1, PageInitSnapshot, SnapshotTiles, PTL DEF PageSpec

-----------------------------------------------------------------------------
(***************************************************************************)
(* The pins: what the reconciliation job spares.                           *)
(***************************************************************************)


\* The chain only adds URIs; the indexer serves what a token was given.
ChainOK ==
    /\ history \in [Tokens -> Seq(Documents)]
    /\ DOMAIN cache \subseteq Tokens
    /\ cache = [t \in DOMAIN cache |-> cache[t]]
    /\ \A t \in DOMAIN cache : cache[t] \in Cache!Given(t) \cup {NoUri}

PinsOK == pins \in [Cids -> {"absent", "young", "old"}]

\* A form that is under way has a token and an image, and so has an envelope
\* it left behind.
FormsOK ==
    /\ form \in [Wallets -> [pc    : {"idle", "image", "json", "submit", "waiting", "included"},
                             token : Tokens \cup {NoUri},
                             image : Images \cup {NoUri}]]
    /\ \A w \in Wallets :
          form[w].pc # "idle" => form[w].token \in Tokens /\ form[w].image \in Images
    /\ envelopes \subseteq Documents

JobOK ==
    /\ job = [pc |-> job.pc, spared |-> job.spared, aged |-> job.aged,
              orphans |-> job.orphans, count |-> job.count]
    /\ job.spared \subseteq Cids

\* A document a token has had beside another one.
Replaced(c) == \E t \in Tokens : c \in Cache!Given(t) /\ Len(history[t]) > 1

Served(c) == \E t \in DOMAIN cache : c \in Cache!Given(t) /\ cache[t] = c

\* What the job has to spare and may still remove: before it read the
\* references a document that is served or replaced, after it a replaced one.
JobHolds ==
    \A c \in job.spared :
        /\ c \in job.aged => Served(c) \/ Replaced(c)
        /\ c \in job.orphans => Replaced(c)

PinsInv == ChainOK /\ PinsOK /\ FormsOK /\ JobOK /\ JobHolds

-----------------------------------------------------------------------------

\* Nothing is linked, pinned or running at the start.
LEMMA InitPinsInv == Init => PinsInv
BY DEF Init, PinsInv, ChainOK, PinsOK, FormsOK, Idle, JobOK, JobHolds, NoJob, Cache!Given

\* A URI that is set adds to what the token was given.
LEMMA UriSetGrows ==
    ASSUME ChainOK, NEW t \in Tokens, NEW uri \in Documents, Cache!UriSet(t, uri)
    PROVE  /\ ChainOK'
           /\ \A c : Replaced(c) => Replaced(c)'
           /\ \A c : Served(c) => Served(c)'
<1>1. history' \in [Tokens -> Seq(Documents)] /\ cache' = cache
    BY DEF ChainOK, Cache!UriSet
<1>2. \A u \in Tokens : /\ Len(history[u]) <= Len(history'[u])
                        /\ Cache!Given(u) \subseteq Cache!Given(u)'
    <2> SUFFICES ASSUME NEW u \in Tokens
                 PROVE  /\ Len(history[u]) <= Len(history'[u])
                        /\ Cache!Given(u) \subseteq Cache!Given(u)'
        OBVIOUS
    <2>1. history[u] \in Seq(Documents)
        BY DEF ChainOK
    <2>2. history'[u] \in {history[u], Append(history[u], uri)}
        BY DEF ChainOK, Cache!UriSet
    <2> QED
        BY <2>1, <2>2 DEF Cache!Given
<1>3. \A c : Replaced(c) => Replaced(c)'
    <2> SUFFICES ASSUME NEW c, Replaced(c) PROVE Replaced(c)'
        OBVIOUS
    <2>1. PICK u \in Tokens : c \in Cache!Given(u) /\ Len(history[u]) > 1
        BY DEF Replaced
    <2>2. Len(history[u]) \in Nat /\ Len(history'[u]) \in Nat
        BY <1>1 DEF ChainOK
    <2>3. c \in Cache!Given(u)' /\ Len(history'[u]) > 1
        BY <1>2, <2>1, <2>2
    <2> QED
        BY <2>3 DEF Replaced
<1> QED
    BY <1>1, <1>2, <1>3 DEF ChainOK, Served

\* A token that is learned is served without a URI, the others as before.
LEMMA TokenLearnedKeeps ==
    ASSUME ChainOK, NEW t \in Tokens, Cache!TokenLearned(t)
    PROVE  /\ ChainOK'
           /\ \A c : Replaced(c) => Replaced(c)'
           /\ \A c : Served(c) => Served(c)'
<1>1. /\ history' = history
      /\ cache' = [u \in DOMAIN cache \cup {t} |-> IF u = t THEN NoUri ELSE cache[u]]
    BY DEF Cache!TokenLearned, ChainOK
<1>2. t \notin DOMAIN cache
    BY DEF Cache!TokenLearned
<1>3. ChainOK'
    BY <1>1, <1>2 DEF ChainOK, Cache!Given
<1>4. \A c : Replaced(c) => Replaced(c)'
    BY <1>1 DEF Replaced, Cache!Given
<1>5. \A c : Served(c) => Served(c)'
    BY <1>1, <1>2 DEF Served, Cache!Given
<1> QED
    BY <1>3, <1>4, <1>5

\* A served document that gives way to another one of its token is replaced.
LEMMA UriLearnedReplaces ==
    ASSUME ChainOK, NEW t \in Tokens, NEW uri \in Documents, Cache!UriLearned(t, uri)
    PROVE  /\ ChainOK'
           /\ \A c : Replaced(c) => Replaced(c)'
           /\ \A c : Served(c) => Served(c)' \/ Replaced(c)'
<1>1. /\ history' = history
      /\ t \in DOMAIN cache /\ uri \in Cache!Given(t)
      /\ cache' = [cache EXCEPT ![t] = uri]
    BY DEF Cache!UriLearned, Cache!Given
<1>2. ChainOK' /\ \A c : Replaced(c) => Replaced(c)'
    BY <1>1 DEF ChainOK, Replaced, Cache!Given
<1>3. ASSUME NEW c, Served(c) PROVE Served(c)' \/ Replaced(c)'
    <2>1. PICK u \in DOMAIN cache : c \in Cache!Given(u) /\ cache[u] = c
        BY <1>3 DEF Served
    <2>2. CASE u # t \/ c = uri
        BY <1>1, <2>1, <2>2 DEF Served, ChainOK, Cache!Given
    <2>3. CASE u = t /\ c # uri
        <3>1. history[t] \in Seq(Documents)
            BY DEF ChainOK
        <3>2. PICK i \in DOMAIN history[t] : history[t][i] = c
            BY <2>1, <2>3 DEF Cache!Given
        <3>3. PICK j \in DOMAIN history[t] : history[t][j] = uri
            BY <1>1 DEF Cache!Given
        <3>4. i # j /\ i \in 1..Len(history[t]) /\ j \in 1..Len(history[t])
            BY <2>3, <3>1, <3>2, <3>3
        <3>5. Len(history[t]) > 1
            BY <3>1, <3>4
        <3> QED
            BY <1>1, <2>1, <2>3, <3>5 DEF Replaced, Cache!Given
    <2> QED
        BY <2>2, <2>3
<1> QED
    BY <1>2, <1>3

\* What the chain and the indexer do while the job runs.
LEMMA ChainPinsInv ==
    ASSUME PinsInv, UNCHANGED <<pins, job>>, ChainOK', FormsOK',
           \A c : Replaced(c) => Replaced(c)',
           \A c : Served(c) => Served(c)' \/ Replaced(c)'
    PROVE  PinsInv'
BY DEF PinsInv, PinsOK, JobOK, JobHolds

\* What forms and requests do to the pins.
LEMMA PinPinsInv ==
    ASSUME PinsInv, UNCHANGED <<history, cache, job>>, PinsOK', FormsOK'
    PROVE  PinsInv'
<1>1. ChainOK'
    BY DEF PinsInv, ChainOK, Cache!Given
<1>2. \A c : /\ Served(c) => Served(c)'
             /\ Replaced(c) => Replaced(c)'
    BY DEF Served, Replaced, Cache!Given
<1>3. JobOK' /\ JobHolds'
    BY <1>2 DEF PinsInv, JobOK, JobHolds
<1> QED
    BY <1>1, <1>3 DEF PinsInv

\* What is pinned before the grace window began is old and, to be spared, served.
LEMMA JobStartPinsInv == PinsInv /\ FormsOK' /\ JobStart => PinsInv'
<1> SUFFICES ASSUME PinsInv, FormsOK', JobStart PROVE PinsInv'
    OBVIOUS
<1>1. job' = [pc |-> "list", spared |-> {c \in Cids : pins[c] = "young" \/ c \in cidInUse},
              aged |-> Old, orphans |-> {}, count |-> 0]
    BY DEF JobStart, NoJob
<1>2. \A c \in job'.spared : c \in job'.aged => Served(c)'
    <2> SUFFICES ASSUME NEW c \in Cids, c \in cidInUse PROVE Served(c)'
        BY <1>1 DEF Old
    <2>1. PICK t \in DOMAIN cache : c = cache[t]
        BY DEF cidInUse
    <2>2. c \in Cache!Given(t)
        BY <2>1, BoundsAssumption DEF PinsInv, ChainOK
    <2> QED
        BY <2>1, <2>2 DEF JobStart, chainVars, Served, Cache!Given
<1>3. ChainOK' /\ PinsOK'
    BY DEF JobStart, chainVars, pinVars, PinsInv, ChainOK, PinsOK, Cache!Given
<1> QED
    BY <1>1, <1>2, <1>3 DEF PinsInv, JobOK, JobHolds

\* The listing leaves out what is not old, and the references what is served.
LEMMA JobReadsPinsInv ==
    ASSUME PinsInv, FormsOK', ListAllPins \/ JobEnds \/ (\E o, d \in BOOLEAN : Classify(o, d))
    PROVE  PinsInv'
<1>1. UNCHANGED <<history, cache, pins>>
    BY DEF ListAllPins, JobEnds, Classify, chainVars, pinVars
<1>2. ChainOK' /\ PinsOK'
    BY <1>1 DEF PinsInv, ChainOK, PinsOK, Cache!Given
<1>3. \A c : /\ Served(c) => Served(c)'
             /\ Replaced(c) => Replaced(c)'
    BY <1>1 DEF Served, Replaced, Cache!Given
<1>4. CASE ListAllPins
    <2>1. job' = [pc |-> "classify", spared |-> job.spared, aged |-> job.aged \cap Old,
                  orphans |-> job.orphans, count |-> Cardinality(Pinned)]
        BY <1>4 DEF ListAllPins, PinsInv, JobOK
    <2> QED
        BY <2>1, <1>2, <1>3 DEF PinsInv, JobOK, JobHolds
<1>5. CASE job' = NoJob
    BY <1>5, <1>2 DEF PinsInv, JobOK, JobHolds, NoJob
<1>6. CASE job' = [NoJob EXCEPT !.pc = "unpin", !.orphans = job.aged \ cidInUse,
                               !.spared = job.spared]
    <2>1. job' = [pc |-> "unpin", spared |-> job.spared, aged |-> {},
                  orphans |-> job.aged \ cidInUse, count |-> 0]
        BY <1>6 DEF NoJob
    <2>2. \A c \in job.aged \ cidInUse : ~Served(c)
        BY DEF Served, cidInUse
    <2> QED
        BY <2>1, <2>2, <1>2, <1>3 DEF PinsInv, JobOK, JobHolds
<1> QED
    BY <1>4, <1>5, <1>6 DEF JobEnds, Classify

\* The job removes one of its orphans.
LEMMA JobUnpinPinsInv == PinsInv /\ FormsOK' /\ JobUnpin => PinsInv'
<1> SUFFICES ASSUME PinsInv, FormsOK', JobUnpin PROVE PinsInv'
    OBVIOUS
<1>1. PICK c \in job.orphans : /\ pins' \in {pins, [pins EXCEPT ![c] = "absent"]}
                               /\ job' = [job EXCEPT !.orphans = @ \ {c}]
    BY DEF JobUnpin
<1>2. job' = [pc |-> job.pc, spared |-> job.spared, aged |-> job.aged,
              orphans |-> job.orphans \ {c}, count |-> job.count]
    BY <1>1 DEF PinsInv, JobOK
<1>3. ChainOK' /\ PinsOK'
    BY <1>1 DEF JobUnpin, chainVars, PinsInv, ChainOK, PinsOK, Cache!Given
<1>4. \A d : /\ Served(d) => Served(d)'
             /\ Replaced(d) => Replaced(d)'
    BY DEF JobUnpin, chainVars, Served, Replaced, Cache!Given
<1> QED
    BY <1>2, <1>3, <1>4 DEF PinsInv, JobOK, JobHolds

\* Forms are filled in when they are confirmed, and leave envelopes of their own.
LEMMA FormsStep == FormsOK /\ [Next]_vars => FormsOK'
<1> SUFFICES ASSUME FormsOK, [Next]_vars PROVE FormsOK'
    OBVIOUS
<1>1. CASE UNCHANGED <<form, envelopes>>
    BY <1>1 DEF FormsOK
<1>2. CASE LateInclusion
    BY <1>2 DEF LateInclusion, FormsOK
<1>3. ASSUME NEW w \in Wallets, NEW t \in Tokens, NEW image \in Images, Confirm(w, t, image)
      PROVE  FormsOK'
    BY <1>3 DEF Confirm, FormsOK
<1>4. ASSUME NEW w \in Wallets, UploadImage(w) \/ UploadJson(w) PROVE FormsOK'
    BY <1>4 DEF UploadImage, UploadJson, Advance, FormsOK
<1>5. ASSUME NEW w \in Wallets, Submit(w) \/ Included(w) PROVE FormsOK'
    BY <1>5 DEF Submit, Included, Advance, FormsOK
<1>6. ASSUME NEW w \in Wallets, UploadFails(w) \/ LinkSucceeds(w) PROVE FormsOK'
    BY <1>6 DEF UploadFails, LinkSucceeds, Idle, FormsOK
<1>7. ASSUME NEW w \in Wallets, JudgedNotApplied(w) \/ Unconfirmed(w) \/ Abandon(w)
      PROVE  FormsOK'
    <2>1. form' = [form EXCEPT ![w] = Idle] /\ LeaveEnvelope(w)
        BY <1>7 DEF JudgedNotApplied, Unconfirmed, Abandon
    <2>2. form[w].pc = "waiting" => Document(w) \in Documents
        BY DEF FormsOK, Document, Documents
    <2>3. envelopes' \subseteq Documents
        BY <2>1, <2>2 DEF LeaveEnvelope, FormsOK
    <2> QED
        BY <2>1, <2>3 DEF FormsOK, Idle
<1>8. ASSUME NEW q \in unpins, Unpin(q) PROVE UNCHANGED <<form, envelopes>>
    BY <1>8 DEF Unpin
<1>9. ASSUME \/ IndexerLearns \/ JobStart \/ ListAllPins \/ JobUnpin \/ JobEnds
             \/ \E c \in Cids : GraceEnds(c)
             \/ \E o, d \in BOOLEAN : Classify(o, d)
             \/ UNCHANGED vars
      PROVE  UNCHANGED <<form, envelopes>>
    BY <1>9 DEF IndexerLearns, JobStart, ListAllPins, JobUnpin, JobEnds, GraceEnds, Classify,
       formVars, vars
<1> QED
    BY <1>1, <1>2, <1>3, <1>4, <1>5, <1>6, <1>7, <1>8, <1>9 DEF Next

\* A pin is made, or kept as it is.
LEMMA PinTypes ==
    ASSUME PinsOK, NEW w, NEW cid, Pin(w, cid)
    PROVE  PinsOK'
BY DEF Pin, PinsOK

\* Every step keeps the invariant.
LEMMA StepPinsInv == PinsInv /\ [Next]_vars => PinsInv'
<1> SUFFICES ASSUME PinsInv, [Next]_vars PROVE PinsInv'
    OBVIOUS
<1>0. FormsOK'
    BY FormsStep DEF PinsInv
<1>1. ASSUME NEW t \in Tokens, Cache!TokenLearned(t), UNCHANGED <<pins, job>>
      PROVE  PinsInv'
    BY <1>1, <1>0, TokenLearnedKeeps, ChainPinsInv DEF PinsInv
<1>2. ASSUME NEW t \in Tokens, NEW uri \in Documents, Cache!UriLearned(t, uri),
             UNCHANGED <<pins, job>>
      PROVE  PinsInv'
    BY <1>2, <1>0, UriLearnedReplaces, ChainPinsInv DEF PinsInv
<1>3. ASSUME NEW t \in Tokens, NEW uri \in Documents, Cache!UriSet(t, uri),
             UNCHANGED <<pins, job>>
      PROVE  PinsInv'
    BY <1>3, <1>0, UriSetGrows, ChainPinsInv DEF PinsInv
<1>4. CASE IndexerLearns
    BY <1>1, <1>2, <1>4 DEF IndexerLearns, pinVars
<1>5. CASE LateInclusion
    <2>1. PICK e \in envelopes : \/ Cache!UriSet(e[1], e)
                                \/ UNCHANGED <<history, cache>>
        BY <1>5 DEF LateInclusion
    <2>2. e[1] \in Tokens /\ e \in Documents
        BY DEF PinsInv, FormsOK, Documents
    <2>3. UNCHANGED <<pins, job>>
        BY <1>5 DEF LateInclusion, pinVars
    <2>4. CASE UNCHANGED <<history, cache>>
        BY <2>3, <2>4, <1>0, PinPinsInv DEF PinsInv, PinsOK
    <2> QED
        BY <2>1, <2>2, <2>3, <2>4, <1>3
<1>6. ASSUME NEW w \in Wallets, Included(w) PROVE PinsInv'
    <2>1. form[w].token \in Tokens /\ Document(w) \in Documents
        BY <1>6 DEF Included, PinsInv, FormsOK, Document, Documents
    <2> QED
        BY <1>6, <2>1, <1>3 DEF Included, pinVars
<1>7. ASSUME NEW w \in Wallets,
             \/ \E t \in Tokens, image \in Images : Confirm(w, t, image)
             \/ UploadFails(w) \/ Submit(w) \/ LinkSucceeds(w)
             \/ JudgedNotApplied(w) \/ Unconfirmed(w) \/ Abandon(w)
      PROVE  PinsInv'
    <2>1. UNCHANGED <<history, cache, job, pins>>
        BY <1>7 DEF Confirm, UploadFails, Submit, LinkSucceeds, JudgedNotApplied,
           Unconfirmed, Abandon, chainVars, pinVars
    <2> QED
        BY <2>1, <1>0, PinPinsInv DEF PinsInv, PinsOK
<1>8. ASSUME NEW w \in Wallets, UploadImage(w) \/ UploadJson(w) PROVE PinsInv'
    <2>1. PinsOK' /\ UNCHANGED <<history, cache, job>>
        BY <1>8, PinTypes DEF UploadImage, UploadJson, chainVars, PinsInv
    <2> QED
        BY <2>1, <1>0, PinPinsInv
<1>9. ASSUME NEW q \in unpins, Unpin(q) PROVE PinsInv'
    <2>1. UNCHANGED <<history, cache, job>>
        BY <1>9 DEF Unpin, chainVars
    <2>2. PinsOK'
        BY <1>9 DEF Unpin, pinVars, PinsInv, PinsOK
    <2> QED
        BY <2>1, <2>2, <1>0, PinPinsInv
<1>10. ASSUME NEW c \in Cids, GraceEnds(c) PROVE PinsInv'
    <2>1. PinsOK' /\ UNCHANGED <<history, cache, job>>
        BY <1>10 DEF GraceEnds, chainVars, PinsInv, PinsOK
    <2> QED
        BY <2>1, <1>0, PinPinsInv
<1>11. CASE JobStart
    BY <1>11, <1>0, JobStartPinsInv
<1>12. CASE ListAllPins \/ JobEnds \/ \E o, d \in BOOLEAN : Classify(o, d)
    BY <1>12, <1>0, JobReadsPinsInv
<1>13. CASE JobUnpin
    BY <1>13, <1>0, JobUnpinPinsInv
<1>14. CASE UNCHANGED vars
    BY <1>14, <1>0, PinPinsInv DEF vars, chainVars, pinVars, PinsInv, PinsOK
<1> QED
    BY <1>4, <1>5, <1>6, <1>7, <1>8, <1>9, <1>10, <1>11, <1>12, <1>13, <1>14 DEF Next

\* The inductive invariant of the pins.
LEMMA PinsInvariance == Spec => []PinsInv
BY InitPinsInv, StepPinsInv, PTL DEF Spec

-----------------------------------------------------------------------------

\* The only step of a run that takes a pin away takes an orphan's.
LEMMA JobTakesOrphans ==
    ASSUME PinsInv, Next, job.pc = "unpin", job' # job, NEW c \in job.spared,
           pins[c] # "absent", pins'[c] = "absent"
    PROVE  Replaced(c)
<1>1. CASE JobUnpin
    <2>1. PICK d \in job.orphans : pins' \in {pins, [pins EXCEPT ![d] = "absent"]}
        BY <1>1 DEF JobUnpin
    <2>2. c = d
        <3>1. c \in Cids /\ DOMAIN pins = Cids
            BY DEF PinsInv, JobOK, PinsOK
        <3>2. pins' # pins
            BY DEF PinsOK
        <3>3. pins' = [pins EXCEPT ![d] = "absent"]
            BY <2>1, <3>2
        <3> QED
            BY <3>1, <3>3
    <2> QED
        BY <2>1, <2>2 DEF PinsInv, JobHolds
<1>2. ASSUME job' = job \/ pins' = pins PROVE FALSE
    BY <1>2
<1>3. CASE JobStart \/ ListAllPins \/ JobEnds \/ \E o, d \in BOOLEAN : Classify(o, d)
    BY <1>2, <1>3 DEF JobStart, ListAllPins, JobEnds, Classify, pinVars
<1>4. CASE IndexerLearns \/ LateInclusion \/ \E d \in Cids : GraceEnds(d)
    BY <1>2, <1>4 DEF IndexerLearns, LateInclusion, GraceEnds
<1>5. ASSUME NEW w \in Wallets,
             \/ \E t \in Tokens, image \in Images : Confirm(w, t, image)
             \/ UploadImage(w) \/ UploadJson(w) \/ UploadFails(w)
             \/ Submit(w) \/ Included(w)
             \/ LinkSucceeds(w) \/ JudgedNotApplied(w) \/ Unconfirmed(w) \/ Abandon(w)
      PROVE  FALSE
    BY <1>2, <1>5 DEF Confirm, UploadImage, UploadJson, UploadFails, Submit, Included,
       LinkSucceeds, JudgedNotApplied, Unconfirmed, Abandon
<1>6. ASSUME NEW q \in unpins, Unpin(q) PROVE FALSE
    BY <1>2, <1>6 DEF Unpin, formVars
<1> QED
    BY <1>1, <1>3, <1>4, <1>5, <1>6 DEF Next

\* A run of the job removes no pin that was young, and no document that was
\* served, when it began, unless the document's token was given another one.
THEOREM JobSpares == Spec => JobSparesUploadsAndReferences
<1>1. PinsInv /\ [Next]_vars => [SparingStep]_vars
    BY JobTakesOrphans DEF SparingStep, Replaced
<1> QED
    BY <1>1, PinsInvariance, PTL DEF Spec, JobSparesUploadsAndReferences

=============================================================================
