---------------------------- MODULE UploadLogin ----------------------------
(***************************************************************************)
(* How an upload proves its wallet (src/frontend/src/services/auth.ts,     *)
(* src/api/auth/challenge.ts over challengeStore.ts, jwt.ts, http.ts).     *)
(* A login gets a challenge, has Freighter sign it and posts the signature *)
(* for a token, which the browser keeps for the next uploads.  Two tabs    *)
(* share that copy; the store holds one challenge per wallet, whichever    *)
(* tab asked.  Calls of the store fail, applied or not; a page is left at  *)
(* any point while the server goes on.                                     *)
(***************************************************************************)
EXTENDS Naturals

CONSTANTS
    Accounts,       \* wallets
    Tabs,           \* pages that upload
    ChallengeLife,  \* CHALLENGE_TTL
    TokenLife,      \* issueToken(address, 5 minutes)
    CacheLife,      \* cacheToken: 4.5 minutes
    MaxDrawn,       \* bound on the challenges drawn
    MaxTime         \* bound on the clock

ASSUME LivesAssumption == CacheLife \in Nat /\ TokenLife \in Nat /\ CacheLife <= TokenLife

VARIABLES
    now,
    stored,     \* the challenge store: per wallet a challenge and its expiry
    drawn,      \* challenges drawn so far; the last one's number
    tab,        \* per tab, the getUploadToken and the upload under way
    posts,      \* the POST handlers under way
    answers,    \* their answers that have not arrived
    kept,       \* localStorage: a token, and until when it is used
    displaced,  \* history: challenges that another login overwrote or deleted
    redeemed    \* history: challenges for which a token was issued

loginVars == <<now, stored, drawn, tab, posts, answers, kept, displaced, redeemed>>

Nothing == [value |-> 0, till |-> 0]   \* no challenge; challenges count from 1
NoToken == [issued |-> 0, received |-> 0, till |-> 0]
NotUploading == [step |-> "idle"]

LoginInit ==
    /\ now = 1
    /\ stored = [a \in Accounts |-> Nothing]
    /\ drawn = 0
    /\ tab = [t \in Tabs |-> NotUploading]
    /\ posts = {}
    /\ answers = {}
    /\ kept = NoToken
    /\ displaced = {}
    /\ redeemed = {}

Tick ==
    /\ now < MaxTime
    /\ now' = now + 1
    /\ UNCHANGED <<stored, drawn, tab, posts, answers, kept, displaced, redeemed>>

-----------------------------------------------------------------------------
(* The store *)

Pending(a) == IF stored[a].till >= now THEN stored[a].value ELSE 0

\* An earlier challenge is lost to its login.
PutChallenge(a, c) ==
    /\ stored' = [stored EXCEPT ![a] = [value |-> c, till |-> now + ChallengeLife]]
    /\ displaced' = displaced \cup ({stored[a].value} \ {0})

\* The deletion is by wallet: what it removes may not be the challenge that
\* was read.
DeleteChallenge(p) ==
    /\ stored' = [stored EXCEPT ![p.wallet] = Nothing]
    /\ displaced' = displaced \cup ({stored[p.wallet].value} \ {0, p.signed})

-----------------------------------------------------------------------------
(* The browser *)

\* A token that is still kept is used, whichever wallet it was issued to.
UseCached(t) ==
    /\ tab[t] = NotUploading
    /\ kept # NoToken
    /\ now <= kept.till
    /\ tab' = [tab EXCEPT ![t] = [step |-> "upload", token |-> kept, taken |-> now]]
    /\ UNCHANGED <<now, stored, drawn, posts, answers, kept, displaced, redeemed>>

\* handleGetChallenge: the wallet gets the challenge once it is stored.  The
\* login ends here when it is rate limited, when the store fails, or when the
\* answer is lost.
GetChallenge(t, a) ==
    /\ tab[t] = NotUploading
    /\ now > kept.till
    /\ drawn < MaxDrawn
    /\ kept' = NoToken
    /\ drawn' = drawn + 1
    /\ \/ /\ PutChallenge(a, drawn + 1)
          /\ \/ tab' = [tab EXCEPT ![t] = [step |-> "sign", wallet |-> a,
                                           challenge |-> drawn + 1]]
             \/ UNCHANGED tab
       \/ UNCHANGED <<stored, displaced, tab>>
    /\ UNCHANGED <<now, posts, answers, redeemed>>

Post(a, c, step) == [wallet |-> a, signed |-> c, step |-> step]

SignAndPost(t) ==
    /\ tab[t].step = "sign"
    /\ tab' = [tab EXCEPT ![t] = [step |-> "wait", challenge |-> tab[t].challenge]]
    /\ posts' = posts \cup {Post(tab[t].wallet, tab[t].challenge, "arrived")}
    /\ UNCHANGED <<now, stored, drawn, answers, kept, displaced, redeemed>>

\* The wallet declined, a request failed, or the page was left.
LeaveUpload(t) ==
    /\ tab[t] # NotUploading
    /\ tab' = [tab EXCEPT ![t] = NotUploading]
    /\ UNCHANGED <<now, stored, drawn, posts, answers, kept, displaced, redeemed>>

-----------------------------------------------------------------------------
(* handleVerifyChallenge *)

Answer(p, status) ==
    [to |-> p.signed, status |-> status,
     issued |-> IF status = 200 THEN now ELSE 0,
     late |-> stored[p.wallet].value = p.signed /\ Pending(p.wallet) = 0]

Refuse(p, status) ==
    /\ answers' = answers \cup {Answer(p, status)}
    /\ posts' = posts \ {p}

\* What getChallenge may report.
ReadChallenge_OutageIsAbsence(p) == {Pending(p.wallet), 0}

ReadChallenge(p) == {Pending(p.wallet)}

\* Rate limited; or the read failed, or found nothing, or found a challenge.
VerifyChallenge(p) ==
    /\ p.step = "arrived"
    /\ \/ Refuse(p, 429)
       \/ Refuse(p, 500)
       \/ \E value \in ReadChallenge(p) :
            \/ value = 0 /\ Refuse(p, 400)
            \/ /\ value = p.signed
               /\ posts' = (posts \ {p}) \cup {Post(p.wallet, p.signed, "verified")}
               /\ UNCHANGED answers
            \/ /\ value \notin {0, p.signed}
               /\ answers' = answers \cup {Answer(p, 401)}
               /\ posts' = (posts \ {p}) \cup {Post(p.wallet, p.signed, "refused")}
    /\ UNCHANGED <<now, stored, drawn, tab, kept, displaced, redeemed>>

\* A refusal was answered before its deletion, so the wallet may have drawn
\* another challenge by now.
DeleteAfterRefusal(p) ==
    /\ p.step = "refused"
    /\ posts' = posts \ {p}
    /\ DeleteChallenge(p) \/ UNCHANGED <<stored, displaced>>
    /\ UNCHANGED <<now, drawn, tab, answers, kept, redeemed>>

\* Without a deletion there is no token.
Redeem_FailedDeletion(p) ==
    /\ answers' = answers \cup {Answer(p, 200)}
    /\ redeemed' = redeemed \cup {p.signed}
    /\ DeleteChallenge(p) \/ UNCHANGED <<stored, displaced>>

Redeem(p) ==
    \/ /\ DeleteChallenge(p)
       /\ answers' = answers \cup {Answer(p, 200)}
       /\ redeemed' = redeemed \cup {p.signed}
    \/ /\ DeleteChallenge(p) \/ UNCHANGED <<stored, displaced>>
       /\ answers' = answers \cup {Answer(p, 500)}
       /\ UNCHANGED redeemed

IssueToken(p) ==
    /\ p.step = "verified"
    /\ posts' = posts \ {p}
    /\ Redeem(p)
    /\ UNCHANGED <<now, drawn, tab, kept>>

-----------------------------------------------------------------------------
\* cacheToken: until when a token received now is used.
KeptUntil_TokenLife == now + TokenLife

KeptUntil == now + CacheLife

Received(a) == [issued |-> a.issued, received |-> now, till |-> KeptUntil]

\* The login that waits for the answer goes on with it; localStorage may not
\* take the token.
AnswerArrives(a) ==
    /\ answers' = answers \ {a}
    /\ IF \E t \in Tabs : tab[t].step = "wait" /\ tab[t].challenge = a.to
       THEN LET t == CHOOSE u \in Tabs : tab[u].step = "wait" /\ tab[u].challenge = a.to
            IN IF a.status = 200
               THEN /\ tab' = [tab EXCEPT ![t] = [step |-> "upload", token |-> Received(a),
                                                  taken |-> now]]
                    /\ kept' \in {kept, Received(a)}
               ELSE /\ tab' = [tab EXCEPT ![t] = NotUploading]
                    /\ UNCHANGED kept
       ELSE UNCHANGED <<tab, kept>>
    /\ UNCHANGED <<now, stored, drawn, posts, displaced, redeemed>>

\* verifyToken, for a request that carries the token.
Expired(token) == now > token.issued + TokenLife

\* The image, then the metadata, with one token.
UploadArrives(t) ==
    /\ tab[t].step = "upload"
    /\ IF Expired(tab[t].token)
       THEN tab' = [tab EXCEPT ![t] = [step |-> "refused", token |-> tab[t].token,
                                       delay |-> now - tab[t].taken]]
       ELSE tab' \in {tab, [tab EXCEPT ![t] = NotUploading]}
    /\ UNCHANGED <<now, stored, drawn, posts, answers, kept, displaced, redeemed>>

LoginNext ==
    \/ Tick
    \/ \E t \in Tabs :
         \/ UseCached(t)
         \/ \E a \in Accounts : GetChallenge(t, a)
         \/ SignAndPost(t)
         \/ LeaveUpload(t)
         \/ UploadArrives(t)
    \/ \E p \in posts : VerifyChallenge(p) \/ DeleteAfterRefusal(p) \/ IssueToken(p)
    \/ \E a \in answers : AnswerArrives(a)

LoginSpec == LoginInit /\ [][LoginNext]_loginVars

-----------------------------------------------------------------------------
(* Properties *)

\* A challenge that bought a token is not in the store: nobody can buy a
\* second token with it later, whatever deletions failed meanwhile.
OneTimeUse == \A a \in Accounts : stored[a].value \notin redeemed

\* A login that signs correctly is told that its challenge is missing or its
\* signature wrong only when another login of that wallet replaced or removed
\* the challenge, or the challenge outlived its term; never because the store
\* failed, and never when it is alone.
RefusalsExplained ==
    \A a \in answers :
        a.status \in {400, 401} => a.to \in displaced \/ a.late

\* A token that getUploadToken handed out is refused as expired only if the
\* answer that brought it and the request that carries it were delayed by more
\* than the margin between the two lives.
CachedTokenAccepted ==
    \A t \in Tabs : tab[t].step = "refused" =>
        (tab[t].token.received - tab[t].token.issued) + tab[t].delay > TokenLife - CacheLife
=============================================================================
