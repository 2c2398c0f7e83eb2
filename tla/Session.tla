------------------------------- MODULE Session -------------------------------
(***************************************************************************)
(* The browser session of the web client (src/frontend/lib/session.ts, the *)
(* request path of lib/api.ts, lib/hooks/use-auth.ts).                     *)
(*                                                                         *)
(* Tabs share the tokens and a refresh lock through localStorage; a tab    *)
(* keeps the token its components render with, and at most one exchange of *)
(* the refresh token in flight.  A request that is answered 401 exchanges  *)
(* the refresh token, or waits for the tab that does, and is sent once     *)
(* more.  A verdict that stays null signs every tab out.                   *)
(*                                                                         *)
(* The access and the refresh token are written and removed together, so a *)
(* pair is one number, 0 when there is none; the server hands them out in  *)
(* order and each belongs to one login.                                    *)
(***************************************************************************)
EXTENDS Integers, FiniteSets

CONSTANTS
    Tabs,      \* browser tabs of one profile
    Requests,  \* requests the pages make
    Of,        \* Of[r]: the tab that makes request r
    Guarded,   \* requests answered 401 for a reason other than the session
    NoTab,     \* the lock when nobody's stamp is there
    MaxPairs,  \* bound: token pairs the server hands out
    MaxMoves,  \* bound: sign-ins, sign-outs, reloads and logins the server ends
    MaxLapses  \* bound: exchanges lost, killed, raced or slower than the lock

ASSUME SessionAssumption ==
    /\ IsFiniteSet(Tabs) /\ IsFiniteSet(Requests)
    /\ Of \in [Requests -> Tabs]
    /\ Guarded \subseteq Requests
    /\ NoTab \notin Tabs
    /\ MaxPairs \in Nat \ {0} /\ MaxLapses \in Nat /\ MaxMoves \in Nat

VARIABLES
    stored,    \* the pair in localStorage
    lock,      \* the tab whose stamp is under mirror_refresh_lock
    expired,   \* that stamp is _LOCK_TTL old
    view,      \* view[t]: the token useSession gives t's components
    leaving,   \* leaving[t]: window.location.href was set, t is not unloaded yet
    exch,      \* exch[t]: where t's _refreshInFlight is
    using,     \* using[t]: the pair it presents
    got,       \* got[t]: the pair it was answered with
    pc,        \* pc[r]: where request r is
    tok,       \* tok[r]: the token it carries
    original,  \* original[r]: what waitForAccessTokenChange compares with
    minted,    \* how many pairs the server handed out
    login,     \* login[n]: the first pair of the login that pair n belongs to
    rotated,   \* pairs whose refresh token was used
    ended,     \* logins the server ended
    stale,     \* pairs whose access token is past its expiry
    presented, \* presented[n]: how often refresh token n reached the server
    lapses, moves

storage == <<stored, lock, expired>>
tab     == <<view, leaving, exch, using, got>>
request == <<pc, tok, original>>
server  == <<minted, login, rotated, ended, stale, presented>>
bounds  == <<lapses, moves>>
vars    == <<storage, tab, request, server, bounds>>

Pairs == 1..MaxPairs
\* A request is over when it was answered, failed or went with its page; it is
\* "out" when it signed the user out.
Over  == {"over", "out"}

\* A token pair is signed in at the start; every tab bootstrapped from storage.
Init ==
    /\ stored = 1 /\ lock = NoTab /\ expired = FALSE
    /\ view = [t \in Tabs |-> 1]
    /\ leaving = [t \in Tabs |-> FALSE]
    /\ exch = [t \in Tabs |-> "none"]
    /\ using = [t \in Tabs |-> 0] /\ got = [t \in Tabs |-> 0]
    /\ pc = [r \in Requests |-> "new"]
    /\ tok = [r \in Requests |-> 0] /\ original = [r \in Requests |-> 0]
    /\ minted = 1 /\ login = [n \in Pairs |-> 1]
    /\ rotated = {} /\ ended = {} /\ stale = {}
    /\ presented = [n \in Pairs |-> 0]
    /\ lapses = 0 /\ moves = 0

Lapse == lapses < MaxLapses /\ lapses' = lapses + 1
Move  == moves < MaxMoves /\ moves' = moves + 1

Mine(t) == {r \in Requests : Of[r] = t}

\* Faulty variant: the stamp is ignored.
AlwaysFree == TRUE
\* acquireRefreshLock finds no stamp younger than its time to live.
LockIsFree == lock = NoTab \/ expired

\* Requests that poll for a lock which is over: their own timer may fire.
Overdue(p) == [r \in Requests |-> IF p[r] = "waiting" THEN "overdue" ELSE p[r]]

setSessionTokens(t, n) == stored' = n /\ view' = [view EXCEPT ![t] = n]

\* Only tab t is told: the session event does not cross tabs.
clearSessionTokens(t) == setSessionTokens(t, 0)

\* The stamp is removed, whoever's it is.
releaseRefreshLock == lock' = NoTab /\ expired' = FALSE

\* No token came for these requests of tab t, in a turn that leaves the others
\* as p: those whose 401 was about the session call forceLogout, which clears
\* the tokens of every tab and sends t to /login; the others throw.
GivesUp(S, t, p) ==
    /\ pc' = [r \in Requests |->
                 IF r \notin S THEN p[r] ELSE IF r \in Guarded THEN "over" ELSE "out"]
    /\ \/ S \subseteq Guarded /\ UNCHANGED <<stored, view, leaving>>
       \/ ~(S \subseteq Guarded)
          /\ clearSessionTokens(t)
          /\ leaving' = [leaving EXCEPT ![t] = TRUE]

-----------------------------------------------------------------------------
(* request(): send, hear, refresh once, send once more. *)

Send(r) ==
    /\ pc[r] = "new"
    /\ view[Of[r]] # 0 /\ ~leaving[Of[r]]
    /\ pc' = [pc EXCEPT ![r] = "sent"]
    /\ tok' = [tok EXCEPT ![r] = view[Of[r]]]
    /\ UNCHANGED <<original, storage, tab, server, bounds>>

Accepted(r) == r \notin Guarded /\ tok[r] \notin stale

Denied(r) == r \in Guarded \/ tok[r] \in stale \/ login[tok[r]] \in ended

\* Bound: a pair is left for whoever is about to ask for one.
PairsLeft ==
    minted + Cardinality({r \in Requests : pc[r] \in {"denied", "joined", "waiting", "overdue"}})
        < MaxPairs

\* The server answers; a 401 to a request that was sent again is final.
Answer(r) ==
    /\ \/ pc[r] \in {"sent", "again"} /\ Accepted(r)
          /\ pc' = [pc EXCEPT ![r] = "over"]
       \/ pc[r] = "sent" /\ Denied(r) /\ PairsLeft
          /\ pc' = [pc EXCEPT ![r] = "denied"]
       \/ pc[r] = "again" /\ Denied(r)
          /\ pc' = [pc EXCEPT ![r] = "refused"]
    /\ UNCHANGED <<tok, original, storage, tab, server, bounds>>

\* The second 401 arrives: it is not refreshed again.
RefusedTwice(r) ==
    /\ pc[r] = "refused"
    /\ GivesUp({r}, Of[r], pc)
    /\ UNCHANGED <<tok, original, lock, expired, exch, using, got, server, bounds>>

\* withTimeout aborts the fetch, or it is rejected.
TimesOut(r) ==
    /\ pc[r] \in {"sent", "again"}
    /\ pc' = [pc EXCEPT ![r] = "over"]
    /\ UNCHANGED <<tok, original, storage, tab, server, bounds>>

\* tryRefreshToken: the tab's own exchange is shared.
Joins(r) ==
    /\ pc[r] = "denied"
    /\ exch[Of[r]] # "none"
    /\ pc' = [pc EXCEPT ![r] = "joined"]
    /\ UNCHANGED <<tok, original, storage, tab, server, bounds>>

\* There is no refresh token to exchange.
NothingToExchange(r) ==
    /\ pc[r] = "denied"
    /\ exch[Of[r]] = "none"
    /\ stored = 0
    /\ GivesUp({r}, Of[r], pc)
    /\ UNCHANGED <<tok, original, lock, expired, exch, using, got, server, bounds>>

\* Another tab's stamp is there: wait for the token it writes.
WaitsForTab(r) ==
    /\ pc[r] = "denied"
    /\ exch[Of[r]] = "none"
    /\ stored # 0 /\ ~LockIsFree
    /\ pc' = [pc EXCEPT ![r] = "waiting"]
    /\ original' = [original EXCEPT ![r] = stored]
    /\ UNCHANGED <<tok, storage, tab, server, bounds>>

\* The stamp is read and then written: two tabs may both find it free.
MayTake == \/ LockIsFree /\ UNCHANGED lapses
           \/ ~LockIsFree /\ Lapse
Exchanges(r) ==
    /\ pc[r] = "denied"
    /\ exch[Of[r]] = "none"
    /\ stored # 0
    /\ MayTake
    /\ lock' = Of[r] /\ expired' = FALSE
    /\ exch' = [exch EXCEPT ![Of[r]] = "posting"]
    /\ using' = [using EXCEPT ![Of[r]] = stored]
    /\ pc' = [Overdue(pc) EXCEPT ![r] = "joined"]
    /\ UNCHANGED <<stored, view, leaving, got, tok, original, server, moves>>

-----------------------------------------------------------------------------
(* POST /auth/refresh. *)

\* An exchange that is over leaves nothing behind in its tab.
Forgotten(t) ==
    /\ using' = [using EXCEPT ![t] = 0]
    /\ got' = [got EXCEPT ![t] = 0]

\* The server takes a refresh token once and hands out the next pair.
Rotates(t) ==
    /\ exch[t] = "posting"
    /\ using[t] \notin rotated /\ login[using[t]] \notin ended
    /\ minted < MaxPairs
    /\ minted' = minted + 1
    /\ login' = [login EXCEPT ![minted + 1] = login[using[t]]]
    /\ rotated' = rotated \cup {using[t]}
    /\ presented' = [presented EXCEPT ![using[t]] = @ + 1]
    /\ exch' = [exch EXCEPT ![t] = "granted"]
    /\ got' = [got EXCEPT ![t] = minted + 1]
    /\ UNCHANGED <<ended, stale, storage, view, leaving, using, request, bounds>>

\* A used token, or one of a login that is over, is refused; a reuse may end
\* the login.
Refuses(t) ==
    /\ exch[t] = "posting"
    /\ using[t] \in rotated \/ login[using[t]] \in ended
    /\ presented' = [presented EXCEPT ![using[t]] = @ + 1]
    /\ ended' \in {ended, ended \cup {login[using[t]]}}
    /\ exch' = [exch EXCEPT ![t] = "refused"]
    /\ UNCHANGED <<minted, login, rotated, stale, storage, view, leaving, using,
                   got, request, bounds>>

\* The exchange fails on its way there or back.
ExchangeLost(t) ==
    /\ exch[t] \in {"posting", "granted"}
    /\ Lapse
    /\ exch' = [exch EXCEPT ![t] = "refused"]
    /\ UNCHANGED <<storage, view, leaving, using, got, request, server, moves>>

\* setSessionTokens, and every request that shares the exchange is sent again.
ExchangeEnds(t) ==
    /\ exch[t] = "granted"
    /\ setSessionTokens(t, got[t])
    /\ pc' = [r \in Requests |-> IF r \in Mine(t) /\ pc[r] = "joined"
                                 THEN "again" ELSE Overdue(pc)[r]]
    /\ tok' = [r \in Requests |-> IF r \in Mine(t) /\ pc[r] = "joined"
                                  THEN got[t] ELSE tok[r]]
    /\ exch' = [exch EXCEPT ![t] = "none"]
    /\ releaseRefreshLock
    /\ Forgotten(t)
    /\ UNCHANGED <<leaving, original, server, bounds>>

\* Faulty variant: the requests that share the exchange never hear of it.
FailsAlone(t) ==
    /\ exch[t] = "refused"
    /\ pc' = Overdue(pc)
    /\ exch' = [exch EXCEPT ![t] = "none"]
    /\ releaseRefreshLock
    /\ Forgotten(t)
    /\ UNCHANGED <<stored, view, leaving, tok, original, server, bounds>>
ExchangeFails(t) ==
    /\ exch[t] = "refused"
    /\ GivesUp({r \in Mine(t) : pc[r] = "joined"}, t, Overdue(pc))
    /\ exch' = [exch EXCEPT ![t] = "none"]
    /\ releaseRefreshLock
    /\ Forgotten(t)
    /\ UNCHANGED <<tok, original, server, bounds>>

\* The stamp reaches its time to live: its tab is gone, or slower than that.
LockExpires ==
    /\ lock # NoTab /\ ~expired
    /\ \/ exch[lock] = "none" /\ UNCHANGED lapses
       \/ exch[lock] # "none" /\ Lapse
    /\ expired' = TRUE
    /\ pc' = Overdue(pc)
    /\ UNCHANGED <<stored, lock, tok, original, tab, server, moves>>

\* waitForAccessTokenChange: a token other than the one it began with.
TokenChanged(r) ==
    /\ pc[r] \in {"waiting", "overdue"}
    /\ stored \notin {0, original[r]}
    /\ pc' = [pc EXCEPT ![r] = "again"]
    /\ tok' = [tok EXCEPT ![r] = stored]
    /\ original' = [original EXCEPT ![r] = 0]
    /\ UNCHANGED <<storage, tab, server, bounds>>

\* Faulty variant: the timer is shorter than the lock.
WaitsTooShort(r) ==
    /\ pc[r] \in {"waiting", "overdue"}
    /\ stored \in {0, original[r]}
    /\ GivesUp({r}, Of[r], pc)
    /\ UNCHANGED <<tok, original, lock, expired, exch, using, got, server, bounds>>
\* No such token for as long as a stamp lives.
WaitsInVain(r) ==
    /\ pc[r] = "overdue"
    /\ stored \in {0, original[r]}
    /\ GivesUp({r}, Of[r], pc)
    /\ UNCHANGED <<tok, original, lock, expired, exch, using, got, server, bounds>>

-----------------------------------------------------------------------------
(* What ends a session, and what starts one. *)

\* A page goes: its requests and its exchange go with it, its stamp stays.
Gone(t) ==
    /\ pc' = [r \in Requests |-> IF r \in Mine(t) /\ pc[r] \notin Over \cup {"new"}
                                 THEN "over" ELSE pc[r]]
    /\ exch' = [exch EXCEPT ![t] = "none"]
    /\ Forgotten(t)
    /\ leaving' = [leaving EXCEPT ![t] = FALSE]
    /\ UNCHANGED <<tok, original>>

\* The navigation to /login unloads the page.
Unloads(t) ==
    /\ leaving[t]
    /\ Gone(t)
    /\ lapses' = lapses + (IF exch[t] = "none" THEN 0 ELSE 1)
    /\ view' = [view EXCEPT ![t] = stored]
    /\ UNCHANGED <<storage, server, moves>>

\* The tab is reloaded; bootstrapSession takes the token that is stored.
Reloads(t) ==
    /\ ~leaving[t]
    /\ Move
    /\ Gone(t)
    /\ \/ exch[t] = "none" /\ UNCHANGED lapses
       \/ exch[t] # "none" /\ Lapse
    /\ view' = [view EXCEPT ![t] = stored]
    /\ UNCHANGED <<storage, server>>

\* useAuth's signOut; the other tabs are not told.
SignsOut(t) ==
    /\ view[t] # 0 /\ ~leaving[t]
    /\ Move
    /\ clearSessionTokens(t)
    /\ UNCHANGED <<lock, expired, leaving, exch, using, got, request, server, lapses>>

\* The login form of a signed-out tab.
SignsIn(t) ==
    /\ view[t] = 0 /\ ~leaving[t]
    /\ Move
    /\ PairsLeft
    /\ minted' = minted + 1
    /\ login' = [login EXCEPT ![minted + 1] = minted + 1]
    /\ setSessionTokens(t, minted + 1)
    /\ UNCHANGED <<lock, expired, leaving, exch, using, got, request, rotated,
                   ended, stale, presented, lapses>>

\* An access token expires; it lives far longer than the second try of a
\* request that waits for it.
Expires(n) ==
    /\ n \in {stored} \cup {view[t] : t \in Tabs}
    /\ \A r \in Requests : pc[r] \in Over \cup {"new", "sent", "denied"}
    /\ stale' = stale \cup {n}
    /\ UNCHANGED <<minted, login, rotated, ended, presented, storage, tab, request,
                   bounds>>

\* The server ends a login: the account is deleted, its password changes.
Ends(n) ==
    /\ n = stored
    /\ Move
    /\ ended' = ended \cup {login[n]}
    /\ UNCHANGED <<minted, login, rotated, stale, presented, storage, tab, request,
                   lapses>>

Progress(r) ==
    \/ Answer(r) \/ Joins(r) \/ NothingToExchange(r) \/ WaitsForTab(r) \/ Exchanges(r)
    \/ TokenChanged(r) \/ WaitsInVain(r) \/ RefusedTwice(r)

Exchange(t) ==
    Rotates(t) \/ Refuses(t) \/ ExchangeEnds(t) \/ ExchangeFails(t)

Next ==
    \/ \E r \in Requests : Send(r) \/ Progress(r) \/ TimesOut(r)
    \/ \E t \in Tabs : Exchange(t) \/ ExchangeLost(t) \/ Unloads(t) \/ Reloads(t)
                       \/ SignsOut(t) \/ SignsIn(t)
    \/ \E n \in Pairs : Expires(n) \/ Ends(n)
    \/ LockExpires

Spec == Init /\ [][Next]_vars

\* Pages run and the network answers, if only with an error; a stamp grows old.
FairSpec ==
    /\ Spec
    /\ \A r \in Requests : WF_vars(Progress(r)) /\ WF_vars(TimesOut(r))
    /\ \A t \in Tabs : WF_vars(Exchange(t)) /\ WF_vars(Unloads(t))
    /\ WF_vars(LockExpires)

-----------------------------------------------------------------------------
(***************************************************************************)
(* What the session promises.                                              *)
(***************************************************************************)
StorageTypes ==
    stored \in 0..MaxPairs /\ lock \in Tabs \cup {NoTab} /\ expired \in BOOLEAN

TabTypes ==
    /\ view \in [Tabs -> 0..MaxPairs] /\ leaving \in [Tabs -> BOOLEAN]
    /\ exch \in [Tabs -> {"none", "posting", "granted", "refused"}]
    /\ using \in [Tabs -> 0..MaxPairs] /\ got \in [Tabs -> 0..MaxPairs]
    /\ \A t \in Tabs : exch[t] # "none" => using[t] # 0
    /\ \A t \in Tabs : exch[t] = "granted" => got[t] # 0

RequestTypes ==
    /\ pc \in [Requests -> Over \cup {"new", "sent", "denied", "joined", "waiting",
                                      "overdue", "again", "refused"}]
    /\ tok \in [Requests -> 0..MaxPairs] /\ original \in [Requests -> 0..MaxPairs]

ServerTypes ==
    /\ minted \in Pairs /\ login \in [Pairs -> Pairs]
    /\ rotated \subseteq Pairs /\ ended \subseteq Pairs /\ stale \subseteq Pairs
    /\ presented \in [Pairs -> Nat] /\ lapses \in Nat /\ moves \in Nat

TypeOK == StorageTypes /\ TabTypes /\ RequestTypes /\ ServerTypes

\* Parallel 401s share one exchange: a refresh token reaches the server once
\* while its login lasts.
PresentedOnce ==
    lapses = 0 => \A n \in Pairs : login[n] \in ended \/ presented[n] <= 1

\* A forced logout does not take a login the server still honours: neither a
\* wait that was too short nor a lost race signs the user out.
NoFalseLogout ==
    [][\A r \in Requests :
          pc[r] # "out" /\ pc'[r] = "out" /\ stored # 0 /\ lapses = 0
              => (login[stored] = login[tok[r]] => login[stored] \in ended)]_vars

\* Every request ends: answered, failed, or with its page.
RequestsEnd == \A r \in Requests : pc[r] = "sent" ~> pc[r] \in Over
=============================================================================
