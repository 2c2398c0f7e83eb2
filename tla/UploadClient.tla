----------------------------- MODULE UploadClient -----------------------------
(***************************************************************************)
(* The browser's side of a CV upload (src/frontend/lib/api.ts beginCVUpload*)
(* to _resolveUploadResult, lib/cv-upload-queue.ts, cv-upload-storage.ts,  *)
(* cv-upload-state.ts, app/(authed)/cv/page.tsx, components/cv/            *)
(* cv-upload-lifecycle-observer.tsx).                                      *)
(*                                                                         *)
(* A picked file is held in IndexedDB while its bytes go to storage, or by *)
(* multipart POST; a cut upload is resumed from there with its idempotency *)
(* key.  The accepted job's id is persisted, and an observer in each tab   *)
(* polls it to its end.  The key, the job id and the held file are one     *)
(* slot each, shared by every tab and every account of the browser.        *)
(*                                                                         *)
(* The server is CvUpload's, seen through its replies: a job per account   *)
(* and key, which a second request with that key is answered from.         *)
(***************************************************************************)
EXTENDS Integers, FiniteSets

CONSTANTS
    Tabs,
    Flows,       \* uploads a tab can have under way
    Of,          \* Of[u]: the tab of upload u
    Accounts,
    First,       \* the account that is signed in at the start
    Files,
    MaxPicks,    \* bound: files the user picks
    MaxKeys,     \* bound: idempotency keys that are generated
    MaxAttempts, \* _CV_UPLOAD_POST_MAX_ATTEMPTS
    Faults,      \* what may go wrong or be done: see Fault
    MaxFaults,   \* bound: how often
    MaxEvents    \* bound: picks and faults together

ASSUME ClientAssumption ==
    /\ IsFiniteSet(Tabs) /\ IsFiniteSet(Flows)
    /\ Of \in [Flows -> Tabs]
    /\ First \in Accounts
    /\ MaxPicks \in Nat /\ MaxKeys \in Nat /\ MaxAttempts \in Nat \ {0}
    /\ MaxFaults \in Nat /\ MaxEvents \in Nat

Picks == 1..MaxPicks
Keys  == 1..MaxKeys
Jobs  == Accounts \X Keys
NoJob == <<>>
NoKey == 0
Empty == [pick |-> 0, key |-> NoKey, owner |-> First]

VARIABLES
    idem,     \* localStorage: the idempotency key
    jobId,    \* localStorage: the accepted job
    stash,    \* IndexedDB: the held file, its key and its owner
    session,  \* the account whose tokens are stored
    user,     \* user[t]: the account whose token tab t renders with
    inFlight, \* inFlight[t]: uploadInFlightRef
    track,    \* track[t][j]: t's observer polls j, "live", or for a token it had: "deaf"
    active,   \* active[t]: activeJobRef
    pc,       \* pc[u]: where upload u is
    kind,     \* kind[u]: "begin" (beginCVUpload) or "whole" (uploadCV)
    pick,     \* pick[u]: the pick it carries
    key,      \* key[u]: its idempotency key
    auth,     \* auth[u]: the account its token is of
    tries,    \* tries[u]: multipart attempts that failed
    reply,    \* reply[u]: what it is answered, or throws
    picks,    \* how many files were picked
    keys,     \* how many keys were generated
    file,     \* file[p]: what pick p picked
    owner,    \* owner[p]: for which account
    st,       \* st[j]: the server's job of an account and a key
    made,     \* made[j]: the pick whose bytes it was made of
    object,   \* object[j]: the pick whose bytes are stored under that path
    held,     \* picks that were put in the stash
    answered, \* picks the server answered
    misled,   \* picks it answered about another file, or from an older failure
    crossed,  \* picks whose hold met another pick, or another account
    fatal,    \* picks whose upload failed for good with no answer
    strayed,  \* picks sent on with another account's token
    unheard,  \* accepted jobs polled with an old token, or another account's: see Meets
    faults

local  == <<idem, jobId, stash>>
tab    == <<session, user, inFlight, track, active>>
flow   == <<pc, kind, pick, key, auth, tries, reply>>
chosen == <<picks, keys, file, owner>>
server == <<st, made, object>>
ghosts == <<held, answered, misled, crossed, fatal, strayed, unheard>>
vars   == <<local, tab, flow, chosen, server, ghosts, faults>>

Init ==
    /\ idem = NoKey /\ jobId = NoJob /\ stash = Empty
    /\ session = First /\ user = [t \in Tabs |-> First]
    /\ inFlight = [t \in Tabs |-> FALSE]
    /\ track = [t \in Tabs |-> [j \in Jobs |-> "no"]]
    /\ active = [t \in Tabs |-> NoJob]
    /\ pc = [u \in Flows |-> "idle"] /\ kind = [u \in Flows |-> "begin"]
    /\ pick = [u \in Flows |-> 0] /\ key = [u \in Flows |-> NoKey]
    /\ auth = [u \in Flows |-> First] /\ tries = [u \in Flows |-> 0]
    /\ reply = [u \in Flows |-> "none"]
    /\ picks = 0 /\ keys = 0
    /\ file \in {[p \in Picks |-> f] : f \in Files}
    /\ owner = [p \in Picks |-> First]
    /\ st = [j \in Jobs |-> "none"] /\ made = [j \in Jobs |-> 0]
    /\ object = [j \in Jobs |-> 0]
    /\ held = {} /\ answered = {} /\ misled = {} /\ crossed = {}
    /\ fatal = {} /\ strayed = {} /\ unheard = {}
    /\ faults = 0

\* "radio": a POST is cut.  "finalize": the call after the direct transfer is.
\* "busy": the server answers 5xx or 429.  "auth": 401, the token is refreshed.
\* "logout": 401, it cannot be.  "reload", "switch", "token": what a tab does.
Fault(f) ==
    f \in Faults /\ faults < MaxFaults /\ faults + picks < MaxEvents /\ faults' = faults + 1

-----------------------------------------------------------------------------
(* cv-upload-storage.ts, cv-upload-queue.ts. *)

readOrCreateKey == IF idem = NoKey THEN keys + 1 ELSE idem

clearPendingCVUpload == stash' = Empty

\* The key goes with the job, whoever's they are.
clearCVUploadPersistence == idem' = NoKey /\ jobId' = NoJob

Carrying(u, p) ==
    pick[u] = p /\ pc[u] \in {"stash", "put", "finalize", "post", "hear"}

\* The picks an upload's hold collides with: uploadCV clears the slot when its
\* polls end, too.
Others(u) ==
    {p \in Picks \ {pick[u]} :
        stash.pick = p \/ \E v \in Flows : Carrying(v, p) \/ (pc[v] = "poll" /\ pick[v] = p)}

\* Upload u is over; the page takes another.
Ends(u) ==
    /\ pc' = [pc EXCEPT ![u] = "idle"]       /\ kind' = [kind EXCEPT ![u] = "begin"]
    /\ pick' = [pick EXCEPT ![u] = 0]        /\ key' = [key EXCEPT ![u] = NoKey]
    /\ auth' = [auth EXCEPT ![u] = First]    /\ tries' = [tries EXCEPT ![u] = 0]
    /\ reply' = [reply EXCEPT ![u] = "none"] /\ inFlight' = [inFlight EXCEPT ![Of[u]] = FALSE]

-----------------------------------------------------------------------------
(* handleUpload and beginCVUpload. *)

\* The guards are read before the file is looked at.
Pick(u, f) ==
    /\ pc[u] = "idle" /\ ~inFlight[Of[u]] /\ jobId = NoJob
    /\ picks < MaxPicks /\ picks + faults < MaxEvents
    /\ picks' = picks + 1
    /\ file' = [file EXCEPT ![picks + 1] = f]
    /\ owner' = [owner EXCEPT ![picks + 1] = user[Of[u]]]
    /\ pick' = [pick EXCEPT ![u] = picks + 1]
    /\ auth' = [auth EXCEPT ![u] = user[Of[u]]]
    /\ pc' = [pc EXCEPT ![u] = "preflight"]
    /\ UNCHANGED <<kind, key, tries, reply, keys, local, tab, server, ghosts, faults>>

\* The key an earlier upload left is used again.
Begin(u) ==
    /\ pc[u] = "preflight"
    /\ readOrCreateKey \in Keys
    /\ idem' = readOrCreateKey
    /\ keys' = IF idem = NoKey THEN keys + 1 ELSE keys
    /\ key' = [key EXCEPT ![u] = readOrCreateKey]
    /\ kind' = [kind EXCEPT ![u] = "begin"]
    /\ inFlight' = [inFlight EXCEPT ![Of[u]] = TRUE]
    /\ pc' = [pc EXCEPT ![u] = "stash"]
    /\ UNCHANGED <<jobId, stash, session, user, track, active, pick, auth, tries, reply,
                   picks, file, owner, server, ghosts, faults>>

\* stashPendingCVUpload: one slot for all.
Stash(u) ==
    /\ pc[u] = "stash"
    /\ stash' = [pick |-> pick[u], key |-> key[u], owner |-> auth[u]]
    /\ held' = held \cup {pick[u]}
    /\ crossed' = IF Others(u) = {} THEN crossed ELSE crossed \cup Others(u) \cup {pick[u]}
    /\ tries' = [tries EXCEPT ![u] = 0]
    /\ pc' = [pc EXCEPT ![u] = "put"]
    /\ UNCHANGED <<idem, jobId, tab, kind, pick, key, auth, reply, chosen, server,
                   answered, misled, fatal, strayed, unheard, faults>>

-----------------------------------------------------------------------------
(* _transferCV. *)

Job(u) == <<auth[u], key[u]>>

\* The bytes reach storage, over those of that key; or the transfer is given up
\* and the multipart POST takes over.
Put(u) ==
    /\ pc[u] = "put"
    /\ \/ object' = [object EXCEPT ![Job(u)] = pick[u]]
          /\ pc' = [pc EXCEPT ![u] = "finalize"]
       \/ pc' = [pc EXCEPT ![u] = "post"] /\ UNCHANGED object
    /\ UNCHANGED <<kind, pick, key, auth, tries, reply, local, tab, chosen, st, made,
                   ghosts, faults>>

\* The server's part of an upload of p's bytes: a known key is answered from its
\* job; else the file is refused, is one the account has, cannot be paid for,
\* or becomes a job.
Serves(j, p, r) ==
    \/ st[j] # "none" /\ r = st[j] /\ UNCHANGED <<st, made>>
    \/ st[j] = "none" /\ r \in {"refused", "done"} /\ UNCHANGED <<st, made>>
    \/ st[j] = "none" /\ r \in {"refused", "processing"}
       /\ st' = [st EXCEPT ![j] = IF r = "refused" THEN "failed" ELSE r]
       /\ made' = [made EXCEPT ![j] = p]

\* A reply to pick p from j's job is about another file, or is an older no.
Misleads(j, p) ==
    st[j] # "none" /\ made[j] # p /\ (file[made[j]] # file[p] \/ st[j] = "failed")

Hears(u, r) ==
    /\ pc' = [pc EXCEPT ![u] = "hear"]
    /\ reply' = [reply EXCEPT ![u] = r]

Answers == {"processing", "done", "failed", "refused"}

\* POST /cv/upload/finalize, from the stored bytes, which it then deletes; it is
\* a plain request, and one that is cut is no retryable failure.
Finalize(u) ==
    /\ pc[u] = "finalize"
    /\ \/ \E r \in Answers :
             /\ IF st[Job(u)] = "none" /\ object[Job(u)] = 0
                THEN r = "refused" /\ UNCHANGED <<st, made>>
                ELSE Serves(Job(u), object[Job(u)], r)
             /\ object' = IF st[Job(u)] = "none" THEN [object EXCEPT ![Job(u)] = 0]
                                                 ELSE object
             /\ \/ Hears(u, r) /\ UNCHANGED faults
                   /\ misled' = IF Misleads(Job(u), pick[u]) THEN misled \cup {pick[u]}
                                                            ELSE misled
                \/ Hears(u, "fatal") /\ Fault("finalize") /\ UNCHANGED misled
       \/ Hears(u, "fatal") /\ Fault("finalize") /\ UNCHANGED <<server, misled>>
       \/ Hears(u, "retryable") /\ Fault("busy") /\ UNCHANGED <<server, misled>>
    /\ UNCHANGED <<kind, pick, key, auth, tries, local, tab, chosen, held, answered,
                   crossed, fatal, strayed, unheard>>

\* Faulty variant: the attempts are counted from zero.
TriesOnceMore(u) ==
    IF tries[u] < MaxAttempts
    THEN tries' = [tries EXCEPT ![u] = @ + 1] /\ UNCHANGED <<pc, reply>>
    ELSE Hears(u, "retryable") /\ UNCHANGED tries
\* _postCVUpload: an attempt failed that may be made again.
TriesAgain(u) ==
    IF tries[u] + 1 < MaxAttempts
    THEN tries' = [tries EXCEPT ![u] = @ + 1] /\ UNCHANGED <<pc, reply>>
    ELSE Hears(u, "retryable") /\ UNCHANGED tries

\* Cut before its headers came, a request is made again; cut in the body of its
\* reply, it failed with an error that is no retryable one.
Post(u) ==
    /\ pc[u] = "post"
    /\ \/ \E r \in Answers :
             /\ Serves(Job(u), pick[u], r)
             /\ \/ Hears(u, r) /\ UNCHANGED <<tries, faults>>
                   /\ misled' = IF Misleads(Job(u), pick[u]) THEN misled \cup {pick[u]}
                                                            ELSE misled
                \/ TriesAgain(u) /\ Fault("radio") /\ UNCHANGED misled
                \/ Hears(u, "fatal") /\ Fault("radio") /\ UNCHANGED <<tries, misled>>
       \/ /\ TriesAgain(u) /\ (Fault("radio") \/ Fault("busy"))
          /\ UNCHANGED <<st, made, misled>>
    /\ UNCHANGED <<kind, pick, key, auth, object, local, tab, chosen, held, answered,
                   crossed, fatal, strayed, unheard>>

\* 401 and no token: forceLogout throws.
PostLogsOut(u) ==
    /\ pc[u] = "post" /\ Fault("logout")
    /\ Hears(u, "fatal")
    /\ UNCHANGED <<kind, pick, key, auth, tries, local, tab, chosen, server, ghosts>>

-----------------------------------------------------------------------------
(* What the page does with the reply. *)

\* A page comes upon job j: heard, when its poll has a token of j's account and
\* will tell the page of its end.  To any other account the status is a 404, which
\* is polled again for ever; the poll of an older token tells nobody.
Meets(j, heard) ==
    unheard' = IF j = NoJob THEN unheard
               ELSE IF heard THEN unheard \ {j} ELSE unheard \cup {j}

Tracked(t, j) ==
    /\ IF active[t] = j THEN UNCHANGED <<track, active>>
       ELSE /\ track' = [track EXCEPT ![t][j] = "live"]
            /\ active' = [active EXCEPT ![t] = j]
    /\ Meets(j, user[t] = j[1] /\ ~(active[t] = j /\ track[t][j] = "deaf"))

\* Faulty variant: a failure that may be retried drops the held file, too.
DropsAnyway(u) == TRUE
NothingToResume(u) == reply[u] # "retryable"

\* beginCVUpload leaves the key where it is, whatever the reply; uploadCV takes
\* it away when there is nothing to resume, and waits for an accepted job.
Hear(u) ==
    /\ pc[u] = "hear"
    /\ answered' = IF reply[u] \in Answers THEN answered \cup {pick[u]} ELSE answered
    /\ IF NothingToResume(u) THEN clearPendingCVUpload ELSE UNCHANGED stash
    /\ CASE reply[u] = "processing" -> jobId' = Job(u) /\ Tracked(Of[u], Job(u)) /\ UNCHANGED idem
         [] reply[u] # "processing" /\ kind[u] = "whole" /\ NothingToResume(u) ->
                clearCVUploadPersistence /\ UNCHANGED <<track, active, unheard>>
         [] OTHER -> UNCHANGED <<idem, jobId, track, active, unheard>>
    /\ IF reply[u] = "processing" /\ kind[u] = "whole"
       THEN /\ pc' = [pc EXCEPT ![u] = "poll"]
            /\ UNCHANGED <<kind, pick, key, auth, tries, reply, inFlight>>
       ELSE Ends(u)
    /\ fatal' = IF reply[u] = "fatal" THEN fatal \cup {pick[u]} ELSE fatal
    /\ UNCHANGED <<session, user, chosen, server, held, misled, crossed, strayed,
                   faults>>

Final(j) == st[j] \in {"done", "failed"}

\* uploadCV's own polls end with the job, or are given up and may be retried.
Poll(u) ==
    /\ pc[u] = "poll"
    /\ \/ Final(Job(u)) /\ clearCVUploadPersistence
          /\ stash' = IF st[Job(u)] = "failed" THEN Empty ELSE stash
       \/ UNCHANGED local
    /\ Ends(u)
    /\ UNCHANGED <<session, user, track, active, chosen, server, ghosts, faults>>

-----------------------------------------------------------------------------
(* resumeDeferredUpload and resumePendingCVUpload. *)

\* hasPendingCVUpload, then the page is busy.
Resume(u) ==
    /\ pc[u] = "idle" /\ ~inFlight[Of[u]]
    /\ stash.pick # 0 /\ stash.owner = user[Of[u]]
    /\ auth' = [auth EXCEPT ![u] = user[Of[u]]]
    /\ inFlight' = [inFlight EXCEPT ![Of[u]] = TRUE]
    /\ pc' = [pc EXCEPT ![u] = "resume"]
    /\ UNCHANGED <<kind, pick, key, tries, reply, local, session, user, track, active,
                   chosen, server, ghosts, faults>>

\* Faulty variant: the stash is not looked at for its owner.
AnyonesStash(u) == stash.pick # 0
OwnStash(u) == stash.pick # 0 /\ stash.owner = auth[u]

\* Faulty variant: the key of the first attempt is not kept.
PinsWhatIsThere == IF idem = NoKey THEN keys + 1 ELSE idem
PinnedKey == stash.key

\* A job that landed is polled instead; else the held file is sent with its key.
ReadPending(u) ==
    /\ pc[u] = "resume"
    /\ IF jobId = NoJob /\ OwnStash(u) /\ PinnedKey \in Keys
       THEN /\ idem' = PinnedKey
            /\ keys' = IF PinnedKey > keys THEN PinnedKey ELSE keys
            /\ key' = [key EXCEPT ![u] = PinnedKey]
            /\ pick' = [pick EXCEPT ![u] = stash.pick]
            /\ kind' = [kind EXCEPT ![u] = "whole"]
            /\ pc' = [pc EXCEPT ![u] = "stash"]
            /\ UNCHANGED <<auth, tries, reply, inFlight>>
       ELSE Ends(u) /\ UNCHANGED <<idem, keys>>
    /\ UNCHANGED <<jobId, stash, session, user, track, active, picks, file, owner, server,
                   ghosts, faults>>

\* readPendingCVUpload deletes what another account held.
DropForeign(t) ==
    /\ stash.pick # 0 /\ stash.owner # user[t]
    /\ clearPendingCVUpload
    /\ crossed' = crossed \cup {stash.pick}
    /\ UNCHANGED <<idem, jobId, tab, flow, chosen, server, held, answered, misled,
                   fatal, strayed, unheard, faults>>

-----------------------------------------------------------------------------
(* CVUploadLifecycleObserver. *)

\* A job of another account never ends for it.
TrackEnds(t, j) ==
    /\ \/ track[t][j] = "live" /\ Final(j) /\ j[1] = user[t] /\ clearCVUploadPersistence
       \/ track[t][j] = "deaf" /\ UNCHANGED <<idem, jobId>>
    /\ track' = [track EXCEPT ![t][j] = "no"]
    /\ active' = IF active[t] = j THEN [active EXCEPT ![t] = NoJob] ELSE active
    /\ UNCHANGED <<stash, session, user, inFlight, flow, chosen, server, ghosts, faults>>

\* The tab's token is another, of whatever account is signed in by now: the effect
\* is torn down and set up again, while activeJobRef still names the job the old
\* one polls.
NewToken(t) ==
    LET new  == jobId # NoJob /\ active[t] # jobId
        deaf == unheard \cup {j \in Jobs : track[t][j] = "live"}
    IN /\ user' = [user EXCEPT ![t] = session]
       /\ track' = [track EXCEPT ![t] = [j \in Jobs |->
                       IF new /\ j = jobId THEN "live"
                       ELSE IF track[t][j] = "live" THEN "deaf" ELSE track[t][j]]]
       /\ active' = IF new THEN [active EXCEPT ![t] = jobId] ELSE active
       /\ unheard' = IF ~new THEN deaf
                     ELSE IF jobId[1] = session THEN deaf \ {jobId} ELSE deaf \cup {jobId}

TokenChanges(t) ==
    /\ Fault("token")
    /\ NewToken(t)
    /\ UNCHANGED <<session, inFlight, local, flow, chosen, server, held, answered, misled,
                   crossed, fatal, strayed>>

\* 401: whatever account is signed in by now, its token is used from here on.  The
\* tab takes it, too, unless another tab exchanged it while this one waited.
PostRefreshes(u) ==
    /\ pc[u] = "post" /\ Fault("auth")
    /\ auth' = [auth EXCEPT ![u] = session]
    /\ strayed' = IF session = auth[u] THEN strayed ELSE strayed \cup {pick[u]}
    /\ TriesAgain(u)
    /\ NewToken(Of[u]) \/ UNCHANGED <<user, track, active, unheard>>
    /\ UNCHANGED <<kind, pick, key, session, inFlight, local, chosen, server, held,
                   answered, misled, crossed, fatal>>

\* Faulty variant: a page that opens does not look for an accepted job.
LooksForNothing(t) ==
    /\ track' = [track EXCEPT ![t] = [j \in Jobs |-> "no"]]
    /\ active' = [active EXCEPT ![t] = NoJob]
    /\ UNCHANGED unheard
\* A new page: its observer tracks the persisted job, whoever's it is.
Mounts(t) ==
    /\ track' = [track EXCEPT ![t] = [j \in Jobs |-> IF j = jobId THEN "live" ELSE "no"]]
    /\ active' = [active EXCEPT ![t] = jobId]
    /\ Meets(jobId, user'[t] = jobId[1])

\* A tab is loaded again: what it had under way is gone.
Reload(t) ==
    /\ Fault("reload")
    /\ pc' = [u \in Flows |-> IF Of[u] = t THEN "idle" ELSE pc[u]]
    /\ kind' = [u \in Flows |-> IF Of[u] = t THEN "begin" ELSE kind[u]]
    /\ pick' = [u \in Flows |-> IF Of[u] = t THEN 0 ELSE pick[u]]
    /\ key' = [u \in Flows |-> IF Of[u] = t THEN NoKey ELSE key[u]]
    /\ auth' = [u \in Flows |-> IF Of[u] = t THEN First ELSE auth[u]]
    /\ tries' = [u \in Flows |-> IF Of[u] = t THEN 0 ELSE tries[u]]
    /\ reply' = [u \in Flows |-> IF Of[u] = t THEN "none" ELSE reply[u]]
    /\ inFlight' = [inFlight EXCEPT ![t] = FALSE]
    /\ user' = [user EXCEPT ![t] = session]
    /\ Mounts(t)
    /\ UNCHANGED <<session, local, chosen, server, held, answered, misled, crossed, fatal,
                   strayed>>

\* The user signs out and in as another, without a page load: uploads go on.
SwitchAccount(t, a) ==
    /\ Fault("switch")
    /\ a # user[t]
    /\ session' = a
    /\ user' = [user EXCEPT ![t] = a]
    /\ inFlight' = [inFlight EXCEPT ![t] = FALSE]
    /\ Mounts(t)
    /\ UNCHANGED <<local, flow, chosen, server, held, answered, misled, crossed, fatal,
                   strayed>>

\* The server's worker ends a job (CvUpload).
JobEnds(j) ==
    /\ st[j] = "processing"
    /\ st' \in {[st EXCEPT ![j] = e] : e \in {"done", "failed"}}
    /\ UNCHANGED <<made, object, local, tab, flow, chosen, ghosts, faults>>

Proceed(u) ==
    \/ Begin(u) \/ Stash(u) \/ Put(u) \/ Finalize(u) \/ Post(u) \/ Hear(u)
    \/ Poll(u) \/ ReadPending(u)

Next ==
    \/ \E u \in Flows : \/ \E f \in Files : Pick(u, f)
                        \/ Resume(u) \/ Proceed(u) \/ PostRefreshes(u) \/ PostLogsOut(u)
    \/ \E t \in Tabs : \/ DropForeign(t) \/ TokenChanges(t) \/ Reload(t)
                       \/ \E j \in Jobs : TrackEnds(t, j)
                       \/ \E a \in Accounts : SwitchAccount(t, a)
    \/ \E j \in Jobs : JobEnds(j)

Spec == Init /\ [][Next]_vars

-----------------------------------------------------------------------------
(***************************************************************************)
(* What the upload promises.                                               *)
(***************************************************************************)
LocalTypes ==
    /\ idem \in 0..MaxKeys /\ jobId \in Jobs \cup {NoJob}
    /\ stash \in [pick : 0..MaxPicks, key : 0..MaxKeys, owner : Accounts]

TabTypes ==
    /\ session \in Accounts /\ user \in [Tabs -> Accounts] /\ inFlight \in [Tabs -> BOOLEAN]
    /\ track \in [Tabs -> [Jobs -> {"no", "live", "deaf"}]]
    /\ active \in [Tabs -> Jobs \cup {NoJob}]

FlowTypes ==
    /\ pc \in [Flows -> {"idle", "preflight", "stash", "put", "finalize", "post", "hear",
                        "poll", "resume"}]
    /\ kind \in [Flows -> {"begin", "whole"}] /\ pick \in [Flows -> 0..MaxPicks]
    /\ key \in [Flows -> 0..MaxKeys] /\ auth \in [Flows -> Accounts]
    /\ tries \in [Flows -> 0..(MaxAttempts - 1)]
    /\ reply \in [Flows -> Answers \cup {"none", "fatal", "retryable"}]

ServerTypes ==
    /\ picks \in 0..MaxPicks /\ keys \in 0..MaxKeys
    /\ file \in [Picks -> Files] /\ owner \in [Picks -> Accounts]
    /\ st \in [Jobs -> {"none", "processing", "done", "failed"}]
    /\ made \in [Jobs -> 0..MaxPicks] /\ object \in [Jobs -> 0..MaxPicks]

GhostTypes ==
    /\ held \cup answered \cup misled \cup crossed \cup fatal \cup strayed \subseteq Picks
    /\ unheard \subseteq Jobs /\ faults \in 0..MaxFaults

TypeOK == LocalTypes /\ TabTypes /\ FlowTypes /\ ServerTypes /\ GhostTypes

\* However often it is sent, cut and resumed, and from however many tabs, a
\* pick becomes one job, and is charged once; but for a pick whose upload took
\* the token of another account on its way, which each of them may be charged for.
OneJobPerPick ==
    \A p \in Picks \ strayed : Cardinality({j \in Jobs : made[j] = p}) <= 1

\* A held file is not sent to an account that did not pick it, but for an upload
\* that refreshed its token after another account had signed in.
FilesStayWithOwner ==
    \A j \in Jobs : made[j] # 0 => made[j] \in strayed \/ owner[made[j]] = j[1]

\* A pick that was put in the stash is there until it is answered, unless its
\* upload failed for good or another pick or account used the slot.
KeptUntilAnswered ==
    \A p \in held \ (crossed \cup fatal) : p \in answered \/ stash.pick = p

\* "Once you pick it, we've got it": whatever happens to its upload, the file is
\* there until the server answered about it.
OncePickedIsKept ==
    \A p \in held \ crossed :
        \/ p \in answered \ misled
        \/ stash.pick = p
        \/ \E u \in Flows : Carrying(u, p)

\* An accepted job blocks every next upload of the browser (handleUpload), so some
\* tab polls it whose page is of its account and will hear of its end and let it go;
\* but for a job that a page of another account came upon, or whose poll a new token
\* made deaf, until a page of its own account comes upon it.
AcceptedIsWatched ==
    jobId # NoJob =>
        \/ jobId \in unheard
        \/ \E t \in Tabs : track[t][jobId] = "live" /\ user[t] = jobId[1]
=============================================================================
