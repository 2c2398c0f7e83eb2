------------------------- MODULE UploadClientProofs -------------------------
(***************************************************************************)
(* Proofs about UploadClient, for any number of tabs, uploads, accounts,   *)
(* picks and faults.                                                       *)
(***************************************************************************)
EXTENDS UploadClient, FiniteSetTheorems, TLAPS

USE DEF local, tab, flow, chosen, server, ghosts, vars

Pcs == {"idle", "preflight", "stash", "put", "finalize", "post", "hear", "poll", "resume"}
Replies == Answers \cup {"none", "fatal", "retryable"}

Sent == {"stash", "put", "finalize", "post", "hear", "poll"}

-----------------------------------------------------------------------------
(* What is true in between. *)

\* An upload that has begun has a pick and a key, and so has what is held.
Keyed ==
    /\ \A u \in Flows : pc[u] \in Sent => key[u] \in Keys /\ pick[u] \in Picks
    /\ \A u \in Flows : pc[u] = "preflight" => pick[u] \in Picks
    /\ stash.pick # 0 => stash.key \in Keys

\* Picks are numbered as they are made.
Numbered ==
    /\ \A u \in Flows : pick[u] <= picks
    /\ stash.pick <= picks
    /\ \A j \in Jobs : made[j] <= picks /\ object[j] <= picks

Typed == TypeOK /\ Keyed /\ Numbered

Owned(p, a) == p # 0 => p \in strayed \/ owner[p] = a

\* Wherever a pick is, it is its owner's.
OwnersKept ==
    /\ \A u \in Flows : pc[u] \in Sent \cup {"preflight"} => Owned(pick[u], auth[u])
    /\ Owned(stash.pick, stash.owner)
    /\ \A j \in Jobs : Owned(made[j], j[1]) /\ Owned(object[j], j[1])

\* Pick p is somewhere under key k.
Under(p, k) ==
    \/ \E u \in Flows : pc[u] \in Sent /\ pick[u] = p /\ key[u] = k
    \/ stash.pick = p /\ stash.key = k
    \/ \E j \in Jobs : j[2] = k /\ (made[j] = p \/ object[j] = p)

\* Wherever a pick is, it is there under its one key.
OneKey == \A p \in Picks : \A k, l \in Keys : Under(p, k) /\ Under(p, l) => k = l

\* A pick that has no key yet is nowhere else.
Fresh ==
    \A u \in Flows : pc[u] = "preflight" =>
        /\ \A k \in Keys : ~Under(pick[u], k)
        /\ \A v \in Flows \ {u} : pc[v] = "preflight" => pick[v] # pick[u]

Holding == {"put", "finalize", "post", "hear", "poll"}

\* What an upload finds in the slot is its own, or is recorded as crossed.
SlotIsMine ==
    \A u \in Flows :
        /\ pc[u] \in Holding => stash.pick \in {0, pick[u]} \cup crossed
        /\ pc[u] = "hear" => reply[u] # "none"
        /\ pc[u] = "poll" => pick[u] \in answered

\* A tab polls the job it last came to know.
ActiveIsTracked == \A t \in Tabs : active[t] # NoJob => track[t][active[t]] # "no"

-----------------------------------------------------------------------------
(* Types. *)

LEMMA Numbers ==
    /\ 0 \in 0..MaxPicks /\ 0 \in 0..MaxKeys /\ 0 \in 0..(MaxAttempts - 1)
    /\ NoKey \in 0..MaxKeys /\ NoKey \notin Keys /\ First \in Accounts
    /\ Picks \subseteq 0..MaxPicks /\ Keys \subseteq 0..MaxKeys
    /\ Empty \in [pick : 0..MaxPicks, key : 0..MaxKeys, owner : Accounts]
BY ClientAssumption DEF Picks, Keys, NoKey, Empty

LEMMA JobTypes ==
    ASSUME FlowTypes, NEW u \in Flows, key[u] \in Keys
    PROVE  Job(u) \in Jobs
BY DEF FlowTypes, Job, Jobs

LEMMA FaultTypes ==
    ASSUME GhostTypes, NEW f, Fault(f)
    PROVE  faults' \in 0..MaxFaults
BY ClientAssumption DEF GhostTypes, Fault

LEMMA EndsTypes ==
    ASSUME FlowTypes, TabTypes, NEW u \in Flows, Ends(u)
    PROVE  FlowTypes' /\ inFlight' \in [Tabs -> BOOLEAN]
BY Numbers, ClientAssumption DEF Ends, FlowTypes, TabTypes

LEMMA HearsTypes ==
    ASSUME FlowTypes, NEW u \in Flows, NEW r \in Answers \cup {"fatal", "retryable"}, Hears(u, r)
    PROVE  pc' \in [Flows -> Pcs] /\ reply' \in [Flows -> Replies]
BY DEF Hears, FlowTypes, Pcs, Replies, Answers

LEMMA TriesTypes ==
    ASSUME FlowTypes, NEW u \in Flows, TriesAgain(u)
    PROVE  /\ pc' \in [Flows -> Pcs] /\ reply' \in [Flows -> Replies]
           /\ tries' \in [Flows -> 0..(MaxAttempts - 1)]
<1>1. pc \in [Flows -> Pcs] /\ reply \in [Flows -> Replies]
  BY DEF FlowTypes, Pcs, Replies
<1>2. CASE tries[u] + 1 < MaxAttempts
  BY <1>1, <1>2, ClientAssumption DEF TriesAgain, FlowTypes
<1>3. CASE ~(tries[u] + 1 < MaxAttempts)
  BY <1>3, HearsTypes DEF TriesAgain, FlowTypes
<1> QED
  BY <1>2, <1>3

LEMMA ServesTypes ==
    ASSUME ServerTypes, NEW j \in Jobs, NEW p \in 0..MaxPicks, NEW r, Serves(j, p, r)
    PROVE  /\ st' \in [Jobs -> {"none", "processing", "done", "failed"}]
           /\ made' \in [Jobs -> 0..MaxPicks]
BY DEF Serves, ServerTypes

LEMMA MeetsTypes ==
    ASSUME unheard \subseteq Jobs, NEW j \in Jobs \cup {NoJob}, NEW heard, Meets(j, heard)
    PROVE  unheard' \subseteq Jobs
BY DEF Meets

LEMMA TracksTypes ==
    ASSUME TabTypes, GhostTypes, NEW t \in Tabs, NEW j \in Jobs, Tracked(t, j)
    PROVE  /\ track' \in [Tabs -> [Jobs -> {"no", "live", "deaf"}]]
           /\ active' \in [Tabs -> Jobs \cup {NoJob}]
           /\ unheard' \subseteq Jobs
<1>0. unheard' \subseteq Jobs
  BY MeetsTypes DEF Tracked, GhostTypes
<1>1. CASE UNCHANGED <<track, active>>
  BY <1>0, <1>1 DEF TabTypes
<1>2. CASE ~UNCHANGED <<track, active>>
  <2>1. track' = [track EXCEPT ![t] = [track[t] EXCEPT ![j] = "live"]] /\ active' = [active EXCEPT ![t] = j]
    BY <1>2 DEF Tracked
  <2>2. [track[t] EXCEPT ![j] = "live"] \in [Jobs -> {"no", "live", "deaf"}]
    BY DEF TabTypes
  <2>3. track' \in [Tabs -> [Jobs -> {"no", "live", "deaf"}]]
    BY <2>1, <2>2 DEF TabTypes
  <2>4. active' \in [Tabs -> Jobs \cup {NoJob}]
    BY <2>1 DEF TabTypes
  <2> QED
    BY <1>0, <2>3, <2>4
<1> QED
  BY <1>1, <1>2

LEMMA MountsTypes ==
    ASSUME TabTypes, LocalTypes, GhostTypes, NEW t \in Tabs, Mounts(t)
    PROVE  /\ track' \in [Tabs -> [Jobs -> {"no", "live", "deaf"}]]
           /\ active' \in [Tabs -> Jobs \cup {NoJob}]
           /\ unheard' \subseteq Jobs
BY DEF Mounts, Meets, TabTypes, LocalTypes, GhostTypes

LEMMA NewTokenTypes ==
    ASSUME TabTypes, LocalTypes, GhostTypes, NEW t \in Tabs, NewToken(t)
    PROVE  /\ user' \in [Tabs -> Accounts]
           /\ track' \in [Tabs -> [Jobs -> {"no", "live", "deaf"}]]
           /\ active' \in [Tabs -> Jobs \cup {NoJob}]
           /\ unheard' \subseteq Jobs
BY DEF NewToken, TabTypes, LocalTypes, GhostTypes

\* Every step keeps the types.
LEMMA TypeStep ==
    ASSUME Typed, [Next]_vars
    PROVE  TypeOK'
<1> USE Numbers, ClientAssumption DEF Typed, TypeOK
<1>1. ASSUME NEW u \in Flows, NEW f \in Files, Pick(u, f) PROVE TypeOK'
  <2>1. picks + 1 \in Picks
    BY <1>1 DEF Pick, ServerTypes, Picks
  <2>2. user[Of[u]] \in Accounts
    BY DEF TabTypes
  <2>3. ServerTypes'
    BY <1>1, <2>1, <2>2 DEF Pick, ServerTypes
  <2>4. FlowTypes'
    BY <1>1, <2>1, <2>2 DEF Pick, FlowTypes
  <2> QED
    BY <1>1, <2>3, <2>4 DEF Pick, LocalTypes, TabTypes, GhostTypes
<1>2. ASSUME NEW u \in Flows, Resume(u) PROVE TypeOK'
  BY <1>2 DEF Resume, LocalTypes, TabTypes, FlowTypes, ServerTypes, GhostTypes
<1>3. ASSUME NEW u \in Flows, Begin(u) PROVE TypeOK'
  <2>1. keys' \in 0..MaxKeys
    BY <1>3 DEF Begin, readOrCreateKey, ServerTypes, Keys
  <2> QED
    BY <1>3, <2>1 DEF Begin, LocalTypes, TabTypes, FlowTypes, ServerTypes, GhostTypes
<1>4. ASSUME NEW u \in Flows, Stash(u) PROVE TypeOK'
  <2>1. pick[u] \in Picks /\ key[u] \in Keys
    BY <1>4 DEF Stash, Keyed, Sent
  <2>2. held' \cup crossed' \subseteq Picks
    BY <1>4, <2>1 DEF Stash, Others, GhostTypes
  <2>3. LocalTypes' /\ FlowTypes'
    BY <1>4, <2>1 DEF Stash, LocalTypes, FlowTypes
  <2> QED
    BY <1>4, <2>2, <2>3 DEF Stash, TabTypes, ServerTypes, GhostTypes
<1>5. ASSUME NEW u \in Flows, Put(u) PROVE TypeOK'
  <2>1. key[u] \in Keys
    BY <1>5 DEF Put, Keyed, Sent
  <2>2. Job(u) \in Jobs
    BY <2>1, JobTypes
  <2>3. pick[u] \in 0..MaxPicks /\ object' \in [Jobs -> 0..MaxPicks]
    BY <1>5, <2>2 DEF Put, FlowTypes, ServerTypes
  <2>4. FlowTypes'
    BY <1>5 DEF Put, FlowTypes
  <2> QED
    BY <1>5, <2>3, <2>4 DEF Put, LocalTypes, TabTypes, FlowTypes, ServerTypes, GhostTypes
<1>6. ASSUME NEW u \in Flows, Finalize(u) PROVE TypeOK'
  <2>1. pick[u] \in Picks /\ key[u] \in Keys
    BY <1>6 DEF Finalize, Keyed, Sent
  <2>2. Job(u) \in Jobs
    BY <2>1, JobTypes
  <2>3. object[Job(u)] \in 0..MaxPicks
    BY <2>2 DEF ServerTypes
  <2>4. st' \in [Jobs -> {"none", "processing", "done", "failed"}] /\ made' \in [Jobs -> 0..MaxPicks]
    <3>1. \/ UNCHANGED <<st, made>>
          \/ \E r \in Answers : Serves(Job(u), object[Job(u)], r)
      BY <1>6 DEF Finalize
    <3> QED
      BY <3>1, <2>2, <2>3, ServesTypes DEF ServerTypes
  <2>5. object' \in [Jobs -> 0..MaxPicks]
    BY <1>6, <2>2 DEF Finalize, ServerTypes
  <2>6. pc' \in [Flows -> Pcs] /\ reply' \in [Flows -> Replies]
    <3>1. \E r \in Answers \cup {"fatal", "retryable"} : Hears(u, r)
      BY <1>6 DEF Finalize
    <3> QED
      BY <3>1, HearsTypes
  <2>7. misled' \subseteq Picks
    BY <1>6, <2>1 DEF Finalize, GhostTypes
  <2>8. faults' \in 0..MaxFaults
    <3>1. faults' = faults \/ \E f \in {"finalize", "busy"} : Fault(f)
      BY <1>6 DEF Finalize
    <3> QED
      BY <3>1, FaultTypes DEF GhostTypes
  <2>9. FlowTypes'
    BY <1>6, <2>6 DEF Finalize, FlowTypes, Pcs, Replies
  <2>10. ServerTypes'
    BY <1>6, <2>4, <2>5 DEF Finalize, ServerTypes
  <2> QED
    BY <1>6, <2>7, <2>8, <2>9, <2>10 DEF Finalize, LocalTypes, TabTypes, GhostTypes
<1>7. ASSUME NEW u \in Flows, Post(u) PROVE TypeOK'
  <2>1. pick[u] \in Picks /\ key[u] \in Keys
    BY <1>7 DEF Post, Keyed, Sent
  <2>2. Job(u) \in Jobs /\ pick[u] \in 0..MaxPicks
    BY <2>1, JobTypes
  <2>4. st' \in [Jobs -> {"none", "processing", "done", "failed"}] /\ made' \in [Jobs -> 0..MaxPicks]
    <3>1. UNCHANGED <<st, made>> \/ \E r \in Answers : Serves(Job(u), pick[u], r)
      BY <1>7 DEF Post
    <3> QED
      BY <3>1, <2>2, ServesTypes DEF ServerTypes
  <2>6. /\ pc' \in [Flows -> Pcs] /\ reply' \in [Flows -> Replies]
        /\ tries' \in [Flows -> 0..(MaxAttempts - 1)]
    <3>1. \/ TriesAgain(u)
          \/ UNCHANGED tries /\ \E r \in Answers \cup {"fatal", "retryable"} : Hears(u, r)
      BY <1>7 DEF Post
    <3> QED
      BY <3>1, HearsTypes, TriesTypes DEF FlowTypes
  <2>7. misled' \subseteq Picks
    BY <1>7, <2>1 DEF Post, GhostTypes
  <2>8. faults' \in 0..MaxFaults
    <3>1. faults' = faults \/ \E f \in {"radio", "busy"} : Fault(f)
      BY <1>7 DEF Post
    <3> QED
      BY <3>1, FaultTypes DEF GhostTypes
  <2>9. FlowTypes'
    BY <1>7, <2>6 DEF Post, FlowTypes, Pcs, Replies
  <2>10. ServerTypes'
    BY <1>7, <2>4 DEF Post, ServerTypes
  <2> QED
    BY <1>7, <2>7, <2>8, <2>9, <2>10 DEF Post, LocalTypes, TabTypes, GhostTypes
<1>8. ASSUME NEW u \in Flows, PostRefreshes(u) PROVE TypeOK'
  <2>1. pick[u] \in Picks
    BY <1>8 DEF PostRefreshes, Keyed, Sent
  <2>2. /\ pc' \in [Flows -> Pcs] /\ reply' \in [Flows -> Replies]
        /\ tries' \in [Flows -> 0..(MaxAttempts - 1)] /\ faults' \in 0..MaxFaults
    BY <1>8, TriesTypes, FaultTypes DEF PostRefreshes
  <2>3. FlowTypes'
    BY <1>8, <2>2 DEF PostRefreshes, FlowTypes, TabTypes, Pcs, Replies
  <2>4. TabTypes' /\ unheard' \subseteq Jobs
    <3>1. CASE NewToken(Of[u])
      BY <1>8, <3>1, NewTokenTypes DEF PostRefreshes, TabTypes
    <3>2. CASE UNCHANGED <<user, track, active, unheard>>
      BY <1>8, <3>2 DEF PostRefreshes, TabTypes, GhostTypes
    <3> QED
      BY <1>8, <3>1, <3>2 DEF PostRefreshes
  <2> QED
    BY <1>8, <2>1, <2>2, <2>3, <2>4 DEF PostRefreshes, LocalTypes, ServerTypes, GhostTypes
<1>9. ASSUME NEW u \in Flows, PostLogsOut(u) PROVE TypeOK'
  <2>1. pc' \in [Flows -> Pcs] /\ reply' \in [Flows -> Replies] /\ faults' \in 0..MaxFaults
    BY <1>9, HearsTypes, FaultTypes DEF PostLogsOut
  <2> QED
    BY <1>9, <2>1 DEF PostLogsOut, LocalTypes, TabTypes, FlowTypes, ServerTypes, GhostTypes,
       Pcs, Replies
<1>10. ASSUME NEW u \in Flows, Hear(u) PROVE TypeOK'
  <2>1. pick[u] \in Picks /\ key[u] \in Keys
    BY <1>10 DEF Hear, Keyed, Sent
  <2>2. Job(u) \in Jobs
    BY <2>1, JobTypes
  <2>3. FlowTypes' /\ inFlight' \in [Tabs -> BOOLEAN]
    <3>1. CASE Ends(u)
      BY <3>1, EndsTypes
    <3>2. CASE UNCHANGED <<kind, pick, key, auth, tries, reply, inFlight>> /\ pc' = [pc EXCEPT ![u] = "poll"]
      BY <3>2 DEF FlowTypes, TabTypes
    <3> QED
      BY <3>1, <3>2, <1>10 DEF Hear
  <2>4. /\ track' \in [Tabs -> [Jobs -> {"no", "live", "deaf"}]]
        /\ active' \in [Tabs -> Jobs \cup {NoJob}]
        /\ unheard' \subseteq Jobs
    <3>1. Tracked(Of[u], Job(u)) \/ UNCHANGED <<track, active, unheard>>
      BY <1>10 DEF Hear
    <3> QED
      BY <3>1, <2>2, TracksTypes DEF TabTypes, GhostTypes
  <2>5. LocalTypes'
    BY <1>10, <2>2 DEF Hear, clearPendingCVUpload, clearCVUploadPersistence, LocalTypes
  <2>6. TabTypes'
    BY <1>10, <2>3, <2>4 DEF Hear, TabTypes
  <2>7. GhostTypes'
    BY <1>10, <2>1, <2>4 DEF Hear, GhostTypes
  <2> QED
    BY <1>10, <2>3, <2>5, <2>6, <2>7 DEF Hear, ServerTypes
<1>11. ASSUME NEW u \in Flows, Poll(u) PROVE TypeOK'
  <2>1. FlowTypes' /\ inFlight' \in [Tabs -> BOOLEAN]
    BY <1>11, EndsTypes DEF Poll
  <2>2. LocalTypes'
    BY <1>11 DEF Poll, clearCVUploadPersistence, LocalTypes
  <2> QED
    BY <1>11, <2>1, <2>2 DEF Poll, TabTypes, ServerTypes, GhostTypes
<1>12. ASSUME NEW u \in Flows, ReadPending(u) PROVE TypeOK'
  <2>1. CASE Ends(u) /\ UNCHANGED <<idem, keys>>
    <3>1. FlowTypes' /\ inFlight' \in [Tabs -> BOOLEAN]
      BY <2>1, EndsTypes
    <3> QED
      BY <1>12, <2>1, <3>1 DEF ReadPending, LocalTypes, TabTypes, ServerTypes, GhostTypes
  <2>2. CASE ~(Ends(u) /\ UNCHANGED <<idem, keys>>)
    BY <1>12, <2>2 DEF ReadPending, PinnedKey, LocalTypes, TabTypes, FlowTypes, ServerTypes,
       GhostTypes
  <2> QED
    BY <2>1, <2>2
<1>13. ASSUME NEW t \in Tabs, DropForeign(t) PROVE TypeOK'
  <2>1. stash.pick \in Picks
    BY <1>13 DEF DropForeign, LocalTypes, Picks
  <2> QED
    BY <1>13, <2>1 DEF DropForeign, clearPendingCVUpload, LocalTypes, TabTypes, FlowTypes,
       ServerTypes, GhostTypes
<1>14. ASSUME NEW t \in Tabs, TokenChanges(t) PROVE TypeOK'
  <2>1. faults' \in 0..MaxFaults
    BY <1>14, FaultTypes DEF TokenChanges
  <2>2. TabTypes' /\ unheard' \subseteq Jobs
    BY <1>14, NewTokenTypes DEF TokenChanges, TabTypes
  <2> QED
    BY <1>14, <2>1, <2>2 DEF TokenChanges, LocalTypes, FlowTypes, ServerTypes, GhostTypes
<1>15. ASSUME NEW t \in Tabs, Reload(t) PROVE TypeOK'
  <2>1. faults' \in 0..MaxFaults
    BY <1>15, FaultTypes DEF Reload
  <2>2. TabTypes' /\ unheard' \subseteq Jobs
    BY <1>15, MountsTypes DEF Reload, TabTypes
  <2>3. FlowTypes'
    BY <1>15 DEF Reload, FlowTypes
  <2> QED
    BY <1>15, <2>1, <2>2, <2>3 DEF Reload, LocalTypes, ServerTypes, GhostTypes
<1>16. ASSUME NEW t \in Tabs, NEW j \in Jobs, TrackEnds(t, j) PROVE TypeOK'
  BY <1>16 DEF TrackEnds, clearCVUploadPersistence, LocalTypes, TabTypes, FlowTypes,
     ServerTypes, GhostTypes
<1>17. ASSUME NEW t \in Tabs, NEW a \in Accounts, SwitchAccount(t, a) PROVE TypeOK'
  <2>1. faults' \in 0..MaxFaults
    BY <1>17, FaultTypes DEF SwitchAccount
  <2>2. TabTypes' /\ unheard' \subseteq Jobs
    BY <1>17, MountsTypes DEF SwitchAccount, TabTypes
  <2> QED
    BY <1>17, <2>1, <2>2 DEF SwitchAccount, LocalTypes, FlowTypes, ServerTypes, GhostTypes
<1>18. ASSUME NEW j \in Jobs, JobEnds(j) PROVE TypeOK'
  BY <1>18 DEF JobEnds, LocalTypes, TabTypes, FlowTypes, ServerTypes, GhostTypes
<1>19. CASE UNCHANGED vars
  BY <1>19 DEF LocalTypes, TabTypes, FlowTypes, ServerTypes, GhostTypes
<1> QED
  BY <1>1, <1>2, <1>3, <1>4, <1>5, <1>6, <1>7, <1>8, <1>9, <1>10, <1>11, <1>12, <1>13, <1>14,
     <1>15, <1>16, <1>17, <1>18, <1>19 DEF Next, Proceed

-----------------------------------------------------------------------------
(* What the steps do to the uploads. *)

Sending == {"put", "finalize", "post", "hear"}

\* The uploads but u are where they were.
OthersStay(u) ==
    \A v \in Flows \ {u} :
        /\ pc'[v] = pc[v] /\ pick'[v] = pick[v] /\ key'[v] = key[v] /\ auth'[v] = auth[v]
        /\ reply'[v] = reply[v]

\* Upload u talks to storage or the server.
Talks(u) == Put(u) \/ Finalize(u) \/ Post(u) \/ PostRefreshes(u) \/ PostLogsOut(u)

LEMMA TalkMoves ==
    ASSUME Typed, NEW u \in Flows, Talks(u)
    PROVE  /\ pc[u] \in Sending /\ pc'[u] \in Sending /\ OthersStay(u)
           /\ pc'[u] = "hear" => reply'[u] # "none"
           /\ UNCHANGED <<pick, key, kind, local, chosen, held, answered, crossed, fatal>>
<1> USE DEF Typed, TypeOK, FlowTypes, Sending, OthersStay, Answers
<1>1. CASE Put(u)
  BY <1>1 DEF Put
<1>2. CASE Finalize(u)
  BY <1>2 DEF Finalize, Hears
<1>3. CASE Post(u)
  BY <1>3 DEF Post, TriesAgain, Hears
<1>4. CASE PostRefreshes(u)
  BY <1>4 DEF PostRefreshes, TriesAgain, Hears
<1>5. CASE PostLogsOut(u)
  BY <1>5 DEF PostLogsOut, Hears
<1> QED
  BY <1>1, <1>2, <1>3, <1>4, <1>5 DEF Talks

LEMMA EndMoves ==
    ASSUME Typed, NEW u \in Flows, Ends(u)
    PROVE  pc'[u] = "idle" /\ pick'[u] = 0 /\ key'[u] = NoKey /\ OthersStay(u)
BY DEF Typed, TypeOK, FlowTypes, Ends, OthersStay

LEMMA HearMoves ==
    ASSUME Typed, NEW u \in Flows, Hear(u)
    PROVE  /\ OthersStay(u) /\ UNCHANGED <<chosen, server>>
           /\ \/ pc'[u] = "idle" /\ pick'[u] = 0
              \/ /\ pc'[u] = "poll" /\ reply[u] = "processing"
                 /\ pick'[u] = pick[u] /\ key'[u] = key[u] /\ auth'[u] = auth[u]
<1>1. CASE Ends(u)
  BY <1>1, EndMoves DEF Hear
<1>2. CASE ~Ends(u)
  BY <1>2 DEF Hear, Typed, TypeOK, FlowTypes, OthersStay
<1> QED
  BY <1>1, <1>2

LEMMA ReloadMoves ==
    ASSUME Typed, NEW t \in Tabs, Reload(t)
    PROVE  \A v \in Flows :
             \/ pc'[v] = "idle" /\ pick'[v] = 0
             \/ /\ pc'[v] = pc[v] /\ pick'[v] = pick[v] /\ key'[v] = key[v]
                /\ auth'[v] = auth[v] /\ reply'[v] = reply[v]
BY DEF Typed, TypeOK, FlowTypes, Reload

\* Only a talk writes to the server, the pick or the bytes that are there.
LEMMA TalkWrites ==
    ASSUME Typed, NEW u \in Flows, Talks(u), NEW j \in Jobs
    PROVE  /\ \/ made'[j] = made[j]
              \/ j = Job(u) /\ made'[j] \in {pick[u], object[j]}
           /\ \/ object'[j] = object[j] \/ object'[j] = 0
              \/ j = Job(u) /\ object'[j] = pick[u]
           /\ Job(u) \in Jobs /\ pick[u] \in Picks /\ key[u] \in Keys
<1>1. pick[u] \in Picks /\ key[u] \in Keys
  BY TalkMoves DEF Typed, Keyed, Sent, Sending
<1>2. Job(u) \in Jobs
  BY <1>1, JobTypes DEF Typed, TypeOK
<1> USE <1>1, <1>2 DEF Typed, TypeOK, ServerTypes
<1>3. CASE Put(u)
  BY <1>3 DEF Put
<1>4. CASE Finalize(u)
  <2>1. UNCHANGED made \/ \E r \in Answers : Serves(Job(u), object[Job(u)], r)
    BY <1>4 DEF Finalize
  <2>2. \/ made'[j] = made[j]
        \/ j = Job(u) /\ made'[j] = object[j]
    BY <2>1 DEF Serves
  <2>3. object' = object \/ object' = [object EXCEPT ![Job(u)] = 0]
    BY <1>4 DEF Finalize
  <2> QED
    BY <2>2, <2>3
<1>5. CASE Post(u)
  <2>1. UNCHANGED made \/ \E r \in Answers : Serves(Job(u), pick[u], r)
    BY <1>5 DEF Post
  <2>2. made'[j] = made[j] \/ (j = Job(u) /\ made'[j] = pick[u])
    BY <2>1 DEF Serves
  <2> QED
    BY <2>2, <1>5 DEF Post
<1>6. CASE PostRefreshes(u) \/ PostLogsOut(u)
  BY <1>6 DEF PostRefreshes, PostLogsOut
<1> QED
  BY <1>3, <1>4, <1>5, <1>6 DEF Talks

\* Every step keeps the numbering, and a key with every upload.
LEMMA NumberStep ==
    ASSUME Typed, [Next]_vars
    PROVE  Keyed' /\ Numbered'
<1> USE Numbers, ClientAssumption DEF Keyed, Numbered
<1>0. /\ pick \in [Flows -> 0..MaxPicks] /\ picks \in 0..MaxPicks
      /\ stash.pick \in 0..MaxPicks /\ stash.key \in 0..MaxKeys
      /\ made \in [Jobs -> 0..MaxPicks] /\ object \in [Jobs -> 0..MaxPicks]
      /\ pc \in [Flows -> Pcs] /\ key \in [Flows -> 0..MaxKeys]
  BY DEF Typed, TypeOK, FlowTypes, ServerTypes, LocalTypes, Pcs
<1>00. Keyed /\ Numbered
  BY DEF Typed
<1> USE <1>0, <1>00 DEF Sent
<1>1. ASSUME NEW u \in Flows, NEW f \in Files, Pick(u, f) PROVE Keyed' /\ Numbered'
  BY <1>1 DEF Pick, Picks
<1>2. ASSUME NEW u \in Flows, Resume(u) PROVE Keyed' /\ Numbered'
  BY <1>2 DEF Resume
<1>3. ASSUME NEW u \in Flows, Begin(u) PROVE Keyed' /\ Numbered'
  BY <1>3 DEF Begin
<1>4. ASSUME NEW u \in Flows, Stash(u) PROVE Keyed' /\ Numbered'
  BY <1>4 DEF Stash
<1>5. ASSUME NEW u \in Flows, Talks(u) PROVE Keyed' /\ Numbered'
  <2>1. Keyed'
    BY <1>5, TalkMoves DEF OthersStay, Sending
  <2>2. \A j \in Jobs : made'[j] \in {made[j], object[j], pick[u]} /\ object'[j] \in {object[j], 0, pick[u]}
    BY <1>5, TalkWrites
  <2>3. UNCHANGED <<pick, picks, stash>>
    BY <1>5, TalkMoves
  <2> QED
    BY <2>1, <2>2, <2>3
<1>6. ASSUME NEW u \in Flows, Hear(u) PROVE Keyed' /\ Numbered'
  <2>1. stash' = stash \/ stash'.pick = 0
    BY <1>6 DEF Hear, clearPendingCVUpload, Empty
  <2>2. stash'.pick # 0 => stash' = stash
    BY <2>1
  <2>3. pc[u] = "hear" /\ OthersStay(u)
        /\ (pc'[u] = "idle" \/ (pc'[u] = "poll" /\ pick'[u] = pick[u] /\ key'[u] = key[u]))
    BY <1>6, HearMoves DEF Hear
  <2>4. Keyed'
    BY <2>2, <2>3 DEF OthersStay
  <2> QED
    BY <1>6, <2>1, <2>4, HearMoves DEF OthersStay
<1>7. ASSUME NEW u \in Flows, Poll(u) PROVE Keyed' /\ Numbered'
  <2>1. stash' = stash \/ stash' = Empty
    BY <1>7 DEF Poll
  <2>2. pc'[u] = "idle" /\ pick'[u] = 0 /\ OthersStay(u) /\ UNCHANGED <<chosen, server>>
    BY <1>7, EndMoves DEF Poll
  <2> QED
    BY <2>1, <2>2 DEF OthersStay, Empty
<1>8. ASSUME NEW u \in Flows, ReadPending(u) PROVE Keyed' /\ Numbered'
  <2>1. CASE Ends(u) /\ UNCHANGED <<idem, keys>>
    BY <1>8, <2>1, EndMoves DEF ReadPending, OthersStay
  <2>2. CASE ~(Ends(u) /\ UNCHANGED <<idem, keys>>)
    BY <1>8, <2>2 DEF ReadPending, PinnedKey, OwnStash, Picks
  <2> QED
    BY <2>1, <2>2
<1>9. ASSUME NEW t \in Tabs, DropForeign(t) PROVE Keyed' /\ Numbered'
  BY <1>9 DEF DropForeign, clearPendingCVUpload, Empty
<1>10. ASSUME NEW t \in Tabs, TokenChanges(t) PROVE Keyed' /\ Numbered'
  BY <1>10 DEF TokenChanges
<1>11. ASSUME NEW t \in Tabs, Reload(t) PROVE Keyed' /\ Numbered'
  BY <1>11, ReloadMoves DEF Reload
<1>12. ASSUME NEW t \in Tabs, NEW j \in Jobs, TrackEnds(t, j) PROVE Keyed' /\ Numbered'
  BY <1>12 DEF TrackEnds
<1>13. ASSUME NEW t \in Tabs, NEW a \in Accounts, SwitchAccount(t, a) PROVE Keyed' /\ Numbered'
  BY <1>13 DEF SwitchAccount
<1>14. ASSUME NEW j \in Jobs, JobEnds(j) PROVE Keyed' /\ Numbered'
  BY <1>14 DEF JobEnds
<1>15. CASE UNCHANGED vars
  BY <1>15
<1> QED
  BY <1>1, <1>2, <1>3, <1>4, <1>5, <1>6, <1>7, <1>8, <1>9, <1>10, <1>11, <1>12, <1>13, <1>14,
     <1>15 DEF Next, Proceed, Talks

LEMMA TypedInit == Init => Typed
<1> SUFFICES ASSUME Init PROVE Typed
  OBVIOUS
<1> USE Numbers, ClientAssumption DEF Init
<1>1. LocalTypes /\ TabTypes
  BY DEF LocalTypes, TabTypes
<1>2. FlowTypes
  BY DEF FlowTypes, Answers
<1>3. ServerTypes /\ GhostTypes
  BY DEF ServerTypes, GhostTypes
<1>4. Keyed /\ Numbered
  BY DEF Keyed, Numbered, Sent, Empty
<1> QED
  BY <1>1, <1>2, <1>3, <1>4 DEF Typed, TypeOK

LEMMA TypedStep == Typed /\ [Next]_vars => Typed'
BY TypeStep, NumberStep DEF Typed

\* Every state has the types, and an upload that has begun has its key.
THEOREM TypesHold == Spec => []TypeOK
<1>1. Typed => TypeOK
  BY DEF Typed
<1> QED
  BY <1>1, TypedInit, TypedStep, PTL DEF Spec

-----------------------------------------------------------------------------
(* Owners. *)

LEMMA OwnedStays ==
    ASSUME NEW p, NEW a, Owned(p, a), strayed \subseteq strayed',
           owner'[p] = owner[p] \/ p = 0
    PROVE  Owned(p, a)'
BY DEF Owned

\* Every step keeps each pick with the account it was picked for.
LEMMA OwnerStep ==
    ASSUME Typed, OwnersKept, [Next]_vars
    PROVE  OwnersKept'
<1> USE DEF Sent
<1>0. /\ pick \in [Flows -> 0..MaxPicks] /\ picks \in 0..MaxPicks
      /\ stash.pick \in 0..MaxPicks /\ Numbered
      /\ made \in [Jobs -> 0..MaxPicks] /\ object \in [Jobs -> 0..MaxPicks]
      /\ pc \in [Flows -> Pcs] /\ key \in [Flows -> 0..MaxKeys] /\ auth \in [Flows -> Accounts]
      /\ owner \in [Picks -> Accounts]
  BY DEF Typed, TypeOK, FlowTypes, ServerTypes, LocalTypes, Pcs
<1> USE <1>0
<1>1. ASSUME NEW u \in Flows, NEW f \in Files, Pick(u, f) PROVE OwnersKept'
  <2>1. \A q : q \in Nat /\ q <= picks /\ q # 0 => owner'[q] = owner[q]
    BY <1>1 DEF Pick, Picks
  <2>2. \A q \in Nat : \A a : q <= picks /\ Owned(q, a) => Owned(q, a)'
    BY <1>1, <2>1, OwnedStays DEF Pick
  <2>3. Owned(pick[u], auth[u])'
    <3>1. picks + 1 \in Picks
      BY <1>1, ClientAssumption DEF Pick, Picks
    <3>2. pick'[u] = picks + 1 /\ auth'[u] = user[Of[u]] /\ owner'[picks + 1] = user[Of[u]]
      BY <1>1, <3>1 DEF Pick
    <3> QED
      BY <3>2 DEF Owned
  <2>4. \A v \in Flows : pc'[v] \in Sent \cup {"preflight"} => Owned(pick[v], auth[v])'
    <3> SUFFICES ASSUME NEW v \in Flows, v # u, pc'[v] \in Sent \cup {"preflight"}
                 PROVE  Owned(pick[v], auth[v])'
      BY <2>3
    <3>1. pc'[v] = pc[v] /\ pick'[v] = pick[v] /\ auth'[v] = auth[v]
      BY <1>1 DEF Pick
    <3>2. Owned(pick[v], auth[v]) /\ pick[v] <= picks /\ pick[v] \in Nat
      BY <3>1 DEF OwnersKept, Numbered
    <3> QED
      BY <3>1, <3>2, <2>2 DEF Owned
  <2>5. Owned(stash.pick, stash.owner)'
    BY <1>1, <2>2 DEF Pick, OwnersKept, Numbered, Owned
  <2>6. \A j \in Jobs : Owned(made[j], j[1])' /\ Owned(object[j], j[1])'
    BY <1>1, <2>2 DEF Pick, OwnersKept, Numbered, Owned
  <2> QED
    BY <2>4, <2>5, <2>6 DEF OwnersKept
<1> USE DEF OwnersKept, Owned
<1>2. ASSUME NEW u \in Flows, Resume(u) PROVE OwnersKept'
  BY <1>2 DEF Resume
<1>3. ASSUME NEW u \in Flows, Begin(u) PROVE OwnersKept'
  BY <1>3 DEF Begin
<1>4. ASSUME NEW u \in Flows, Stash(u) PROVE OwnersKept'
  BY <1>4 DEF Stash
<1>5. ASSUME NEW u \in Flows, Talks(u) PROVE OwnersKept'
  <2>1. pc[u] \in Sending /\ Owned(pick[u], auth[u])
    BY <1>5, TalkMoves DEF Sending
  <2>2. /\ OthersStay(u) /\ UNCHANGED <<pick, owner, stash>>
        /\ strayed \subseteq strayed'
    BY <1>5, TalkMoves DEF Talks, Put, Finalize, Post, PostRefreshes, PostLogsOut
  <2>3. Owned(pick[u], auth[u])'
    <3>1. auth' = auth \/ auth[u] = session \/ pick[u] \in strayed'
      BY <1>5 DEF Talks, Put, Finalize, Post, PostRefreshes, PostLogsOut
    <3>2. auth' = auth \/ auth'[u] = session
      BY <1>5 DEF Talks, Put, Finalize, Post, PostRefreshes, PostLogsOut
    <3> QED
      BY <2>1, <2>2, <3>1, <3>2
  <2>4. \A j \in Jobs : Owned(made[j], j[1])' /\ Owned(object[j], j[1])'
    <3> SUFFICES ASSUME NEW j \in Jobs
                 PROVE  Owned(made[j], j[1])' /\ Owned(object[j], j[1])'
      OBVIOUS
    <3>1. Job(u)[1] = auth[u]
      BY DEF Job
    <3>2. Owned(made[j], j[1]) /\ Owned(object[j], j[1])
      OBVIOUS
    <3>3. /\ made'[j] = made[j] \/ (j = Job(u) /\ made'[j] \in {pick[u], object[j]})
          /\ object'[j] = object[j] \/ object'[j] = 0 \/ (j = Job(u) /\ object'[j] = pick[u])
      BY <1>5, TalkWrites
    <3> QED
      BY <2>1, <2>2, <3>1, <3>2, <3>3
  <2>5. \A v \in Flows \ {u} : pc'[v] \in Sent \cup {"preflight"} => Owned(pick[v], auth[v])'
    BY <2>2 DEF OthersStay
  <2> QED
    BY <2>2, <2>3, <2>4, <2>5
<1>6. ASSUME NEW u \in Flows, Hear(u) PROVE OwnersKept'
  <2>1. stash' = stash \/ stash'.pick = 0
    BY <1>6 DEF Hear, clearPendingCVUpload, Empty
  <2>2. UNCHANGED <<owner, strayed, made, object>> /\ pc[u] = "hear"
    BY <1>6 DEF Hear
  <2>3. OthersStay(u) /\ (pc'[u] = "idle" \/ (pick'[u] = pick[u] /\ auth'[u] = auth[u]))
    BY <1>6, HearMoves
  <2> QED
    BY <2>1, <2>2, <2>3 DEF OthersStay
<1>7. ASSUME NEW u \in Flows, Poll(u) PROVE OwnersKept'
  <2>1. stash' = stash \/ stash'.pick = 0
    BY <1>7 DEF Poll, Empty
  <2>2. pc'[u] = "idle" /\ OthersStay(u) /\ UNCHANGED <<owner, strayed, made, object>>
    BY <1>7, EndMoves DEF Poll
  <2> QED
    BY <2>1, <2>2 DEF OthersStay
<1>8. ASSUME NEW u \in Flows, ReadPending(u) PROVE OwnersKept'
  <2>1. CASE Ends(u) /\ UNCHANGED <<idem, keys>>
    <3>1. /\ pc'[u] = "idle" /\ OthersStay(u)
          /\ UNCHANGED <<owner, strayed, made, object, stash>>
      BY <1>8, <2>1, EndMoves DEF ReadPending
    <3> QED
      BY <3>1 DEF OthersStay
  <2>2. CASE ~(Ends(u) /\ UNCHANGED <<idem, keys>>)
    BY <1>8, <2>2 DEF ReadPending, OwnStash
  <2> QED
    BY <2>1, <2>2
<1>9. ASSUME NEW t \in Tabs, DropForeign(t) PROVE OwnersKept'
  BY <1>9 DEF DropForeign, clearPendingCVUpload, Empty
<1>10. ASSUME NEW t \in Tabs, TokenChanges(t) PROVE OwnersKept'
  BY <1>10 DEF TokenChanges
<1>11. ASSUME NEW t \in Tabs, Reload(t) PROVE OwnersKept'
  <2>1. UNCHANGED <<owner, strayed, made, object, stash>>
    BY <1>11 DEF Reload
  <2> QED
    BY <1>11, <2>1, ReloadMoves
<1>12. ASSUME NEW t \in Tabs, NEW j \in Jobs, TrackEnds(t, j) PROVE OwnersKept'
  BY <1>12 DEF TrackEnds
<1>13. ASSUME NEW t \in Tabs, NEW a \in Accounts, SwitchAccount(t, a) PROVE OwnersKept'
  BY <1>13 DEF SwitchAccount
<1>14. ASSUME NEW j \in Jobs, JobEnds(j) PROVE OwnersKept'
  BY <1>14 DEF JobEnds
<1>15. CASE UNCHANGED vars
  BY <1>15
<1> QED
  BY <1>1, <1>2, <1>3, <1>4, <1>5, <1>6, <1>7, <1>8, <1>9, <1>10, <1>11, <1>12, <1>13, <1>14,
     <1>15 DEF Next, Proceed, Talks

LEMMA OwnersInit == Init => OwnersKept
BY DEF Init, OwnersKept, Owned, Sent, Empty

\* The job made of a held file is the account's that picked it, but for an
\* upload whose token was refreshed into another account's.
THEOREM OwnersHold == Spec => []FilesStayWithOwner
<1>1. OwnersKept => FilesStayWithOwner
  BY DEF OwnersKept, Owned, FilesStayWithOwner
<1> QED
  BY <1>1, TypedInit, TypedStep, OwnersInit, OwnerStep, PTL DEF Spec

-----------------------------------------------------------------------------
(* One key for a pick, and so one job. *)

\* A step that puts no pick under a new key.
LEMMA NoMoreUnder ==
    ASSUME Typed, OneKey, Fresh,
           \A p \in Picks : \A k \in Keys : Under(p, k)' => Under(p, k),
           \A u \in Flows : pc'[u] = "preflight" => pc[u] = "preflight" /\ pick'[u] = pick[u]
    PROVE  OneKey' /\ Fresh'
<1>1. OneKey'
  BY DEF OneKey
<1>2. Fresh'
  <2> SUFFICES ASSUME NEW u \in Flows, pc'[u] = "preflight"
               PROVE  /\ \A k \in Keys : ~Under(pick[u], k)'
                      /\ \A v \in Flows \ {u} : pc'[v] = "preflight" => pick'[v] # pick'[u]
    BY DEF Fresh
  <2>1. pc[u] = "preflight" /\ pick'[u] = pick[u] /\ pick[u] \in Picks
    BY DEF Typed, Keyed
  <2>2. PICK p \in Picks : p = pick[u]
    BY <2>1
  <2>3. ASSUME NEW k \in Keys PROVE ~Under(p, k)'
    BY <2>1, <2>2 DEF Fresh
  <2>4. ASSUME NEW k \in Keys PROVE ~Under(pick[u], k)'
    BY <2>1, <2>2, <2>3 DEF Under
  <2> QED
    BY <2>1, <2>4 DEF Fresh
<1> QED
  BY <1>1, <1>2

\* Every step but a new pick and the start of its upload leaves each pick with
\* the keys it had.
LEMMA KeyStep ==
    ASSUME Typed, OneKey, Fresh, [Next]_vars
    PROVE  OneKey' /\ Fresh'
<1> USE DEF Sent
<1>0. /\ pick \in [Flows -> 0..MaxPicks] /\ picks \in 0..MaxPicks /\ Keyed /\ Numbered
      /\ pc \in [Flows -> Pcs] /\ key \in [Flows -> 0..MaxKeys]
  BY DEF Typed, TypeOK, FlowTypes, ServerTypes, Pcs
<1> USE <1>0
<1> DEFINE Less == \A p \in Picks : \A k \in Keys : Under(p, k)' => Under(p, k)
           Old  == \A u \in Flows : pc'[u] = "preflight" => pc[u] = "preflight" /\ pick'[u] = pick[u]
<1>q. Less /\ Old => OneKey' /\ Fresh'
  BY NoMoreUnder
<1>1. ASSUME NEW u \in Flows, NEW f \in Files, Pick(u, f) PROVE OneKey' /\ Fresh'
  <2>1. picks + 1 \in Picks
    BY <1>1, ClientAssumption DEF Pick, Picks
  <2>2. Less
    BY <1>1 DEF Pick, Under
  <2>3. OneKey'
    BY <2>2 DEF OneKey
  <2>4. \A k \in Keys : ~Under(picks + 1, k)
    BY <2>1, ClientAssumption DEF Under, Numbered, Picks
  <2>5. /\ pick'[u] = picks + 1
        /\ \A v \in Flows \ {u} : pc'[v] = pc[v] /\ pick'[v] = pick[v] /\ pick[v] <= picks
    BY <1>1 DEF Pick, Numbered
  <2>6. Fresh'
    <3> SUFFICES ASSUME NEW v \in Flows, pc'[v] = "preflight"
                 PROVE  /\ \A k \in Keys : ~Under(pick[v], k)'
                        /\ \A w \in Flows \ {v} : pc'[w] = "preflight" => pick'[w] # pick'[v]
      BY DEF Fresh
    <3>1. PICK p \in Picks : p = pick'[v]
      BY <2>1, <2>5 DEF Keyed
    <3>2. \A k \in Keys : ~Under(p, k)
      BY <3>1, <2>4, <2>5 DEF Fresh
    <3>3. \A k \in Keys : ~Under(p, k)'
      BY <2>2, <3>2
    <3>4. \A k \in Keys : ~Under(pick[v], k)'
      BY <3>1, <3>3 DEF Under
    <3> QED
      BY <3>4, <2>5 DEF Fresh
  <2> QED
    BY <2>3, <2>6
<1>2. ASSUME NEW u \in Flows, Begin(u) PROVE OneKey' /\ Fresh'
  <2>1. PICK q \in Picks : q = pick[u]
    BY <1>2 DEF Begin, Keyed
  <2>2. PICK n \in Keys : n = readOrCreateKey
    BY <1>2 DEF Begin
  <2>3. \A k \in Keys : ~Under(q, k)
    BY <1>2, <2>1 DEF Begin, Fresh, Under
  <2>4. ASSUME NEW p \in Picks, NEW k \in Keys, Under(p, k)'
        PROVE  Under(p, k) \/ (p = q /\ k = n)
    BY <1>2, <2>1, <2>2, <2>4 DEF Begin, Under
  <2>5. OneKey'
    BY <2>3, <2>4 DEF OneKey
  <2>6. Fresh'
    <3> SUFFICES ASSUME NEW v \in Flows, pc'[v] = "preflight"
                 PROVE  /\ \A k \in Keys : ~Under(pick[v], k)'
                        /\ \A w \in Flows \ {v} : pc'[w] = "preflight" => pick'[w] # pick'[v]
      BY DEF Fresh
    <3>1. v # u /\ pc[v] = "preflight" /\ pick' = pick /\ pick[v] # pick[u]
      BY <1>2 DEF Begin, Fresh
    <3>2. PICK p \in Picks : p = pick[v]
      BY <3>1 DEF Keyed
    <3>3. \A k \in Keys : ~Under(p, k)
      BY <3>1, <3>2 DEF Fresh, Under
    <3>4. \A k \in Keys : ~Under(p, k)'
      BY <2>1, <2>4, <3>1, <3>2, <3>3
    <3>5. \A k \in Keys : ~Under(pick[v], k)'
      BY <3>1, <3>2, <3>4 DEF Under
    <3>6. \A w \in Flows \ {v} : pc'[w] = "preflight" => pc[w] = "preflight"
      BY <1>2 DEF Begin
    <3> QED
      BY <3>1, <3>5, <3>6 DEF Fresh
  <2> QED
    BY <2>5, <2>6
<1>3. ASSUME NEW u \in Flows, Stash(u) PROVE Less /\ Old
  BY <1>3 DEF Stash, Under
<1>4. ASSUME NEW u \in Flows, Talks(u) PROVE Less /\ Old
  <2>1. /\ pc[u] \in Sending /\ pc'[u] \in Sending /\ OthersStay(u)
        /\ UNCHANGED <<pick, key, stash>>
    BY <1>4, TalkMoves
  <2>2. Old
    BY <2>1 DEF OthersStay, Sending
  <2>3. Less
    <3> SUFFICES ASSUME NEW p \in Picks, NEW k \in Keys, Under(p, k)'
                 PROVE  Under(p, k)
      OBVIOUS
    <3>1. CASE \E v \in Flows : pc'[v] \in Sent /\ pick'[v] = p /\ key'[v] = k
      BY <2>1, <3>1 DEF OthersStay, Sending, Under
    <3>2. CASE stash'.pick = p /\ stash'.key = k
      BY <2>1, <3>2 DEF Under
    <3>3. ASSUME NEW j \in Jobs, j[2] = k, made'[j] = p \/ object'[j] = p PROVE Under(p, k)
      <4>1. CASE made[j] = p \/ object[j] = p
        BY <3>3, <4>1 DEF Under
      <4>2. CASE j = Job(u) /\ pick[u] = p
        <5>1. key[u] = k
          BY <3>3, <4>2 DEF Job
        <5> QED
          BY <2>1, <4>2, <5>1 DEF Under, Sending
      <4>3. p # 0
        BY DEF Picks
      <4> QED
        BY <1>4, <3>3, <4>1, <4>2, <4>3, TalkWrites
    <3> QED
      BY <3>1, <3>2, <3>3 DEF Under
  <2> QED
    BY <2>2, <2>3
<1>5. ASSUME NEW u \in Flows, Hear(u) PROVE Less /\ Old
  <2>1. stash' = stash \/ stash'.pick = 0
    BY <1>5 DEF Hear, clearPendingCVUpload, Empty
  <2>2. UNCHANGED <<made, object>> /\ pc[u] = "hear"
    BY <1>5 DEF Hear
  <2>3. OthersStay(u) /\ (pc'[u] = "idle" \/ (pc'[u] = "poll" /\ pick'[u] = pick[u] /\ key'[u] = key[u]))
    BY <1>5, HearMoves
  <2> QED
    BY <2>1, <2>2, <2>3 DEF OthersStay, Under, Picks
<1>6. ASSUME NEW u \in Flows, Poll(u) PROVE Less /\ Old
  <2>1. stash' = stash \/ stash'.pick = 0
    BY <1>6 DEF Poll, Empty
  <2>2. pc'[u] = "idle" /\ OthersStay(u) /\ UNCHANGED <<made, object>>
    BY <1>6, EndMoves DEF Poll
  <2> QED
    BY <2>1, <2>2 DEF OthersStay, Under, Picks
<1>7. ASSUME NEW u \in Flows, ReadPending(u) PROVE Less /\ Old
  <2>1. CASE Ends(u) /\ UNCHANGED <<idem, keys>>
    <3>1. /\ pc'[u] = "idle" /\ OthersStay(u) /\ UNCHANGED <<made, object, stash>>
      BY <1>7, <2>1, EndMoves DEF ReadPending
    <3> QED
      BY <3>1 DEF OthersStay, Under
  <2>2. CASE ~(Ends(u) /\ UNCHANGED <<idem, keys>>)
    BY <1>7, <2>2 DEF ReadPending, PinnedKey, Under
  <2> QED
    BY <2>1, <2>2
<1>8. ASSUME NEW t \in Tabs, DropForeign(t) PROVE Less /\ Old
  BY <1>8 DEF DropForeign, clearPendingCVUpload, Empty, Under, Picks
<1>9. ASSUME NEW t \in Tabs, Reload(t) PROVE Less /\ Old
  <2>1. UNCHANGED <<made, object, stash>>
    BY <1>9 DEF Reload
  <2> QED
    BY <1>9, <2>1, ReloadMoves DEF Under
<1>10. ASSUME NEW u \in Flows, Resume(u) PROVE Less /\ Old
  BY <1>10 DEF Resume, Under
<1>11. ASSUME UNCHANGED <<pc, pick, key, stash, made, object>> PROVE Less /\ Old
  BY <1>11 DEF Under
<1>12. ASSUME NEW t \in Tabs, TokenChanges(t) \/ (\E j \in Jobs : TrackEnds(t, j))
                              \/ \E a \in Accounts : SwitchAccount(t, a)
       PROVE  Less /\ Old
  <2>1. UNCHANGED <<pc, pick, key, stash, made, object>>
    BY <1>12 DEF TokenChanges, TrackEnds, SwitchAccount
  <2> QED
    BY <2>1, <1>11
<1>13. ASSUME NEW j \in Jobs, JobEnds(j) PROVE Less /\ Old
  BY <1>13, <1>11 DEF JobEnds
<1>14. ASSUME UNCHANGED vars PROVE Less /\ Old
  <2>1. UNCHANGED <<pc, pick, key, stash, made, object>>
    BY <1>14
  <2> QED
    BY <2>1, <1>11
<1> HIDE DEF Less, Old
<1> QED
  BY <1>1, <1>2, <1>3, <1>4, <1>5, <1>6, <1>7, <1>8, <1>9, <1>10, <1>12, <1>13,
     <1>14, <1>q DEF Next, Proceed, Talks

LEMMA KeyInit == Init => OneKey /\ Fresh
BY DEF Init, OneKey, Fresh, Under, Sent, Empty, Picks

LEMMA AtMostOne ==
    ASSUME NEW S, \A i, j \in S : i = j
    PROVE  Cardinality(S) <= 1
<1>1. CASE S = {}
  BY <1>1, FS_EmptySet
<1>2. ASSUME NEW i \in S PROVE Cardinality(S) <= 1
  <2>1. S = {i}
    BY <1>2
  <2> QED
    <3>1. Cardinality({i}) = 1
      BY FS_Singleton
    <3> QED
      BY <2>1, <3>1
<1> QED
  BY <1>1, <1>2

\* A pick becomes one job: its account and its key are one, wherever it went.
THEOREM PicksBecomeOneJob == Spec => []OneJobPerPick
<1>1. ASSUME Typed, OwnersKept, OneKey PROVE OneJobPerPick
  <2> SUFFICES ASSUME NEW p \in Picks \ strayed
               PROVE  Cardinality({j \in Jobs : made[j] = p}) <= 1
    BY DEF OneJobPerPick
  <2>1. ASSUME NEW i \in Jobs, NEW j \in Jobs, made[i] = p, made[j] = p PROVE i = j
    <3>1. i[1] = j[1]
      BY <1>1, <2>1 DEF OwnersKept, Owned, Picks
    <3>2. i[2] \in Keys /\ j[2] \in Keys
      BY DEF Jobs
    <3>3. i[2] = j[2]
      BY <1>1, <2>1, <3>2 DEF OneKey, Under
    <3> QED
      BY <3>1, <3>3 DEF Jobs
  <2> QED
    BY <2>1, AtMostOne
<1> QED
  BY <1>1, TypedInit, TypedStep, OwnersInit, OwnerStep, KeyInit, KeyStep, PTL DEF Spec

-----------------------------------------------------------------------------
(* The slot. *)

SlotKept == SlotIsMine /\ KeptUntilAnswered

LEMMA SlotInit == Init => SlotKept
BY DEF Init, SlotKept, SlotIsMine, KeptUntilAnswered, Holding

\* The slot is emptied by an upload that found its own pick there, and was
\* answered or failed for good; what else it meets there is recorded.
LEMMA SlotStep ==
    ASSUME Typed, SlotKept, [Next]_vars
    PROVE  SlotKept'
<1> USE DEF SlotKept, SlotIsMine, KeptUntilAnswered, Holding
<1>0. /\ pick \in [Flows -> 0..MaxPicks] /\ pc \in [Flows -> Pcs] /\ reply \in [Flows -> Replies]
      /\ stash.pick \in 0..MaxPicks /\ held \subseteq Picks /\ crossed \subseteq Picks
      /\ Keyed
  BY DEF Typed, TypeOK, FlowTypes, LocalTypes, GhostTypes, Pcs, Replies
<1> USE <1>0
<1>1. ASSUME NEW u \in Flows, NEW f \in Files, Pick(u, f) PROVE SlotKept'
  BY <1>1 DEF Pick
<1>2. ASSUME NEW u \in Flows, Resume(u) PROVE SlotKept'
  BY <1>2 DEF Resume
<1>3. ASSUME NEW u \in Flows, Begin(u) PROVE SlotKept'
  BY <1>3 DEF Begin
<1>4. ASSUME NEW u \in Flows, Stash(u) PROVE SlotKept'
  <2>1. pick[u] \in Picks /\ stash'.pick = pick[u] /\ held' = held \cup {pick[u]}
    BY <1>4 DEF Stash, Keyed, Sent
  <2>2. crossed \subseteq crossed' /\ UNCHANGED <<pick, reply, answered, fatal>>
    BY <1>4 DEF Stash
  <2>3. pc' = [pc EXCEPT ![u] = "put"]
    BY <1>4 DEF Stash
  <2>4. ASSUME NEW q \in Others(u) PROVE q \in crossed' /\ pick[u] \in crossed'
    BY <1>4, <2>4 DEF Stash
  <2>5. KeptUntilAnswered'
    <3> SUFFICES ASSUME NEW p \in held' \ (crossed' \cup fatal')
                 PROVE  p \in answered' \/ stash'.pick = p
      BY DEF KeptUntilAnswered
    <3>1. CASE p = pick[u]
      BY <3>1, <2>1
    <3>2. CASE p # pick[u]
      <4>1. p \in held \ (crossed \cup fatal) /\ p \in Picks
        BY <3>2, <2>1, <2>2
      <4>2. stash.pick # p
        BY <4>1, <3>2, <2>4 DEF Others
      <4> QED
        BY <4>1, <4>2, <2>2
    <3> QED
      BY <3>1, <3>2
  <2>6. SlotIsMine'
    <3> SUFFICES ASSUME NEW v \in Flows
                 PROVE  /\ pc'[v] \in Holding => stash'.pick \in {0, pick'[v]} \cup crossed'
                        /\ pc'[v] = "hear" => reply'[v] # "none"
                        /\ pc'[v] = "poll" => pick'[v] \in answered'
      BY DEF SlotIsMine
    <3>1. CASE v = u
      BY <3>1, <2>1, <2>2, <2>3
    <3>2. CASE v # u
      <4>1. pc'[v] = pc[v] /\ pick'[v] = pick[v] /\ reply'[v] = reply[v]
        BY <3>2, <2>2, <2>3
      <4>2. ASSUME pc[v] \in Holding, pick[v] # pick[u] PROVE pick[u] \in crossed'
        <5>1. pick[v] \in Picks
          BY <4>2 DEF Keyed, Sent
        <5>2. pick[v] \in Others(u)
          BY <4>2, <5>1 DEF Others, Carrying
        <5> QED
          BY <5>2, <2>4
      <4> QED
        BY <4>1, <4>2, <2>1, <2>2
    <3> QED
      BY <3>1, <3>2
  <2> QED
    BY <2>5, <2>6
<1>5. ASSUME NEW u \in Flows, Talks(u) PROVE SlotKept'
  BY <1>5, TalkMoves DEF OthersStay, Sending
<1>6. ASSUME NEW u \in Flows, Hear(u) PROVE SlotKept'
  <2>1. pc[u] = "hear" /\ stash.pick \in {0, pick[u]} \cup crossed /\ reply[u] # "none"
    BY <1>6 DEF Hear
  <2>2. UNCHANGED <<held, crossed>> /\ answered \subseteq answered' /\ fatal \subseteq fatal'
    BY <1>6 DEF Hear
  <2>3. \/ stash' = stash
        \/ /\ stash'.pick = 0
           /\ pick[u] \in answered' \cup fatal'
    <3>1. reply[u] \in Answers \cup {"fatal"} => pick[u] \in answered' \cup fatal'
      BY <1>6 DEF Hear
    <3>2. CASE reply[u] = "retryable"
      BY <1>6, <3>2 DEF Hear, NothingToResume
    <3>3. CASE reply[u] # "retryable"
      BY <1>6, <2>1, <3>1, <3>3 DEF Hear, NothingToResume, clearPendingCVUpload, Empty, Replies
    <3> QED
      BY <3>2, <3>3
  <2>4. KeptUntilAnswered'
    <3> SUFFICES ASSUME NEW p \in held' \ (crossed' \cup fatal')
                 PROVE  p \in answered' \/ stash'.pick = p
      BY DEF KeptUntilAnswered
    <3>1. p \in held \ (crossed \cup fatal) /\ p # 0
      BY <2>2 DEF Picks
    <3>2. p \in answered \/ stash.pick = p
      BY <3>1
    <3> QED
      BY <3>1, <3>2, <2>1, <2>2, <2>3
  <2>5. OthersStay(u)
    BY <1>6, HearMoves
  <2>6. \/ pc'[u] = "idle"
        \/ pc'[u] = "poll" /\ pick'[u] = pick[u] /\ pick[u] \in answered'
    BY <1>6, HearMoves DEF Hear, Answers
  <2>7. SlotIsMine'
    BY <2>1, <2>2, <2>3, <2>5, <2>6 DEF OthersStay
  <2> QED
    BY <2>4, <2>7
<1>7. ASSUME NEW u \in Flows, Poll(u) PROVE SlotKept'
  <2>1. /\ pc[u] = "poll" /\ pick[u] \in answered
        /\ stash.pick \in {0, pick[u]} \cup crossed
    BY <1>7 DEF Poll
  <2>2. stash' = stash \/ stash'.pick = 0
    BY <1>7 DEF Poll, Empty
  <2>3. pc'[u] = "idle" /\ OthersStay(u) /\ UNCHANGED <<held, crossed, answered, fatal>>
    BY <1>7, EndMoves DEF Poll
  <2> QED
    BY <2>1, <2>2, <2>3 DEF OthersStay, Picks
<1>8. ASSUME NEW u \in Flows, ReadPending(u) PROVE SlotKept'
  <2>1. CASE Ends(u) /\ UNCHANGED <<idem, keys>>
    <3>1. /\ pc'[u] = "idle" /\ OthersStay(u)
          /\ UNCHANGED <<stash, held, crossed, answered, fatal>>
      BY <1>8, <2>1, EndMoves DEF ReadPending
    <3> QED
      BY <3>1 DEF OthersStay
  <2>2. CASE ~(Ends(u) /\ UNCHANGED <<idem, keys>>)
    BY <1>8, <2>2 DEF ReadPending
  <2> QED
    BY <2>1, <2>2
<1>9. ASSUME NEW t \in Tabs, DropForeign(t) PROVE SlotKept'
  BY <1>9 DEF DropForeign, clearPendingCVUpload, Empty
<1>10. ASSUME NEW t \in Tabs, Reload(t) PROVE SlotKept'
  <2>1. UNCHANGED <<stash, held, crossed, answered, fatal>>
    BY <1>10 DEF Reload
  <2> QED
    BY <1>10, <2>1, ReloadMoves
<1>11. ASSUME UNCHANGED <<pc, pick, reply, stash, held, crossed, answered, fatal>> PROVE SlotKept'
  BY <1>11
<1>12. ASSUME NEW t \in Tabs, TokenChanges(t) \/ (\E j \in Jobs : TrackEnds(t, j))
                              \/ \E a \in Accounts : SwitchAccount(t, a)
       PROVE  SlotKept'
  <2>1. UNCHANGED <<pc, pick, reply, stash, held, crossed, answered, fatal>>
    BY <1>12 DEF TokenChanges, TrackEnds, SwitchAccount
  <2> QED
    BY <2>1, <1>11
<1>13. ASSUME NEW j \in Jobs, JobEnds(j) PROVE SlotKept'
  BY <1>13, <1>11 DEF JobEnds
<1>14. ASSUME UNCHANGED vars PROVE SlotKept'
  BY <1>14
<1> HIDE DEF SlotKept
<1> QED
  BY <1>1, <1>2, <1>3, <1>4, <1>5, <1>6, <1>7, <1>8, <1>9, <1>10, <1>12, <1>13,
     <1>14 DEF Next, Proceed, Talks

\* A held file is there until the server answered, its upload failed for good,
\* or another used the slot.
THEOREM HeldUntilAnswered == Spec => []KeptUntilAnswered
<1>1. SlotKept => KeptUntilAnswered
  BY DEF SlotKept
<1> QED
  BY <1>1, TypedInit, TypedStep, SlotInit, SlotStep, PTL DEF Spec

-----------------------------------------------------------------------------
(* The observers. *)

Watched == ActiveIsTracked /\ AcceptedIsWatched

LEMMA NoJobIsNone == NoJob \notin Jobs
BY DEF NoJob, Jobs

LEMMA WatchInit == Init => Watched
BY NoJobIsNone DEF Init, Watched, ActiveIsTracked, AcceptedIsWatched

\* A job is let go by the poll of a page of its account.
LetsGo(t, j) == track[t][j] = "live" /\ user[t] = j[1]

LEMMA TokenWatch ==
    ASSUME Typed, Watched, NEW t \in Tabs, NewToken(t), UNCHANGED jobId
    PROVE  Watched'
<1> USE NoJobIsNone, ClientAssumption DEF Watched, ActiveIsTracked, AcceptedIsWatched
<1>0. /\ track \in [Tabs -> [Jobs -> {"no", "live", "deaf"}]] /\ jobId \in Jobs \cup {NoJob}
      /\ active \in [Tabs -> Jobs \cup {NoJob}] /\ user \in [Tabs -> Accounts]
  BY DEF Typed, TypeOK, TabTypes, LocalTypes
<1> USE <1>0
<1>1. \A s \in Tabs \ {t} : track'[s] = track[s] /\ active'[s] = active[s] /\ user'[s] = user[s]
  BY DEF NewToken
<1>2. ActiveIsTracked'
  <2>1. \A j \in Jobs : track[t][j] # "no" => track'[t][j] # "no"
    BY DEF NewToken
  <2>2. active'[t] = active[t] \/ (active'[t] = jobId /\ jobId \in Jobs /\ track'[t][jobId] = "live")
    BY DEF NewToken
  <2> QED
    BY <1>1, <2>1, <2>2
<1>3. AcceptedIsWatched'
  <2> SUFFICES ASSUME jobId \in Jobs
               PROVE  jobId \in unheard' \/ \E s \in Tabs : LetsGo(s, jobId)'
    BY DEF LetsGo
  <2>1. CASE active[t] # jobId
    <3>1. track'[t][jobId] = "live" /\ user'[t] = session
      BY <2>1 DEF NewToken
    <3>2. jobId[1] # session => jobId \in unheard'
      BY <2>1 DEF NewToken
    <3> QED
      BY <3>1, <3>2 DEF LetsGo
  <2>2. CASE active[t] = jobId
    <3>1. unheard \subseteq unheard' /\ (track[t][jobId] = "live" => jobId \in unheard')
      BY <2>2 DEF NewToken
    <3>2. ASSUME NEW s \in Tabs, LetsGo(s, jobId), s # t PROVE LetsGo(s, jobId)'
      BY <1>1, <3>2 DEF LetsGo
    <3> QED
      BY <3>1, <3>2 DEF LetsGo
  <2> QED
    BY <2>1, <2>2
<1> QED
  BY <1>2, <1>3

LEMMA WatchStep ==
    ASSUME Typed, Watched, [Next]_vars
    PROVE  Watched'
<1> USE NoJobIsNone, ClientAssumption DEF Watched, ActiveIsTracked, AcceptedIsWatched
<1>0. /\ track \in [Tabs -> [Jobs -> {"no", "live", "deaf"}]] /\ jobId \in Jobs \cup {NoJob}
      /\ active \in [Tabs -> Jobs \cup {NoJob}] /\ user \in [Tabs -> Accounts]
  BY DEF Typed, TypeOK, TabTypes, LocalTypes
<1> USE <1>0
<1>1. ASSUME UNCHANGED <<track, active, user, unheard>>, jobId' \in {jobId, NoJob} PROVE Watched'
  BY <1>1
<1>2. ASSUME NEW t \in Tabs, Mounts(t), user' \in [Tabs -> Accounts],
             \A s \in Tabs \ {t} : user'[s] = user[s], UNCHANGED jobId
      PROVE  Watched'
  <2>1. \A s \in Tabs \ {t} : track'[s] = track[s] /\ active'[s] = active[s]
    BY <1>2 DEF Mounts
  <2>2. active'[t] = jobId /\ (jobId # NoJob => track'[t][jobId] = "live")
    BY <1>2 DEF Mounts
  <2>3. jobId # NoJob => user'[t] = jobId[1] \/ jobId \in unheard'
    BY <1>2 DEF Mounts, Meets
  <2> QED
    BY <1>2, <2>1, <2>2, <2>3
<1>3. ASSUME NEW u \in Flows, Hear(u) PROVE Watched'
  <2>0. UNCHANGED user
    BY <1>3 DEF Hear
  <2>1. CASE UNCHANGED <<track, active, unheard>> /\ jobId' \in {jobId, NoJob}
    BY <1>1, <2>0, <2>1
  <2>2. CASE jobId' = Job(u) /\ Tracked(Of[u], Job(u))
    <3>1. key[u] \in Keys
      BY <1>3 DEF Hear, Typed, Keyed, Sent
    <3>2. Job(u) \in Jobs /\ Of[u] \in Tabs
      BY <3>1, JobTypes DEF Typed, TypeOK
    <3>3. CASE active[Of[u]] = Job(u)
      <4>1. UNCHANGED <<track, active>>
        BY <2>2, <3>3 DEF Tracked
      <4>2. track[Of[u]][Job(u)] \in {"live", "deaf"}
        BY <3>2, <3>3
      <4>3. Job(u) \in unheard' \/ (track[Of[u]][Job(u)] = "live" /\ user[Of[u]] = Job(u)[1])
        BY <2>2, <3>2, <3>3, <4>2 DEF Tracked, Meets
      <4> QED
        BY <2>0, <2>2, <3>2, <4>1, <4>3
    <3>4. CASE active[Of[u]] # Job(u)
      <4>1. /\ track' = [track EXCEPT ![Of[u]] = [track[Of[u]] EXCEPT ![Job(u)] = "live"]]
            /\ active' = [active EXCEPT ![Of[u]] = Job(u)]
        BY <2>2, <3>4 DEF Tracked
      <4>2. track'[Of[u]][Job(u)] = "live" /\ active'[Of[u]] = Job(u)
        BY <3>2, <4>1
      <4>3. \A s \in Tabs \ {Of[u]} : track'[s] = track[s] /\ active'[s] = active[s]
        BY <4>1
      <4>4. Job(u) \in unheard' \/ user[Of[u]] = Job(u)[1]
        BY <2>2, <3>2, <3>4 DEF Tracked, Meets
      <4> QED
        BY <2>0, <2>2, <3>2, <4>2, <4>3, <4>4
    <3> QED
      BY <3>3, <3>4
  <2> QED
    BY <1>3, <2>1, <2>2 DEF Hear, clearCVUploadPersistence
<1>4. ASSUME NEW t \in Tabs, NEW j \in Jobs, TrackEnds(t, j) PROVE Watched'
  <2>1. track' = [track EXCEPT ![t] = [track[t] EXCEPT ![j] = "no"]]
    BY <1>4 DEF TrackEnds
  <2>2. \A s \in Tabs : \A i \in Jobs : s # t \/ i # j => track'[s][i] = track[s][i]
    BY <2>1
  <2>3. \A s \in Tabs : active'[s] = active[s] \/ active'[s] = NoJob
    BY <1>4 DEF TrackEnds
  <2>4. active[t] = j => active'[t] = NoJob
    BY <1>4 DEF TrackEnds
  <2>5. ActiveIsTracked'
    BY <2>2, <2>3, <2>4
  <2>6. jobId' = NoJob \/ (jobId' = jobId /\ track[t][j] = "deaf")
    BY <1>4 DEF TrackEnds, clearCVUploadPersistence
  <2>7. UNCHANGED <<user, unheard>>
    BY <1>4 DEF TrackEnds
  <2>8. AcceptedIsWatched'
    BY <2>2, <2>6, <2>7
  <2> QED
    BY <2>5, <2>8
<1>5. ASSUME NEW t \in Tabs, TokenChanges(t) PROVE Watched'
  BY <1>5, TokenWatch DEF TokenChanges
<1>6. ASSUME NEW t \in Tabs, Reload(t) \/ \E a \in Accounts : SwitchAccount(t, a) PROVE Watched'
  <2>1. /\ Mounts(t) /\ UNCHANGED jobId
        /\ user' \in [Tabs -> Accounts] /\ \A s \in Tabs \ {t} : user'[s] = user[s]
    BY <1>6 DEF Reload, SwitchAccount, Typed, TypeOK, TabTypes
  <2> QED
    BY <2>1, <1>2
<1>7. ASSUME NEW u \in Flows, (\E f \in Files : Pick(u, f)) \/ Resume(u) \/ Begin(u) \/ Stash(u)
                              \/ Poll(u) \/ ReadPending(u)
      PROVE  Watched'
  <2>1. UNCHANGED <<track, active, user, unheard>> /\ jobId' \in {jobId, NoJob}
    BY <1>7 DEF Pick, Resume, Begin, Stash, Poll, ReadPending, clearCVUploadPersistence
  <2> QED
    BY <2>1, <1>1
<1>8. ASSUME NEW u \in Flows, Talks(u) PROVE Watched'
  <2>1. UNCHANGED jobId
    BY <1>8, TalkMoves
  <2>2. CASE PostRefreshes(u) /\ NewToken(Of[u])
    BY <2>1, <2>2, TokenWatch
  <2>3. CASE ~(PostRefreshes(u) /\ NewToken(Of[u]))
    <3>1. UNCHANGED <<track, active, user, unheard>>
      BY <1>8, <2>3 DEF Talks, Put, Finalize, Post, PostRefreshes, PostLogsOut
    <3> QED
      BY <2>1, <3>1, <1>1
  <2> QED
    BY <2>2, <2>3
<1>9. ASSUME NEW t \in Tabs, DropForeign(t) PROVE Watched'
  BY <1>9, <1>1 DEF DropForeign
<1>10. ASSUME NEW j \in Jobs, JobEnds(j) PROVE Watched'
  BY <1>10, <1>1 DEF JobEnds
<1>11. ASSUME UNCHANGED vars PROVE Watched'
  BY <1>11, <1>1
<1> HIDE DEF Watched
<1> QED
  BY <1>3, <1>4, <1>5, <1>6, <1>7, <1>8, <1>9, <1>10, <1>11 DEF Next, Proceed, Talks

\* An accepted job, for as long as it blocks the browser's next upload, is polled by
\* a page of its account that will let it go; but for one that a page of another
\* account came upon, or whose poll a new token made deaf.
THEOREM AcceptedJobsAreWatched == Spec => []AcceptedIsWatched
<1>1. Watched => AcceptedIsWatched
  BY DEF Watched
<1> QED
  BY <1>1, TypedInit, TypedStep, WatchInit, WatchStep, PTL DEF Spec
=============================================================================
