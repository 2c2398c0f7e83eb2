------------------------------ MODULE PaidRun ------------------------------
(***************************************************************************)
(* A paid artifact of one person for one job: the CV weave, the outreach   *)
(* pack or the day-of brief (backend/app/routers/cv/weave.py,              *)
(* routers/jobs/reach.py, routers/jobs/prep.py), each POST run under the   *)
(* claim of backend/app/services/paid_run.py, which is a Redis lease of    *)
(* services/background/debounce.py.                                        *)
(*                                                                         *)
(* A run takes the claim, reads the cache, asks whether the wallet covers  *)
(* the price, has a model do the work, charges, saves the artifact and     *)
(* frees the claim.  The process may die between any two of these steps,   *)
(* and any call may fail after it took effect or before.                   *)
(***************************************************************************)
EXTENDS Naturals, FiniteSets

CONSTANTS
    Runs,        \* POSTs
    Refreshers,  \* the weave's POSTs with refresh: true
    Papers,      \* fingerprints of the CV the artifact is written from
    FreeDrafts,  \* may a draft be free (the weave, no role reworked)?
    Overrun,     \* may a run's calls outlast its claim?
    Funds,       \* bound: how many artifacts the wallet covers
    MaxFaults,   \* bound: runs that meet a failure
    NoRun, NoArtifact

ASSUME RefreshersAreRuns == Refreshers \subseteq Runs
ASSUME RunNumbers == Funds \in Nat /\ MaxFaults \in Nat /\ Papers # {}
ASSUME NamesAreNew == NoRun \notin Runs /\ NoArtifact \notin Papers

VARIABLES
    lease,    \* the run whose token the claim's key holds
    cached,   \* the fingerprint the cached artifact was written for
    paper,    \* the paper now
    funds,    \* how many artifacts the wallet still covers
    pc,       \* runs: next step
    read,     \* runs: the paper they read
    charged,  \* runs that were debited
    faulted,  \* runs that met a failure
    lapsed    \* runs whose claim expired under them

shared == <<lease, cached, paper, funds>>
vars   == <<shared, pc, read, charged, faulted, lapsed>>

\* The steps taken under the claim, and those after the cache was read.
Claimed == {"look", "fund", "work", "charge", "save", "release"}
Missed  == {"fund", "work", "charge", "save"}

TypeOK ==
    /\ lease \in Runs \cup {NoRun}
    /\ cached \in Papers \cup {NoArtifact}
    /\ paper \in Papers
    /\ funds \in Nat
    /\ pc \in [Runs -> {"start", "claim", "ended"} \cup Claimed]
    /\ read \in [Runs -> Papers]
    /\ charged \subseteq Runs
    /\ faulted \subseteq Runs
    /\ lapsed \subseteq Runs

Init ==
    /\ lease = NoRun
    /\ cached = NoArtifact
    /\ paper \in Papers
    /\ funds \in 0..Funds
    /\ pc = [r \in Runs |-> "start"]
    /\ read = [r \in Runs |-> paper]
    /\ charged = {}
    /\ faulted = {}
    /\ lapsed = {}

\* Run r goes from one step to another.
Goes(r, from, to) == pc[r] = from /\ pc' = [pc EXCEPT ![r] = to]

\* A failure of one of run r's calls.
Fault(r) ==
    /\ Cardinality(faulted \cup {r}) <= MaxFaults
    /\ faulted' = faulted \cup {r}

-----------------------------------------------------------------------------
\* Faulty variants of the definitions below.
AnyHit(r) == cached # NoArtifact /\ r \notin Refreshers
FreedByAnyone(r) == NoRun
TakenAnyway == TRUE
Forgotten(r) == cached

\* _load_cache's hit, replayed unless the weave is refreshed for another paper.
Hit(r) == cached # NoArtifact /\ (r \in Refreshers => cached = read[r])

\* acquire_lease: SET NX.
ClaimIsFree == lease = NoRun

\* release_lease: delete the key if it still holds this run's token.
Freed(r) == IF lease = r THEN NoRun ELSE lease

\* assert_can_spend_xp's and charge_coins' test.
Covers == funds > 0

\* charge_coins' debit and upsert_deepening's row.
Debited(r) == charged \cup {r}
Saved(r)   == read[r]

\* The route reads the paper before it asks for the claim.
ReadPaper(r) ==
    /\ Goes(r, "start", "claim")
    /\ read' = [read EXCEPT ![r] = paper]
    /\ UNCHANGED <<shared, charged, faulted, lapsed>>

AcquireLease(r) ==
    /\ Goes(r, "claim", "look")
    /\ ClaimIsFree
    /\ lease' = r
    /\ UNCHANGED <<cached, paper, funds, read, charged, faulted, lapsed>>

\* The in-flight 409.
Refuse(r) ==
    /\ Goes(r, "claim", "ended")
    /\ ~ClaimIsFree
    /\ UNCHANGED <<shared, read, charged, faulted, lapsed>>

\* Redis fails: no token, hence the 409, whether or not the key was set.
AcquireFails(r) ==
    /\ Goes(r, "claim", "ended")
    /\ Fault(r)
    /\ lease' \in {lease} \cup {x \in {r} : ClaimIsFree}
    /\ UNCHANGED <<cached, paper, funds, read, charged, lapsed>>

\* The cached artifact is returned, or there is none to return.
ReadCache(r) ==
    /\ \/ Hit(r) /\ Goes(r, "look", "release")
       \/ ~Hit(r) /\ Goes(r, "look", "fund")
    /\ UNCHANGED <<shared, read, charged, faulted, lapsed>>

\* assert_can_spend_xp.
Preflight(r) ==
    /\ \/ Covers /\ Goes(r, "fund", "work")
       \/ ~Covers /\ Goes(r, "fund", "release")
    /\ UNCHANGED <<shared, read, charged, faulted, lapsed>>

\* The model's work under bounded: an artifact at its price, a free one, or
\* none (a failed or overlong run, the 503).
Work(r) ==
    /\ \/ Goes(r, "work", "charge")
       \/ FreeDrafts /\ Goes(r, "work", "save")
       \/ Goes(r, "work", "release")
    /\ UNCHANGED <<shared, read, charged, faulted, lapsed>>

Charge(r) ==
    /\ Goes(r, "charge", "save")
    /\ Covers
    /\ funds' = funds - 1
    /\ charged' = Debited(r)
    /\ UNCHANGED <<lease, cached, paper, read, faulted, lapsed>>

\* The 402.
ChargeRefused(r) ==
    /\ Goes(r, "charge", "release")
    /\ ~Covers
    /\ UNCHANGED <<shared, read, charged, faulted, lapsed>>

\* The charge raises, whether or not it committed.
ChargeFails(r) ==
    /\ Goes(r, "charge", "release")
    /\ Fault(r)
    /\ \/ UNCHANGED <<funds, charged>>
       \/ Covers /\ funds' = funds - 1 /\ charged' = Debited(r)
    /\ UNCHANGED <<lease, cached, paper, read, lapsed>>

\* upsert_deepening.
Save(r) ==
    /\ Goes(r, "save", "release")
    /\ cached' = Saved(r)
    /\ UNCHANGED <<lease, paper, funds, read, charged, faulted, lapsed>>

SaveFails(r) ==
    /\ Goes(r, "save", "release")
    /\ Fault(r)
    /\ cached' \in {cached, Saved(r)}
    /\ UNCHANGED <<lease, paper, funds, read, charged, lapsed>>

\* held's finally.
ReleaseLease(r) ==
    /\ Goes(r, "release", "ended")
    /\ lease' = Freed(r)
    /\ UNCHANGED <<cached, paper, funds, read, charged, faulted, lapsed>>

ReleaseFails(r) ==
    /\ Goes(r, "release", "ended")
    /\ Fault(r)
    /\ lease' \in {lease, Freed(r)}
    /\ UNCHANGED <<cached, paper, funds, read, charged, lapsed>>

\* The process dies under the run.
Dies(r) ==
    /\ pc[r] \notin {"start", "ended"}
    /\ pc' = [pc EXCEPT ![r] = "ended"]
    /\ Fault(r)
    /\ UNCHANGED <<shared, read, charged, lapsed>>

-----------------------------------------------------------------------------
\* The key's TTL.  RUN_SECONDS bounds the work and CLAIM_SECONDS leaves a
\* minute for the other calls, so that a live run loses its claim only if
\* these calls may outlast it.
LeaseExpires ==
    /\ lease # NoRun
    /\ pc[lease] \in Claimed => Overrun
    /\ lapsed' = lapsed \cup {r \in {lease} : pc[r] \in Claimed}
    /\ lease' = NoRun
    /\ UNCHANGED <<cached, paper, funds, pc, read, charged, faulted>>

\* The person edits the paper, or spends elsewhere.
EditPaper ==
    /\ paper' \in Papers \ {paper}
    /\ UNCHANGED <<lease, cached, funds, pc, read, charged, faulted, lapsed>>

SpendElsewhere ==
    /\ Covers
    /\ funds' = funds - 1
    /\ UNCHANGED <<lease, cached, paper, pc, read, charged, faulted, lapsed>>

RunStep(r) ==
    \/ AcquireLease(r) \/ Refuse(r) \/ ReadCache(r) \/ Preflight(r) \/ Work(r)
    \/ Charge(r) \/ ChargeRefused(r) \/ Save(r) \/ ReleaseLease(r)

RunFails(r) ==
    AcquireFails(r) \/ ChargeFails(r) \/ SaveFails(r) \/ ReleaseFails(r) \/ Dies(r)

Next ==
    \/ \E r \in Runs : ReadPaper(r) \/ RunStep(r) \/ RunFails(r)
    \/ LeaseExpires
    \/ EditPaper
    \/ SpendElsewhere

Spec == Init /\ [][Next]_vars

-----------------------------------------------------------------------------
(***************************************************************************)
(* What the claim promises.                                                *)
(***************************************************************************)
\* A run keeps its claim until it frees it, unless the claim expired under it:
\* no other run's release, late or repeated, takes it away.
RunsHoldTheirClaim ==
    \A r \in Runs : pc[r] \in Claimed /\ r \notin lapsed => lease = r

\* "A Retry can never pay twice", between runs that met no failure and kept
\* their claim.
PaidOnce ==
    \A r, q \in charged \ (Refreshers \cup faulted \cup lapsed) : r = q

\* A run pays for something that is not there: no artifact, or one of another
\* paper that the person asked to replace.
PaysForNew ==
    [][\A r \in Runs : r \in charged' \ charged /\ lapsed = {} =>
           cached = NoArtifact \/ (r \in Refreshers /\ cached # read[r])]_vars

\* A run that paid, met no failure and ended has left an artifact.
PaidIsDelivered ==
    \A r \in charged \ faulted : pc[r] = "save" \/ cached # NoArtifact

(***************************************************************************)
(* The inductive invariant: what a run knows once it has missed the cache. *)
(***************************************************************************)
\* Until a run that missed the cache is over there is nothing to replay, ...
MissIsCurrent == lapsed = {} => \A r \in Runs : pc[r] \in Missed => ~Hit(r)

\* ... and a run that is no refresh is the first to pay.
NobodyPaidBefore ==
    \A r \in Runs \ (Refreshers \cup lapsed) : pc[r] \in Missed =>
        \A q \in charged : q = r \/ q \in faulted \cup lapsed

\* Only a run that has come to its charge is on the books.
ChargedInOrder ==
    \A r \in charged : pc[r] \in {"save", "release", "ended"}

RunInv ==
    /\ RunsHoldTheirClaim
    /\ ChargedInOrder
    /\ PaidIsDelivered
    /\ MissIsCurrent
    /\ NobodyPaidBefore
    /\ PaidOnce
=============================================================================
