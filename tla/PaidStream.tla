----------------------------- MODULE PaidStream -----------------------------
(***************************************************************************)
(* The paid texts streamed to the reader: why a job fits                   *)
(* (backend/app/routers/jobs/analyse.py) and the deepeners                 *)
(* (routers/jobs/deepen.py), both over services/text_stream.py.  A POST    *)
(* replays the cached text of its key, or streams one from a model and     *)
(* then charges and saves.  No claim guards it: two POSTs of one key run   *)
(* side by side.                                                           *)
(*                                                                         *)
(* With Sampling (the deepeners) the first text of the account is free.    *)
(***************************************************************************)
EXTENDS Naturals, FiniteSets

CONSTANTS
    Posts, Keys, Sampling,
    Funds,      \* bound: how many texts the wallet covers
    MaxFaults,  \* bound: POSTs that meet a failure
    NoKey

ASSUME StreamNumbers == Funds \in Nat /\ MaxFaults \in Nat /\ NoKey \notin Keys

VARIABLES
    cached,    \* keys with a saved text
    sampled,   \* the account's deepening_sampled
    funds,     \* how many texts the wallet still covers
    pc, key,   \* POSTs: next step, the text asked for
    free,      \* POSTs that found the sample unused
    charged,   \* POSTs that were debited
    saved,     \* POSTs that saved their text
    faulted,   \* POSTs that met a failure
    before     \* what each POST came after: the POSTs that had ended

account == <<cached, sampled, funds>>
vars    == <<account, pc, key, free, charged, saved, faulted, before>>

TypeOK ==
    /\ cached \subseteq Keys
    /\ sampled \in BOOLEAN
    /\ funds \in Nat
    /\ pc \in [Posts -> {"start", "sample", "stream", "settle", "save", "ended"}]
    /\ key \in [Posts -> Keys \cup {NoKey}]
    /\ free \subseteq Posts
    /\ charged \subseteq Posts
    /\ saved \subseteq Posts
    /\ faulted \subseteq Posts
    /\ before \in [Posts -> SUBSET Posts]
    /\ \A p \in Posts : pc[p] # "start" => key[p] \in Keys

Init ==
    /\ cached = {}
    /\ sampled = FALSE
    /\ funds \in 0..Funds
    /\ pc = [p \in Posts |-> "start"]
    /\ key = [p \in Posts |-> NoKey]
    /\ free = {}
    /\ charged = {}
    /\ saved = {}
    /\ faulted = {}
    /\ before = [p \in Posts |-> {}]

Goes(p, from, to) == pc[p] = from /\ pc' = [pc EXCEPT ![p] = to]

Fault(p) ==
    /\ Cardinality(faulted \cup {p}) <= MaxFaults
    /\ faulted' = faulted \cup {p}

-----------------------------------------------------------------------------
\* Faulty variants of the definitions below.
NeverSampled == sampled
NeverCached(k) == FALSE

\* get_deepening, get_match_explanation.
Cached(k) == k \in cached

Covers == funds > 0

\* set_deepening_sampled.
SampleTaken == TRUE

\* A POST asks for key k; a cached text is replayed.
LookUp(p, k) ==
    /\ \/ Cached(k) /\ Goes(p, "start", "ended")
       \/ ~Cached(k) /\ Goes(p, "start", "sample")
    /\ key' = [key EXCEPT ![p] = k]
    /\ before' = [before EXCEPT ![p] = {q \in Posts : pc[q] = "ended"}]
    /\ UNCHANGED <<account, free, charged, saved, faulted>>

\* Is it the free sample?  If not, the wallet must cover it.
ReadSampled(p) ==
    /\ \/ Sampling /\ ~sampled /\ free' = free \cup {p} /\ Goes(p, "sample", "stream")
       \/ (Sampling => sampled) /\ Covers /\ free' = free /\ Goes(p, "sample", "stream")
       \/ (Sampling => sampled) /\ ~Covers /\ free' = free /\ Goes(p, "sample", "ended")
    /\ UNCHANGED <<account, key, charged, saved, faulted, before>>

\* live: the whole text, or an error or an empty stream, which settles nothing.
Stream(p) ==
    /\ \/ Goes(p, "stream", "settle")
       \/ Goes(p, "stream", "ended")
    /\ UNCHANGED <<account, key, free, charged, saved, faulted, before>>

\* finalize's first call: the sample is spent, or the charge made.
TakeSample(p) ==
    /\ Goes(p, "settle", "save")
    /\ p \in free
    /\ sampled' = SampleTaken
    /\ UNCHANGED <<cached, funds, key, free, charged, saved, faulted, before>>

Charge(p) ==
    /\ Goes(p, "settle", "save")
    /\ p \notin free
    /\ Covers
    /\ funds' = funds - 1
    /\ charged' = charged \cup {p}
    /\ UNCHANGED <<cached, sampled, key, free, saved, faulted, before>>

\* StreamAbort.
ChargeRefused(p) ==
    /\ Goes(p, "settle", "ended")
    /\ p \notin free
    /\ ~Covers
    /\ UNCHANGED <<account, key, free, charged, saved, faulted, before>>

\* finalize's second call.
Save(p) ==
    /\ Goes(p, "save", "ended")
    /\ cached' = cached \cup {key[p]}
    /\ saved' = saved \cup {p}
    /\ UNCHANGED <<sampled, funds, key, free, charged, faulted, before>>

\* A call raises, or the process dies, anywhere in the POST.  A step that had
\* taken effect is one of the actions above followed by this one.
Fails(p) ==
    /\ pc[p] \in {"sample", "stream", "settle", "save"}
    /\ pc' = [pc EXCEPT ![p] = "ended"]
    /\ Fault(p)
    /\ UNCHANGED <<account, key, free, charged, saved, before>>

SpendElsewhere ==
    /\ Covers
    /\ funds' = funds - 1
    /\ UNCHANGED <<cached, sampled, pc, key, free, charged, saved, faulted, before>>

Next ==
    \/ \E p \in Posts :
           \/ \E k \in Keys : LookUp(p, k)
           \/ ReadSampled(p) \/ Stream(p) \/ TakeSample(p) \/ Charge(p)
           \/ ChargeRefused(p) \/ Save(p) \/ Fails(p)
    \/ SpendElsewhere

Spec == Init /\ [][Next]_vars

-----------------------------------------------------------------------------
(***************************************************************************)
(* What a POST may count on: the POSTs that ended before it began.         *)
(***************************************************************************)
\* "A previously-analysed job replays its cached text with no re-charge": a
\* POST is not charged for a text that a POST before it saved.
LaterPostsReplay ==
    \A p \in charged, q \in saved : q \in before[p] => key[q] # key[p]

\* Two charges of one text come from POSTs that overlapped, or from one whose
\* save failed.
DoubleChargesOverlap ==
    \A p, q \in charged : p # q /\ key[p] = key[q] =>
        \/ p \notin before[q] /\ q \notin before[p]
        \/ p \in faulted \/ q \in faulted

\* The sample is free once, but for POSTs that overlapped.
LaterPostsPay ==
    \A p \in free, q \in saved \cap free : q \notin before[p]
=============================================================================
