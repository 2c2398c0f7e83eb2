---------------------------- MODULE MCCoinWallet ----------------------------
(* Small instances of CoinWallet: a user whose calls are the SQL functions', *)
(* and one whose coins the helpers move too. *)
EXTENDS CoinWallet, TLC

CONSTANTS u1, u2, c1, c2, upload, signup, cleared, pack

Call(kind, user, amount, action, ref) ==
    [kind |-> kind, user |-> user, amount |-> amount, action |-> action, ref |-> ref]

\* An upload charged and refunded by its id, one signup claimed by two
\* referrers, one reward each of two users earn for the same ref.
RpcCalls ==
    {Call("charge", u1, 2, "cv_upload", upload), Call("refund", u1, 2, "cv_upload", upload),
     Call("referral", u1, 1, "referral_credit", signup),
     Call("referral", u2, 1, "referral_credit", signup),
     Call("reward", u1, 1, "skill_clear", cleared), Call("reward", u2, 1, "skill_clear", cleared),
     Call("charge", u2, 2, "outreach_pack", pack)}

\* The diary, the LinkedIn grant, Job Refresh's debit and its credit.
HelperCalls ==
    {Call("earn", u2, 1, "diary", NoRef), Call("linkedin", u2, 3, "linkedin_profile", NoRef),
     Call("spend", u2, 2, "refresh_matches", NoRef),
     Call("credit", u2, 2, "refresh_matches_refund", NoRef)}

AllCalls == RpcCalls \cup HelperCalls

Symmetric == Permutations({c1, c2})
=============================================================================
