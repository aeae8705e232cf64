--------------------------- MODULE MCDurableService ---------------------------
(* Small instances of DurableService: each .cfg takes one of the request sets. *)
EXTENDS DurableService, TLC

CONSTANTS release, security, ann, bob, eve, k1, k2, k3, k4, pay, ship

MCQuorum == [roles |-> {release, security}, threshold |-> 1]

\* Eve authenticates but holds no approval role.
MCRolesOf == (ann :> {release}) @@ (bob :> {security}) @@ (eve :> {})

Decision(key, params) == [scope |-> "decisions", key |-> key, params |-> params]
VoteBy(key, approve, role, who) ==
    [scope |-> "votes", key |-> key, approval |-> 1, approve |-> approve,
     role |-> role, who |-> who]
ResumeBy(key, who) == [scope |-> "resumes", key |-> key, approval |-> 1, who |-> who]

\* Two decisions, with keys of their own.
MCDecisions == {Decision(k1, pay), Decision(k2, pay)}

\* A decision, a vote that has its key, and a decision that no worker has a
\* handler for.
MCShared ==
    {Decision(k1, pay), VoteBy(k1, TRUE, release, ann), Decision(k2, ship)}

\* A decision that either worker may escalate, a vote, a denial, and two resumes;
\* endpoints share the two keys.
MCApprovals ==
    {Decision(k1, pay), VoteBy(k1, TRUE, release, ann),
     VoteBy(k2, FALSE, security, bob), ResumeBy(k1, ann), ResumeBy(k2, ann)}

\* A decision, all there is to do about its approval, and callers without a
\* valid credential or an approval role, who reuse the keys of others.
MCLifecycle ==
    {Decision(k1, pay), VoteBy(k2, TRUE, release, ann),
     VoteBy(k3, FALSE, security, bob), ResumeBy(k4, ann),
     VoteBy(k3, TRUE, security, NoIdentity), ResumeBy(k1, eve)}

MCSymmetry == Permutations(Workers)

\* Everything but the response sent in the last step, which no action reads.
MCUnheard == <<now, repository, memory, job, effects>>
=============================================================================
