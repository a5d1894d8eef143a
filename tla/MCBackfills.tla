----------------------------- MODULE MCBackfills -----------------------------
(* Two records from before the audit fields and the canonical ids: one      *)
(* whose creation time is unknown, one with a submission by a subject       *)
(* users-api does not know; and versions a subject submitted or reviewed.   *)
EXTENDS Backfills

CONSTANTS r1, r2, v1, v2, v3, ann, sAnn, sGone

MCCanonicalOf == [s \in {sAnn} |-> ann]

Trail(by, at, v) == [createdBy |-> by, createdAt |-> at, updatedBy |-> Unset,
                     updatedAt |-> Never, current |-> v]
MCSeedMeta == [r \in {r1, r2} |-> IF r = r1 THEN Trail(sAnn, Never, v1)
                                  ELSE Trail(sGone, 1, v2)]
OneMeta == [r \in {r2} |-> MCSeedMeta[r]]

Doc(r, pending, by, reviewer) ==
    [record |-> r, pending |-> pending, submittedBy |-> by, reviewedBy |-> reviewer]
MCSeedVersion ==
    [v \in {v1, v2, v3} |-> CASE v = v1 -> Doc(r1, FALSE, sAnn, Unset)
                              [] v = v2 -> Doc(r2, FALSE, sGone, sAnn)
                              [] v = v3 -> Doc(r2, TRUE, sGone, Unset)]
=============================================================================
