---------------------------- MODULE MCEnrollment ----------------------------
(* Three session ids for two places, three entry ids for two places, two      *)
(* streams, and one object more than places: a session can be re-created.     *)
(* Two requests and a face of one stream over a queue for two jobs.            *)
EXTENDS Enrollment, TLC

CONSTANTS a, b, c, e1, e2, e3, s1, s2, r1, r2, f1

MCSessionIds == {a, b, c}
MCEntryIds == {e1, e2, e3}
MCStreams == {s1, s2}
MCRequests == {r1, r2}
MCFaceJobs == {f1}
MCCallStreams == {s1}
MCJobs == MCRequests \cup MCFaceJobs
MCSymmetry ==
    Permutations(MCSessionIds) \cup Permutations(MCEntryIds)
    \cup Permutations(MCRequests)
=============================================================================
