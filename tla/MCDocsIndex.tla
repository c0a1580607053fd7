---------------------------- MODULE MCDocsIndex ----------------------------
(* DocsIndex for TLC: what each search asks, and who is like whom. *)
EXTENDS DocsIndex, TLC

CONSTANTS r1, r2, c1, s1, s2, s3, q1, q2

MCQueryOf == [s \in Searches |-> IF s = s3 THEN q2 ELSE q1]

(* The commands are alike, and so are the searches of one query. *)
MCAlike == Permutations({r1, r2}) \cup Permutations({s1, s2})
=============================================================================
