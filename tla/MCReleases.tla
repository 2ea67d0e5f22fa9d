----------------------------- MODULE MCReleases -----------------------------
(* Instances of Releases for TLC. *)
EXTENDS Releases, TLC

CONSTANTS r1, r2, bad, s1, s2, s3

\* A new name for every release.
OwnNames == [r \in Builds |-> IF r = r1 THEN s1 ELSE IF r = r2 THEN s2 ELSE s3]
=============================================================================
