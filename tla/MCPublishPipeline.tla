------------------------- MODULE MCPublishPipeline --------------------------
(***************************************************************************)
(* Small instances of PublishPipeline: the deployments in which jobs meet. *)
(***************************************************************************)
EXTENDS PublishPipeline, TLC

CONSTANTS j1, j2, j3, j4, h1, h2, h3, h4, repoA, repoB, branchA

AllOf(v) == [j \in Jobs |-> v]
\* The value of j1 differs from that of every other job.
Apart(v, w) == [j \in Jobs |-> IF j = j1 THEN v ELSE w]

\* Two images of one machine in one build: everything is shared, the branch too, since
\* OSTREE_BRANCHNAME defaults to the hardware id.
OneRepo == AllOf(repoA)
OneBranch == AllOf(branchA)

\* Two build machines with a repository, a signing directory and a lock each.
TwoRepos == Apart(repoA, repoB)

\* Nothing tells one commit hash from another.
HashSymmetry == Permutations(Hashes)

NoOverride == AllOf(NoHash)
AllOffline == AllOf("offline")
MissingLast == [j \in Jobs |-> IF j = j4 THEN "missing" ELSE "offline"]
=============================================================================
