-------------------------- MODULE MCGarbageCollect --------------------------
(***************************************************************************)
(* Instances of GarbageCollect for TLC: an image of one layer, an index of *)
(* that image.  One run covers three configurations of the registry; they  *)
(* never change, so the state space is the sum of theirs.                  *)
(***************************************************************************)
EXTENDS GarbageCollect, TLC

CONSTANTS layer, image, index,
          Settings   \* configurations: [removeUntagged, apiDeletes]

IndexedDigest == {layer, image, index}
IndexedManifest == {image, index}
IndexedIndex == {index}
IndexedRefs == (image :> {layer}) @@ (index :> {image})

AllSettings == {[removeUntagged |-> FALSE, apiDeletes |-> TRUE],
                [removeUntagged |-> TRUE, apiDeletes |-> TRUE],
                [removeUntagged |-> FALSE, apiDeletes |-> FALSE]}
DeleteUntagged == {[removeUntagged |-> TRUE, apiDeletes |-> TRUE]}

MCInit ==
    \E s \in Settings :
        GCInit /\ removeUntagged = s.removeUntagged /\ apiDeletes = s.apiDeletes

MCSpec == MCInit /\ [][GCNext]_allVars

RepoSymmetry == Permutations(Repo)
=============================================================================
