--------------------------- MODULE MCContentStore ---------------------------
(***************************************************************************)
(* The instance of ContentStore for TLC: an image of one layer and an      *)
(* index of that image.                                                    *)
(***************************************************************************)
EXTENDS ContentStore, TLC

CONSTANTS layer, image, index

IndexedDigest == {layer, image, index}
IndexedManifest == {image, index}
IndexedIndex == {index}
IndexedRefs == (image :> {layer}) @@ (index :> {image})

ProcSymmetry == Permutations(Proc)
=============================================================================
