----------------------------- MODULE ImageGraph -----------------------------
(***************************************************************************)
(* The content a registry holds: digests, the manifests among them, what   *)
(* each manifest refers to and which of those references the registry      *)
(* checks before it accepts the manifest.  Content is addressed by digest, *)
(* so what a digest refers to never changes.                               *)
(***************************************************************************)
CONSTANTS Repo,           \* repository names
          Tag,            \* tag names
          Digest,         \* digests of all content: layers, configs, manifests
          Manifest,       \* the digests whose content is a manifest
          Index,          \* the manifests that are manifest lists / image indexes
          Refs,           \* manifest.References(): Manifest -> SUBSET Digest
          ForeignLayers,  \* layers with external URLs, not checked for presence
          ImagesExist,    \* validateImageIndexes.imagesExist
          CheckedPlatform,\* children on a platform configured to be validated
          NoDigest        \* "no link here"

ASSUME GraphAssumption ==
    /\ Index \subseteq Manifest
    /\ Manifest \subseteq Digest
    /\ Refs \in [Manifest -> SUBSET Digest]
    /\ ForeignLayers \subseteq Digest
    /\ ImagesExist \in BOOLEAN
    /\ CheckedPlatform \subseteq Digest
    /\ NoDigest \notin Digest

\* The references verifyManifest checks before the manifest is stored.
Required(m) ==
    IF m \in Index
    THEN IF ImagesExist THEN Refs[m] \cap CheckedPlatform ELSE {}
    ELSE Refs[m] \ ForeignLayers

\* The content without which a client that gets the manifest cannot pull it.
Needs(m) == {m} \cup Required(m)
=============================================================================
