----------------------------- MODULE ImageStore -----------------------------
(***************************************************************************)
(* What the registry's storage promises its clients, as atomic steps: the  *)
(* content that is stored, the layer links, the manifests that can be      *)
(* pulled by digest and the tags.  A manifest is published, or tagged,     *)
(* only while its payload and everything it requires are stored, and       *)
(* content is collected only when no published manifest needs it.          *)
(* ContentStore and GarbageCollect are shown to implement this module.     *)
(***************************************************************************)
EXTENDS ImageGraph

VARIABLES stored,      \* digests whose bytes are in the blob store
          layerLinks,  \* [Repo -> SUBSET Digest], layers a repository serves
          published,   \* [Repo -> SUBSET Manifest], manifests a repository serves
          tagged       \* [Repo -> [Tag -> Manifest \cup {NoDigest}]]

vars == <<stored, layerLinks, published, tagged>>

Init ==
    /\ stored = {}
    /\ layerLinks = [r \in Repo |-> {}]
    /\ published = [r \in Repo |-> {}]
    /\ tagged = [r \in Repo |-> [t \in Tag |-> NoDigest]]

Store(d) ==
    /\ stored' = stored \cup {d}
    /\ UNCHANGED <<layerLinks, published, tagged>>

LinkLayer(r, d) ==
    /\ d \in stored
    /\ layerLinks' = [layerLinks EXCEPT ![r] = @ \cup {d}]
    /\ UNCHANGED <<stored, published, tagged>>

UnlinkLayer(r, d) ==
    /\ layerLinks' = [layerLinks EXCEPT ![r] = @ \ {d}]
    /\ UNCHANGED <<stored, published, tagged>>

Publish(r, m) ==
    /\ Needs(m) \subseteq stored
    /\ published' = [published EXCEPT ![r] = @ \cup {m}]
    /\ UNCHANGED <<stored, layerLinks, tagged>>

Unpublish(r, m) ==
    /\ published' = [published EXCEPT ![r] = @ \ {m}]
    /\ UNCHANGED <<stored, layerLinks, tagged>>

SetTag(r, t, m) ==
    /\ Needs(m) \subseteq stored
    /\ tagged' = [tagged EXCEPT ![r][t] = m]
    /\ UNCHANGED <<stored, layerLinks, published>>

RemoveTag(r, t) ==
    /\ tagged' = [tagged EXCEPT ![r][t] = NoDigest]
    /\ UNCHANGED <<stored, layerLinks, published>>

\* Only what no published manifest needs may be removed.
Collect(d) ==
    /\ \A r \in Repo : \A m \in published[r] : d \notin Needs(m)
    /\ stored' = stored \ {d}
    /\ UNCHANGED <<layerLinks, published, tagged>>

Next ==
    \/ \E d \in Digest : Store(d) \/ Collect(d)
    \/ \E r \in Repo, d \in Digest : LinkLayer(r, d) \/ UnlinkLayer(r, d)
    \/ \E r \in Repo, m \in Manifest : Publish(r, m) \/ Unpublish(r, m)
    \/ \E r \in Repo, t \in Tag, m \in Manifest : SetTag(r, t, m)
    \/ \E r \in Repo, t \in Tag : RemoveTag(r, t)

Spec == Init /\ [][Next]_vars
=============================================================================
