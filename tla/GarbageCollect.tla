--------------------------- MODULE GarbageCollect ---------------------------
(***************************************************************************)
(* MarkAndSweep composed with the content store.  Collection is stop the   *)
(* world, as the documentation demands: it starts when no request is being *)
(* served and none is served until it ends.  It may end after any driver   *)
(* call, by an error or because the process dies; ending after the mark    *)
(* phase is also what a dry run does.  Recursion in markManifestReferences *)
(* is a set of manifests still to be visited.                              *)
(***************************************************************************)
EXTENDS ContentStore

CONSTANT TagsDirMissing    \* whether a repository without tags may lack the tags directory

ASSUME CollectAssumption == TagsDirMissing \in BOOLEAN

VARIABLES removeUntagged,  \* the --delete-untagged flag
          apiDeletes,      \* storage.delete.enabled of the registry that serves the store
          phase,           \* what MarkAndSweep is doing
          todoRepos,       \* repositories the enumeration has still to reach
          repo,            \* the repository being enumerated
          todo,            \* its revisions still to be ingested
          visiting,        \* manifests whose references are to be marked
          markSet,
          manifestArr,     \* untagged manifests: records [repo, dgst, tags]
          deleteLayerSet,  \* [Repo -> SUBSET Digest]
          deleteSet

gcVars == <<phase, todoRepos, repo, todo, visiting, markSet, manifestArr, deleteLayerSet, deleteSet>>
allVars == <<vars, gcVars, removeUntagged, apiDeletes>>

ManifestDel == [repo : Repo, dgst : Manifest, tags : SUBSET Tag]
Phases == {"off", "repos", "manifests", "sweep.manifests", "sweep.blobs", "sweep.layers"}
NoRepo == NoDigest

\* The local variables of MarkAndSweep have their types, in every phase.
GCTypeOK ==
    /\ removeUntagged \in BOOLEAN
    /\ phase \in Phases
    /\ todoRepos \subseteq Repo
    /\ repo \in Repo \cup {NoRepo}
    /\ phase = "manifests" => repo \in Repo
    /\ todo \subseteq Manifest
    /\ visiting \subseteq Manifest
    /\ markSet \subseteq Digest
    /\ manifestArr \subseteq ManifestDel
    /\ deleteLayerSet \in [Repo -> SUBSET Digest]
    /\ deleteSet \subseteq Digest

GCOff ==
    /\ phase = "off"
    /\ todoRepos = {}
    /\ repo = NoRepo
    /\ todo = {}
    /\ visiting = {}
    /\ markSet = {}
    /\ manifestArr = {}
    /\ deleteLayerSet = [r \in Repo |-> {}]
    /\ deleteSet = {}

GCInit == Init /\ GCOff /\ removeUntagged \in BOOLEAN /\ apiDeletes \in BOOLEAN

\* MarkAndSweep returns: what it had in memory is gone.
GCReset ==
    /\ phase' = "off"
    /\ todoRepos' = {}
    /\ repo' = NoRepo
    /\ todo' = {}
    /\ visiting' = {}
    /\ markSet' = {}
    /\ manifestArr' = {}
    /\ deleteLayerSet' = [r \in Repo |-> {}]
    /\ deleteSet' = {}
-----------------------------------------------------------------------------
\* A repository is enumerated when it has a _manifests directory, which outlives
\* the last link in it on some drivers.
MustVisit == {r \in Repo : revisions[r] # {} \/ TagDirs(r) # {}}

\* Mutant: the enumeration of repositories may miss some.
StartGC_Partial ==
    /\ phase = "off"
    /\ Quiescent
    /\ phase' = "repos"
    /\ \E S \in SUBSET Repo : todoRepos' = S
    /\ UNCHANGED <<vars, repo, todo, visiting, markSet, manifestArr, deleteLayerSet, deleteSet>>

StartGC ==
    /\ phase = "off"
    /\ Quiescent
    /\ phase' = "repos"
    /\ \E S \in SUBSET Repo : MustVisit \subseteq S /\ todoRepos' = S
    /\ UNCHANGED <<vars, repo, todo, visiting, markSet, manifestArr, deleteLayerSet, deleteSet>>

VisitRepo(r) ==
    /\ phase = "repos"
    /\ r \in todoRepos
    /\ phase' = "manifests"
    /\ repo' = r
    /\ todoRepos' = todoRepos \ {r}
    /\ todo' = {m \in revisions[r] : ManifestExists(r, m)}
    /\ UNCHANGED <<vars, visiting, markSet, manifestArr, deleteLayerSet, deleteSet>>

\* Lookup: some tag has this manifest as its current one.
Tagged(r, m) == \E t \in Tag : tagCurrent[r][t] = m

\* Mutant: the references of the manifest are not marked.
MarkManifest_Alone(m) ==
    /\ phase = "manifests"
    /\ visiting = {}
    /\ m \in todo
    /\ ~removeUntagged \/ Tagged(repo, m)
    /\ todo' = todo \ {m}
    /\ markSet' = markSet \cup {m}
    /\ UNCHANGED <<vars, phase, todoRepos, repo, visiting, manifestArr, deleteLayerSet, deleteSet>>

MarkManifest(m) ==
    /\ phase = "manifests"
    /\ visiting = {}
    /\ m \in todo
    /\ ~removeUntagged \/ Tagged(repo, m)
    /\ todo' = todo \ {m}
    /\ markSet' = markSet \cup {m}
    /\ visiting' = {m}
    /\ UNCHANGED <<vars, phase, todoRepos, repo, manifestArr, deleteLayerSet, deleteSet>>

\* An untagged manifest is queued for removal, unless the tags directory is missing:
\* then it is neither marked nor queued.
QueueUntagged(m) ==
    /\ phase = "manifests"
    /\ visiting = {}
    /\ m \in todo
    /\ removeUntagged /\ ~Tagged(repo, m)
    /\ todo' = todo \ {m}
    /\ \/ manifestArr' = manifestArr \cup {[repo |-> repo, dgst |-> m, tags |-> TagDirs(repo)]}
       \/ TagsDirMissing /\ TagDirs(repo) = {} /\ UNCHANGED manifestArr
    /\ UNCHANGED <<vars, phase, todoRepos, repo, visiting, markSet, deleteLayerSet, deleteSet>>

\* Mutant: only references that are manifests are marked.
MarkReferences_Manifests(m) ==
    /\ phase = "manifests"
    /\ m \in visiting
    /\ markSet' = markSet \cup (Refs[m] \cap Manifest)
    /\ visiting' = visiting \ {m}
    /\ UNCHANGED <<vars, phase, todoRepos, repo, todo, manifestArr, deleteLayerSet, deleteSet>>

\* One level of markManifestReferences: references not marked yet are marked and, if
\* they are manifests of this repository, visited in turn.
MarkReferences(m) ==
    /\ phase = "manifests"
    /\ m \in visiting
    /\ markSet' = markSet \cup Refs[m]
    /\ visiting' = (visiting \ {m}) \cup {d \in Refs[m] \ markSet : ManifestExists(repo, d)}
    /\ UNCHANGED <<vars, phase, todoRepos, repo, todo, manifestArr, deleteLayerSet, deleteSet>>

\* Mutant: layers are compared before the manifests of the repository are marked.
MarkLayers_Early ==
    /\ phase = "manifests"
    /\ visiting = {}
    /\ deleteLayerSet' = [deleteLayerSet EXCEPT ![repo] =
            {d \in layers[repo] : LayerExists(repo, d) /\ d \notin markSet}]
    /\ phase' = "repos"
    /\ repo' = NoRepo
    /\ todo' = {}
    /\ UNCHANGED <<vars, todoRepos, visiting, markSet, manifestArr, deleteSet>>

\* The layer links of the repository that nothing marked so far refers to.
MarkLayers ==
    /\ phase = "manifests"
    /\ todo = {} /\ visiting = {}
    /\ deleteLayerSet' = [deleteLayerSet EXCEPT ![repo] =
            {d \in layers[repo] : LayerExists(repo, d) /\ d \notin markSet}]
    /\ phase' = "repos"
    /\ repo' = NoRepo
    /\ UNCHANGED <<vars, todoRepos, todo, visiting, markSet, manifestArr, deleteSet>>

\* unmarkReferencedManifest
EndMark ==
    /\ phase = "repos"
    /\ todoRepos = {}
    /\ manifestArr' = {o \in manifestArr : o.dgst \notin markSet}
    /\ phase' = "sweep.manifests"
    /\ UNCHANGED <<vars, todoRepos, repo, todo, visiting, markSet, deleteLayerSet, deleteSet>>
-----------------------------------------------------------------------------
\* vacuum.RemoveManifest: the tags' index entries, then the revision.
RemoveIndexEntries(o, T) ==
    tagIndex' = [tagIndex EXCEPT ![o.repo] =
                    [t \in Tag |-> IF t \in T THEN @[t] \ {o.dgst} ELSE @[t]]]

RemoveManifest(o) ==
    /\ phase = "sweep.manifests"
    /\ o \in manifestArr
    /\ RemoveIndexEntries(o, o.tags)
    /\ revisions' = [revisions EXCEPT ![o.repo] = @ \ {o.dgst}]
    /\ manifestArr' = manifestArr \ {o}
    /\ UNCHANGED <<blobs, layers, tagCurrent, procVars>>
    /\ UNCHANGED <<phase, todoRepos, repo, todo, visiting, markSet, deleteLayerSet, deleteSet>>

\* Mutant: whatever some repository links is kept.
EnumerateBlobs_KeepLinked ==
    /\ phase = "sweep.manifests"
    /\ manifestArr = {}
    /\ deleteSet' = blobs \ (markSet \cup UNION {layers[r] : r \in Repo})
    /\ phase' = "sweep.blobs"
    /\ UNCHANGED <<vars, todoRepos, repo, todo, visiting, markSet, manifestArr, deleteLayerSet>>

EnumerateBlobs ==
    /\ phase = "sweep.manifests"
    /\ manifestArr = {}
    /\ deleteSet' = blobs \ markSet
    /\ phase' = "sweep.blobs"
    /\ UNCHANGED <<vars, todoRepos, repo, todo, visiting, markSet, manifestArr, deleteLayerSet>>

RemoveBlob(d) ==
    /\ phase = "sweep.blobs"
    /\ d \in deleteSet
    /\ blobs' = blobs \ {d}
    /\ deleteSet' = deleteSet \ {d}
    /\ UNCHANGED <<layers, revisions, tagIndex, tagCurrent, procVars>>
    /\ UNCHANGED <<phase, todoRepos, repo, todo, visiting, markSet, manifestArr, deleteLayerSet>>

SweepLayers ==
    /\ phase = "sweep.blobs"
    /\ deleteSet = {}
    /\ phase' = "sweep.layers"
    /\ UNCHANGED <<vars, todoRepos, repo, todo, visiting, markSet, manifestArr, deleteLayerSet, deleteSet>>

RemoveLayer(r, d) ==
    /\ phase = "sweep.layers"
    /\ d \in deleteLayerSet[r]
    /\ layers' = [layers EXCEPT ![r] = @ \ {d}]
    /\ deleteLayerSet' = [deleteLayerSet EXCEPT ![r] = @ \ {d}]
    /\ UNCHANGED <<blobs, revisions, tagIndex, tagCurrent, procVars>>
    /\ UNCHANGED <<phase, todoRepos, repo, todo, visiting, markSet, manifestArr, deleteSet>>

EndGC ==
    /\ phase = "sweep.layers"
    /\ \A r \in Repo : deleteLayerSet[r] = {}
    /\ GCReset
    /\ UNCHANGED vars

\* An error return or the death of the process: marks are only in memory.  A repository
\* whose _layers directory is missing is one cause of such an error.
StopGC ==
    /\ phase # "off"
    /\ GCReset
    /\ UNCHANGED vars

\* The same in the middle of RemoveManifest.
StopInRemoveManifest(o, T) ==
    /\ phase = "sweep.manifests"
    /\ o \in manifestArr
    /\ T \subseteq o.tags
    /\ RemoveIndexEntries(o, T)
    /\ GCReset
    /\ UNCHANGED <<blobs, layers, revisions, tagCurrent, procVars>>
-----------------------------------------------------------------------------
GCMark ==
    \/ \E r \in Repo : VisitRepo(r)
    \/ \E m \in Manifest : MarkManifest(m) \/ QueueUntagged(m) \/ MarkReferences(m)
    \/ MarkLayers
    \/ EndMark

GCSweep ==
    \/ \E o \in manifestArr : RemoveManifest(o) \/ \E T \in SUBSET Tag : StopInRemoveManifest(o, T)
    \/ EnumerateBlobs
    \/ \E d \in Digest : RemoveBlob(d)
    \/ SweepLayers
    \/ \E r \in Repo, d \in Digest : RemoveLayer(r, d)
    \/ EndGC

\* Requests are served.  Without storage.delete.enabled none gets to delete by digest.
Serve ==
    /\ phase = "off"
    /\ Next
    /\ apiDeletes \/ \A p \in Proc : pc'[p] \notin DeleteSteps
    /\ UNCHANGED gcVars

GCNext == (Serve \/ StartGC \/ GCMark \/ GCSweep \/ StopGC) /\ UNCHANGED <<removeUntagged, apiDeletes>>

GCSpec == GCInit /\ [][GCNext]_allVars
-----------------------------------------------------------------------------
(***************************************************************************)
(* docs/content/about/garbage-collection.md: "As long as a layer is        *)
(* referenced by one manifest, it cannot be garbage collected".  At every  *)
(* moment, after every crash, each manifest a repository serves has its    *)
(* data and all that was checked when it was pushed.                       *)
(***************************************************************************)
ReferencedKept == \A r \in Repo : \A m \in revisions[r] : Needs(m) \subseteq blobs

(***************************************************************************)
(* Without --delete-untagged the promise of garbage-collection.md holds    *)
(* for every manifest a repository serves, at every moment of a collection *)
(* and after every crash of it: its data and all that was checked when it  *)
(* was pushed is there.                                                    *)
(***************************************************************************)
KeptWithoutFlag == ~removeUntagged => ReferencedKept

(***************************************************************************)
(* Without --delete-untagged a registry with a collector still implements  *)
(* ImageStore: MarkAndSweep only removes what no published manifest needs. *)
(***************************************************************************)
CollectsSafely ==
    ImageStoreSpec!Init /\ [][removeUntagged \/ ImageStoreSpec!Next]_(ImageStoreSpec!vars)

(***************************************************************************)
(* Whatever --delete-untagged removes in any repository, a tag that can be *)
(* resolved names a manifest whose own references are all still there.     *)
(***************************************************************************)
TaggedKept ==
    \A r \in Repo, t \in Tag :
        tagCurrent[r][t] \in revisions[r] => Needs(tagCurrent[r][t]) \subseteq blobs

(***************************************************************************)
(* With deletion disabled and without --delete-untagged a collection never *)
(* takes the last link of a layer or an image that a manifest of the same  *)
(* repository refers to (MarkAndSweep, deleteLayerSet).                    *)
(***************************************************************************)
ServedAfterGC == ~apiDeletes /\ ~removeUntagged => ServedByRepo

\* The least set with the manifests to keep that holds what its manifests refer to.
Closed(S) ==
    \A r \in Repo : \A m \in S \cap revisions[r] : m \in blobs => Refs[m] \subseteq S
Roots ==
    UNION {{m \in revisions[r] : ~removeUntagged \/ \E t \in Tag : tagCurrent[r][t] = m} : r \in Repo}
Live == {d \in Digest : \A S \in SUBSET Digest : Roots \subseteq S /\ Closed(S) => d \in S}

(***************************************************************************)
(* A collection that runs to its end leaves no garbage: all data that is   *)
(* left is reachable from a manifest that is to be kept, with              *)
(* --delete-untagged from a tagged one.                                    *)
(***************************************************************************)
GarbageGone == [][EndGC => blobs \subseteq Live]_allVars
=============================================================================
