----------------------- MODULE GarbageCollect_proofs ------------------------
(***************************************************************************)
(* Proofs about MarkAndSweep, with and without --delete-untagged, for any  *)
(* number of repositories, tags, requests and any content.                 *)
(***************************************************************************)
EXTENDS GarbageCollect, ContentStore_proofs

\* The manifests of a repository a collection has to keep.
Kept(r) == {m \in revisions[r] : ~removeUntagged \/ Tagged(r, m)}

\* The store as the requests leave it: what a collection may rely on.
ServeInv ==
    /\ TypeOK /\ RequestOK /\ InFlightOK
    /\ \A r \in Repo : \A m \in Kept(r) : Needs(m) \subseteq blobs

\* All the manifests a repository has to keep, and what they need, are marked.
RepoMarked(r) == \A m \in Kept(r) : Needs(m) \subseteq markSet

\* Each of these manifests of the repository being enumerated is still to be ingested, or
\* marked and waiting for its references, or marked with them.
BeingMarked ==
    \A m \in Kept(repo) :
        m \in todo \/ (m \in markSet /\ (m \in visiting \/ Required(m) \subseteq markSet))

(***************************************************************************)
(* What the collector knows in each phase.  The marks only count because   *)
(* nothing is linked between the mark and the sweep: no request is served. *)
(***************************************************************************)
MarkInv ==
    /\ ~removeUntagged => manifestArr = {}
    /\ phase # "off" => Quiescent
    /\ phase = "repos" => \A r \in Repo \ todoRepos : RepoMarked(r)
    /\ phase = "manifests" => /\ \A r \in Repo \ (todoRepos \cup {repo}) : RepoMarked(r)
                              /\ BeingMarked
    /\ phase \in {"sweep.manifests", "sweep.blobs", "sweep.layers"} => \A r \in Repo : RepoMarked(r)
    /\ phase = "sweep.blobs" => deleteSet \cap markSet = {}

CollectInv == GCTypeOK /\ ServeInv /\ MarkInv
-----------------------------------------------------------------------------
\* Requests never remove data.
LEMMA BlobsGrow ==
  ASSUME NEW p \in Proc, NewRequest(p) \/ RequestStep(p) \/ Crash(p)
  PROVE  blobs \subseteq blobs'
<1>1. CASE NewRequest(p) \/ Crash(p)
  BY <1>1 DEF NewRequest, StartCommit, StartDeleteBlob, Mount, StartPutManifest,
              StartDeleteManifest, DeleteTag, Crash, storeVars
<1>2. CASE CommitStep(p)
  BY <1>2 DEF CommitStep, CommitStat, CommitMove, CommitLink, storeVars
<1>3. CASE PutStep(p)
  BY <1>3 DEF PutStep, VerifyRef, Verified, PutStat, PutData, PutLink, TagIndexLink,
              TagCurrentLink, storeVars
<1>4. CASE DeleteStep(p)
  BY <1>4 DEF DeleteStep, DeleteStat, DeleteClear, LookupList, LookupRead, LookupDone,
              DeleteUntag, DeleteDone, BlobStat, BlobClear, storeVars
<1>5. QED
  BY <1>1, <1>2, <1>3, <1>4 DEF RequestStep

\* The part of InFlightOK about one request q.
Relies(q) ==
    /\ pc[q] \in {"commit.link", "mount.link", "put.link", "tag.index", "tag.current"}
          => req[q].dgst \in blobs
    /\ pc[q] = "put.verify" => Required(req[q].dgst) \ deps[q] \subseteq blobs
    /\ pc[q] \in PutSteps \ {"put.verify"} => Required(req[q].dgst) \subseteq blobs

\* A step of a request p gives it what it relies on next.
LEMMA ReliesStep ==
  ASSUME TypeOK, RequestOK, InFlightOK, NEW p \in Proc,
         NewRequest(p) \/ RequestStep(p) \/ Crash(p)
  PROVE  Relies(p)'
<1> USE DEF TypeOK, RequestOK, Relies, PutSteps, Goto, Finish, Start, Request, storeVars
<1>a. Relies(p)
  BY DEF InFlightOK
<1>1. CASE Finish(p)
  BY <1>1
<1>2. ASSUME NEW s \in {"commit.stat", "blob.stat", "delete.stat", "delete.clear", "delete.lookup",
                        "delete.read", "delete.untag", "blob.clear", "commit.move"},
             pc'[p] = s
      PROVE  Relies(p)'
  BY <1>2
<1>3. CASE NewRequest(p)
  <2>1. ASSUME NEW r \in Repo, NEW from \in Repo, NEW d \in Digest, Mount(p, from, r, d)
        PROVE  Relies(p)'
    BY <2>1 DEF Mount, LayerExists, BlobExists
  <2>2. ASSUME NEW r \in Repo, NEW m \in Manifest, NEW t \in Tag \cup {NoTag},
               StartPutManifest(p, r, m, t)
        PROVE  Relies(p)'
    BY <2>2 DEF StartPutManifest
  <2>3. ASSUME NEW r \in Repo, NEW t \in Tag, DeleteTag(p, r, t) PROVE Relies(p)'
    BY <1>a, <2>3 DEF DeleteTag, procVars
  <2>4. QED
    BY <1>2, <1>3, <2>1, <2>2, <2>3 DEF NewRequest, StartCommit, StartDeleteBlob, StartDeleteManifest
<1>4. CASE CommitStep(p)
  BY <1>1, <1>2, <1>4 DEF CommitStep, CommitStat, CommitMove, CommitLink, BlobExists
<1>5. CASE PutStep(p)
  <2>1. ASSUME NEW d \in Digest, VerifyRef(p, d), ~Finish(p) PROVE Relies(p)'
    <3>1. /\ RefExists(req[p].repo, req[p].dgst, d)
          /\ deps' = [deps EXCEPT ![p] = @ \ {d}]
          /\ pc[p] = "put.verify"
          /\ UNCHANGED <<storeVars, pc, req>>
      BY <2>1 DEF VerifyRef
    <3>2. d \in blobs
      BY <3>1 DEF RefExists, ManifestExists, LayerExists, BlobExists
    <3>3. QED
      BY <1>a, <3>1, <3>2
  <2>2. CASE Verified(p) \/ PutStat(p)
    BY <1>a, <2>2 DEF Verified, PutStat, BlobExists
  <2>3. CASE PutData(p) \/ TagIndexLink(p)
    BY <1>a, <2>3 DEF PutData, TagIndexLink
  <2>4. CASE PutLink(p)
    <3>1. CASE Goto(p, "tag.index")
      BY <1>a, <2>4, <3>1 DEF PutLink
    <3>2. QED
      BY <1>1, <2>4, <3>1, Decide DEF PutLink
  <2>5. CASE TagCurrentLink(p)
    BY <1>1, <2>5 DEF TagCurrentLink
  <2>6. QED
    BY <1>1, <1>5, <2>1, <2>2, <2>3, <2>4, <2>5 DEF PutStep
<1>6. CASE DeleteStep(p)
  <2>1. ASSUME NEW t \in Tag, LookupRead(p, t) \/ DeleteUntag(p, t) PROVE Relies(p)'
    BY <1>2, <2>1 DEF LookupRead, DeleteUntag
  <2>2. CASE DeleteStat(p) \/ DeleteClear(p) \/ BlobStat(p)
    <3>1. PICK s \in {"delete.clear", "delete.lookup", "blob.clear"} : Goto(p, s) \/ Finish(p)
      BY <2>2 DEF DeleteStat, DeleteClear, BlobStat, GotoOrFinish
    <3>2. Goto(p, s) => pc'[p] = s
      OBVIOUS
    <3>3. QED
      BY <1>1, <1>2, <3>1, <3>2
  <2>3. QED
    BY <1>1, <1>2, <1>6, <2>1, <2>2
       DEF DeleteStep, LookupList, LookupDone, DeleteDone, BlobClear
<1>7. QED
  BY <1>1, <1>3, <1>4, <1>5, <1>6 DEF RequestStep, Crash

\* Only PutLink makes a manifest one to serve, and only TagCurrentLink tags one.
LEMMA TagSteps ==
  ASSUME TypeOK, NEW p \in Proc, NewRequest(p) \/ RequestStep(p) \/ Crash(p),
         ~TagCurrentLink(p), NEW r \in Repo, NEW m \in Manifest, Tagged(r, m)'
  PROVE  Tagged(r, m)
<1>1. CASE UNCHANGED tagCurrent
  BY <1>1 DEF Tagged
<1>2. ASSUME NEW s \in Repo, NEW t \in Tag, Untag(s, t) PROVE Tagged(r, m)
  BY <1>2, ManifestIsDigest DEF Untag, Tagged, TypeOK
<1>3. CASE NewRequest(p) \/ Crash(p)
  BY <1>1, <1>2, <1>3 DEF NewRequest, StartCommit, StartDeleteBlob, Mount, StartPutManifest,
                         StartDeleteManifest, DeleteTag, Crash, storeVars
<1>4. CASE CommitStep(p) \/ PutStep(p)
  BY <1>1, <1>4 DEF CommitStep, CommitStat, CommitMove, CommitLink, PutStep, VerifyRef, Verified,
                    PutStat, PutData, PutLink, TagIndexLink, storeVars
<1>5. CASE DeleteStep(p)
  <2>1. ASSUME NEW t \in Tag, DeleteUntag(p, t) PROVE Tagged(r, m)
    BY <2>1, ManifestIsDigest DEF DeleteUntag, Untag, Tagged, TypeOK
  <2>2. QED
    BY <1>1, <1>5, <2>1 DEF DeleteStep, DeleteStat, DeleteClear, LookupList, LookupRead, LookupDone,
                            DeleteDone, BlobStat, BlobClear, storeVars
<1>6. QED
  BY <1>3, <1>4, <1>5 DEF RequestStep

LEMMA RevisionSteps ==
  ASSUME TypeOK, NEW p \in Proc, NewRequest(p) \/ RequestStep(p) \/ Crash(p),
         NEW r \in Repo, NEW m \in revisions'[r], m \notin revisions[r]
  PROVE  PutLink(p) /\ req[p].dgst = m
<1>1. ~(revisions'[r] \subseteq revisions[r])
  OBVIOUS
<1>2. ~UNCHANGED revisions /\ ~CommitLink(p) /\ ~BlobClear(p)
  BY <1>1 DEF CommitLink, BlobClear
<1>3. ~DeleteClear(p)
  BY <1>1 DEF DeleteClear, TypeOK
<1>4. PutLink(p)
  BY <1>2, <1>3, LinkSteps
<1>5. QED
  BY <1>4 DEF PutLink, TypeOK

\* Requests keep the store in a state a collection may start from.
LEMMA ServeStep ==
  ASSUME ServeInv, Next, UNCHANGED removeUntagged
  PROVE  ServeInv'
<1>1. PICK p \in Proc : NewRequest(p) \/ RequestStep(p) \/ Crash(p)
  BY DEF Next
<1>2. TypeOK' /\ RequestOK'
  BY <1>1, TypeNewRequest, TypeRequestStep DEF ServeInv
<1>3. ASSUME NEW q \in Proc PROVE Relies(q)'
  <2>1. CASE q = p
    BY <1>1, <2>1, ReliesStep DEF ServeInv
  <2>2. CASE q # p
    <3>1. Relies(q)
      BY DEF ServeInv, InFlightOK, Relies
    <3>2. pc'[q] = pc[q] /\ req'[q] = req[q] /\ deps'[q] = deps[q]
      BY <1>1, <2>2, OthersWait DEF ServeInv
    <3>3. QED
      BY <1>1, <3>1, <3>2, BlobsGrow DEF Relies
  <2>3. QED
    BY <2>1, <2>2
<1>4. ASSUME NEW r \in Repo, NEW m \in Kept(r)' PROVE Needs(m) \subseteq blobs'
  <2>1. m \in Manifest
    BY <1>2 DEF Kept, TypeOK
  <2>2. CASE m \in Kept(r)
    BY <1>1, <2>2, BlobsGrow DEF ServeInv
  <2>3. CASE m \notin revisions[r]
    <3>1. PutLink(p) /\ req[p].dgst = m
      BY <1>1, <2>3, RevisionSteps DEF ServeInv, Kept
    <3>2. QED
      BY <3>1 DEF PutLink, ServeInv, InFlightOK, PutSteps, Needs
  <2>4. CASE m \in revisions[r] /\ ~Tagged(r, m) /\ Tagged(r, m)'
    <3>1. TagCurrentLink(p)
      BY <1>1, <2>1, <2>4, TagSteps DEF ServeInv
    <3>2. req[p].dgst = m
      BY <2>4, <3>1 DEF TagCurrentLink, Tagged, ServeInv, TypeOK, RequestOK, Request
    <3>3. QED
      BY <3>1, <3>2 DEF TagCurrentLink, ServeInv, InFlightOK, PutSteps, Needs
  <2>5. QED
    BY <2>2, <2>3, <2>4 DEF Kept
<1>5. QED
  BY <1>2, <1>3, <1>4 DEF ServeInv, InFlightOK, Relies
-----------------------------------------------------------------------------
\* A step that leaves the store and the requests alone.
LEMMA ServeInvStutter == ServeInv /\ UNCHANGED vars /\ UNCHANGED removeUntagged => ServeInv'
  BY DEF ServeInv, TypeOK, RequestOK, InFlightOK, Kept, Tagged, vars, storeVars, procVars

\* A step that removes revisions and data no request relies on and nothing to keep needs.
LEMMA ServeInvRemoval ==
  ASSUME ServeInv, Quiescent, UNCHANGED procVars, UNCHANGED <<tagCurrent, removeUntagged>>, TypeOK',
         \A r \in Repo : revisions'[r] \subseteq revisions[r],
         \A r \in Repo : \A m \in Kept(r) : Needs(m) \subseteq blobs'
  PROVE  ServeInv'
<1>1. RequestOK' /\ InFlightOK'
  BY DEF ServeInv, RequestOK, InFlightOK, Quiescent, procVars, PutSteps
<1>2. \A r \in Repo : Kept(r)' \subseteq Kept(r)
  BY DEF Kept, Tagged
<1>3. QED
  BY <1>1, <1>2 DEF ServeInv

\* What a manifest needs is among what is marked when it is visited.
LEMMA NeedsMarked ==
  ASSUME NEW m \in Manifest
  PROVE  Required(m) \subseteq Refs[m]
  BY DEF Required

LEMMA CollectInit == GCInit => CollectInv
<1> SUFFICES ASSUME GCInit PROVE CollectInv
  OBVIOUS
<1>1. GCTypeOK
  BY DEF GCInit, GCOff, GCTypeOK, Phases, NoRepo
<1>2. ServeInv
  BY SafeInit, TypeInit DEF GCInit, Init, ServeInv, StoreSafe, Kept
<1>3. MarkInv
  BY DEF GCInit, GCOff, MarkInv
<1>4. QED
  BY <1>1, <1>2, <1>3 DEF CollectInv

\* Ending a collection, wherever it was, loses the marks.
LEMMA ResetStep ==
  ASSUME GCTypeOK, GCReset, UNCHANGED removeUntagged
  PROVE  GCTypeOK' /\ MarkInv'
  BY DEF MarkInv, GCReset, GCTypeOK, Phases, NoRepo

LEMMA GCTypeStep ==
  ASSUME GCTypeOK, TypeOK, UNCHANGED removeUntagged, StartGC \/ GCMark \/ GCSweep \/ StopGC
  PROVE  GCTypeOK'
<1> USE GraphAssumption DEF GCTypeOK, Phases, NoRepo
<1>1. CASE GCReset
  BY <1>1, ResetStep
<1>2. CASE StartGC
  BY <1>2 DEF StartGC
<1>3. ASSUME NEW r \in Repo, VisitRepo(r) PROVE GCTypeOK'
  BY <1>3 DEF VisitRepo, TypeOK
<1>4. ASSUME NEW m \in Manifest, MarkManifest(m) PROVE GCTypeOK'
  BY <1>4 DEF MarkManifest
<1>5. ASSUME NEW m \in Manifest, QueueUntagged(m) PROVE GCTypeOK'
  <2>1. [repo |-> repo, dgst |-> m, tags |-> TagDirs(repo)] \in ManifestDel
    BY <1>5 DEF QueueUntagged, ManifestDel, TagDirs
  <2>2. QED
    BY <1>5, <2>1 DEF QueueUntagged
<1>6. ASSUME NEW m \in Manifest, MarkReferences(m) PROVE GCTypeOK'
  BY <1>6 DEF MarkReferences, ManifestExists, TypeOK
<1>7. CASE MarkLayers
  BY <1>7 DEF MarkLayers, TypeOK
<1>8. CASE EndMark
  BY <1>8 DEF EndMark
<1>9. ASSUME NEW o \in manifestArr, RemoveManifest(o) PROVE GCTypeOK'
  BY <1>9 DEF RemoveManifest
<1>10. CASE EnumerateBlobs \/ SweepLayers
  BY <1>10 DEF EnumerateBlobs, SweepLayers, TypeOK
<1>11. ASSUME NEW d \in Digest, RemoveBlob(d) PROVE GCTypeOK'
  BY <1>11 DEF RemoveBlob
<1>12. ASSUME NEW r \in Repo, NEW d \in Digest, RemoveLayer(r, d) PROVE GCTypeOK'
  BY <1>12 DEF RemoveLayer
<1>13. QED
  BY <1>1, <1>2, <1>3, <1>4, <1>5, <1>6, <1>7, <1>8, <1>9, <1>10, <1>11, <1>12, ZenonT(30)
     DEF GCMark, GCSweep, StopGC, EndGC, StopInRemoveManifest

LEMMA MarkStep ==
  ASSUME CollectInv, UNCHANGED removeUntagged, StartGC \/ GCMark
  PROVE  ServeInv' /\ MarkInv'
<1> USE DEF CollectInv
<1>1. UNCHANGED vars
  BY DEF StartGC, GCMark, VisitRepo, MarkManifest, QueueUntagged, MarkReferences, MarkLayers, EndMark
<1>2. ServeInv'
  BY <1>1, ServeInvStutter
<1>3. UNCHANGED <<revisions, pc>> /\ \A r : Kept(r)' = Kept(r)
  BY <1>1 DEF vars, storeVars, procVars, Kept, Tagged
<1>4. CASE StartGC
  <2>1. ASSUME NEW r \in Repo, r \notin todoRepos' PROVE revisions[r] = {}
    BY <1>4, <2>1 DEF StartGC, MustVisit
  <2>2. ASSUME NEW r \in Repo, r \notin todoRepos' PROVE RepoMarked(r)'
    BY <1>3, <2>1, <2>2 DEF RepoMarked, Kept
  <2>3. QED
    BY <1>2, <1>3, <1>4, <2>2 DEF StartGC, MarkInv, Quiescent
<1>5. ASSUME NEW r \in Repo, VisitRepo(r) PROVE MarkInv'
  <2>1. \A m \in Kept(r) : m \in todo'
    BY <1>5 DEF VisitRepo, ManifestExists, BlobExists, ServeInv, Kept, Needs
  <2>2. QED
    BY <1>3, <1>5, <2>1 DEF VisitRepo, MarkInv, RepoMarked, BeingMarked, Quiescent
<1>6. ASSUME NEW m \in Manifest, MarkManifest(m) PROVE MarkInv'
  BY <1>3, <1>6 DEF MarkManifest, MarkInv, RepoMarked, BeingMarked, Quiescent
<1>7. ASSUME NEW m \in Manifest, QueueUntagged(m) PROVE MarkInv'
  <2>1. m \notin Kept(repo) /\ removeUntagged'
    BY <1>7, ZenonT(30) DEF QueueUntagged, Kept
  <2>2. QED
    BY <1>3, <1>7, <2>1 DEF QueueUntagged, MarkInv, RepoMarked, BeingMarked, Quiescent
<1>8. ASSUME NEW m \in Manifest, MarkReferences(m) PROVE MarkInv'
  BY <1>3, <1>8, NeedsMarked DEF MarkReferences, MarkInv, RepoMarked, BeingMarked, Quiescent
<1>9. CASE MarkLayers
  <2>1. RepoMarked(repo)
    BY <1>9, ZenonT(30) DEF MarkLayers, MarkInv, BeingMarked, RepoMarked, Needs
  <2>2. QED
    BY <1>2, <1>3, <1>9, <2>1, ZenonT(30) DEF MarkLayers, MarkInv, RepoMarked, Quiescent
<1>10. CASE EndMark
  BY <1>2, <1>3, <1>10 DEF EndMark, MarkInv, RepoMarked, Quiescent
<1>11. QED
  BY <1>2, <1>4, <1>5, <1>6, <1>7, <1>8, <1>9, <1>10 DEF GCMark

\* The tags' index entries of a manifest go, of all its tags or of some.
LEMMA IndexEntriesType ==
  ASSUME TypeOK, NEW o \in ManifestDel, NEW T, RemoveIndexEntries(o, T)
  PROVE  tagIndex' \in [Repo -> [Tag -> SUBSET Manifest]]
<1>1. o.repo \in Repo
  BY DEF ManifestDel
<1>2. tagIndex[o.repo] \in [Tag -> SUBSET Manifest]
  BY <1>1 DEF TypeOK
<1>3. [t \in Tag |-> IF t \in T THEN tagIndex[o.repo][t] \ {o.dgst} ELSE tagIndex[o.repo][t]]
         \in [Tag -> SUBSET Manifest]
  BY <1>2
<1>4. QED
  BY <1>1, <1>3 DEF TypeOK, RemoveIndexEntries

\* The sweep removes nothing that is marked.
LEMMA SweepStep ==
  ASSUME CollectInv, UNCHANGED removeUntagged, GCSweep \/ StopGC
  PROVE  ServeInv' /\ MarkInv'
<1> USE DEF CollectInv
<1>1. phase # "off" /\ Quiescent
  BY DEF GCSweep, StopGC, RemoveManifest, StopInRemoveManifest, EnumerateBlobs, RemoveBlob,
         SweepLayers, RemoveLayer, EndGC, MarkInv
<1>2. CASE EndGC \/ StopGC
  <2>1. UNCHANGED vars /\ GCReset
    BY <1>2 DEF EndGC, StopGC
  <2>2. QED
    BY <2>1, ResetStep, ServeInvStutter
<1>3. CASE EnumerateBlobs \/ SweepLayers
  <2>1. UNCHANGED vars
    BY <1>3 DEF EnumerateBlobs, SweepLayers
  <2>2. UNCHANGED <<revisions, pc>> /\ \A r : Kept(r)' = Kept(r)
    BY <2>1 DEF vars, storeVars, procVars, Kept, Tagged
  <2>3. MarkInv'
    BY <1>3, <2>2 DEF EnumerateBlobs, SweepLayers, MarkInv, RepoMarked, Quiescent
  <2>4. QED
    BY <2>1, <2>3, ServeInvStutter
<1>4. ASSUME NEW d \in Digest, RemoveBlob(d) PROVE ServeInv' /\ MarkInv'
  <2> USE <1>4 DEF RemoveBlob
  <2>1. TypeOK'
    BY DEF ServeInv, TypeOK, procVars
  <2>2. \A r \in Repo : \A m \in Kept(r) : Needs(m) \subseteq blobs'
    BY DEF MarkInv, RepoMarked, ServeInv
  <2>3. ServeInv'
    BY <1>1, <2>1, <2>2, ServeInvRemoval, ZenonT(30)
  <2>4. \A r : Kept(r)' = Kept(r)
    BY DEF Kept, Tagged
  <2>5. MarkInv'
    BY <2>4 DEF MarkInv, RepoMarked, Quiescent, procVars
  <2>6. QED
    BY <2>3, <2>5
<1>5. ASSUME NEW r \in Repo, NEW d \in Digest, RemoveLayer(r, d) PROVE ServeInv' /\ MarkInv'
  <2> USE <1>5 DEF RemoveLayer
  <2>1. TypeOK'
    BY DEF ServeInv, TypeOK, procVars
  <2>2. \A s \in Repo : \A m \in Kept(s) : Needs(m) \subseteq blobs'
    BY DEF ServeInv
  <2>3. ServeInv'
    BY <1>1, <2>1, <2>2, ServeInvRemoval
  <2>4. \A s : Kept(s)' = Kept(s)
    BY DEF Kept, Tagged
  <2>5. MarkInv'
    BY <2>4 DEF MarkInv, RepoMarked, Quiescent, procVars
  <2>6. QED
    BY <2>3, <2>5
<1>6. ASSUME NEW o \in manifestArr, RemoveManifest(o) PROVE ServeInv' /\ MarkInv'
  <2> USE <1>6 DEF RemoveManifest
  <2>1. TypeOK'
    <3>1. o \in ManifestDel
      BY DEF GCTypeOK
    <3>2. tagIndex' \in [Repo -> [Tag -> SUBSET Manifest]]
      BY <3>1, IndexEntriesType DEF ServeInv
    <3>3. QED
      BY <3>2, ZenonT(30) DEF ServeInv, TypeOK, procVars
  <2>2. \A r \in Repo : revisions'[r] \subseteq revisions[r]
    BY DEF ServeInv, TypeOK
  <2>3. ServeInv'
    <3>1. \A r \in Repo : \A m \in Kept(r) : Needs(m) \subseteq blobs'
      BY DEF ServeInv
    <3>2. QED
      BY <1>1, <2>1, <2>2, <3>1, ServeInvRemoval
  <2>4. \A r \in Repo : Kept(r)' \subseteq Kept(r)
    BY <2>2 DEF Kept, Tagged
  <2>5. MarkInv'
    BY <2>4 DEF MarkInv, RepoMarked, Quiescent, procVars
  <2>6. QED
    BY <2>3, <2>5
<1>7. ASSUME NEW o \in manifestArr, NEW T \in SUBSET Tag, StopInRemoveManifest(o, T)
      PROVE  ServeInv' /\ MarkInv'
  <2> USE <1>7 DEF StopInRemoveManifest
  <2>1. TypeOK'
    <3>1. o \in ManifestDel
      BY DEF GCTypeOK
    <3>2. tagIndex' \in [Repo -> [Tag -> SUBSET Manifest]]
      BY <3>1, IndexEntriesType, ZenonT(30) DEF ServeInv
    <3>3. QED
      BY <3>2, ZenonT(30) DEF ServeInv, TypeOK, procVars
  <2>2. \A r \in Repo : \A m \in Kept(r) : Needs(m) \subseteq blobs'
    BY DEF ServeInv
  <2>3. ServeInv'
    BY <1>1, <2>1, <2>2, ServeInvRemoval
  <2>4. QED
    BY <2>3, ResetStep
<1>8. QED
  BY <1>2, <1>3, <1>4, <1>5, <1>6, <1>7 DEF GCSweep

LEMMA CollectStep == CollectInv /\ [GCNext]_allVars => CollectInv'
<1> SUFFICES ASSUME CollectInv, removeUntagged' = removeUntagged, [GCNext]_allVars
             PROVE  CollectInv'
  BY DEF GCNext, allVars
<1>1. CASE UNCHANGED allVars
  <2>1. UNCHANGED vars /\ UNCHANGED gcVars
    BY <1>1 DEF allVars
  <2>2. MarkInv'
    BY <2>1, ZenonT(30) DEF CollectInv, MarkInv, RepoMarked, BeingMarked, Kept, Tagged, Quiescent,
                vars, storeVars, procVars, gcVars
  <2>3. GCTypeOK'
    BY <2>1 DEF CollectInv, GCTypeOK, gcVars
  <2>4. QED
    BY <2>1, <2>2, <2>3, ServeInvStutter DEF CollectInv
<1>2. CASE Serve
  <2>1. ServeInv'
    BY <1>2, ServeStep DEF Serve, CollectInv
  <2>2. MarkInv' /\ GCTypeOK'
    BY <1>2 DEF Serve, CollectInv, MarkInv, GCTypeOK, gcVars
  <2>3. QED
    BY <2>1, <2>2 DEF CollectInv
<1>3. CASE StartGC \/ GCMark \/ GCSweep \/ StopGC
  BY <1>3, GCTypeStep, MarkStep, SweepStep DEF CollectInv, ServeInv
<1>4. QED
  BY <1>1, <1>2, <1>3 DEF GCNext

(***************************************************************************)
(* MarkAndSweep without --delete-untagged: wherever a collection stops and *)
(* however often it is repeated, the data a served manifest needs stays.   *)
(***************************************************************************)
THEOREM CollectKeeps == GCSpec => []KeptWithoutFlag
<1>1. CollectInv => KeptWithoutFlag
  BY ZenonT(30) DEF CollectInv, ServeInv, Kept, KeptWithoutFlag, ReferencedKept
<1>2. QED
  BY <1>1, CollectInit, CollectStep, PTL DEF GCSpec

(***************************************************************************)
(* MarkAndSweep with --delete-untagged: a tag that can be resolved names a *)
(* manifest whose references are all still there, whatever was removed in  *)
(* this and in other repositories and wherever the collection stopped.     *)
(***************************************************************************)
THEOREM CollectKeepsTagged == GCSpec => []TaggedKept
<1>1. CollectInv => TaggedKept
  BY DEF CollectInv, ServeInv, Kept, Tagged, TaggedKept
<1>2. QED
  BY <1>1, CollectInit, CollectStep, PTL DEF GCSpec
-----------------------------------------------------------------------------
\* A step of the collector is an atomic step of ImageStore, or none.
LEMMA RefineCollect ==
  ASSUME MarkInv, ~removeUntagged, StartGC \/ GCMark \/ GCSweep \/ StopGC
  PROVE  [ImageStoreSpec!Next]_(ImageStoreSpec!vars)
<1>1. CASE UNCHANGED vars
  BY <1>1 DEF vars, storeVars, ImageStoreSpec!vars
<1>2. ASSUME NEW d \in Digest, RemoveBlob(d) PROVE ImageStoreSpec!Next
  <2>1. \A r \in Repo : \A m \in revisions[r] : d \notin Needs(m)
    BY <1>2, ZenonT(30) DEF RemoveBlob, MarkInv, RepoMarked, Kept
  <2>2. ImageStoreSpec!Collect(d)
    BY <1>2, <2>1 DEF RemoveBlob, ImageStoreSpec!Collect, ImageStoreSpec!Needs,
                      ImageStoreSpec!Required, Needs, Required
  <2>3. QED
    BY <2>2 DEF ImageStoreSpec!Next
<1>3. ASSUME NEW r \in Repo, NEW d \in Digest, RemoveLayer(r, d) PROVE ImageStoreSpec!Next
  <2>1. ImageStoreSpec!UnlinkLayer(r, d)
    BY <1>3 DEF RemoveLayer, ImageStoreSpec!UnlinkLayer
  <2>2. QED
    BY <2>1 DEF ImageStoreSpec!Next
<1>4. ~\E o \in manifestArr : TRUE
  BY DEF MarkInv
<1>5. QED
  BY <1>1, <1>2, <1>3, <1>4, ZenonT(30)
     DEF StartGC, GCMark, VisitRepo, MarkManifest, QueueUntagged, MarkReferences, MarkLayers,
         EndMark, GCSweep, EnumerateBlobs, SweepLayers, EndGC, StopGC

(***************************************************************************)
(* A registry that is collected without --delete-untagged implements       *)
(* ImageStore: removing a blob is the abstract Collect, which is allowed   *)
(* only for data no published manifest needs.                              *)
(***************************************************************************)
THEOREM CollectRefines == GCSpec => CollectsSafely
<1>1. GCInit => ImageStoreSpec!Init
  BY DEF GCInit, Init, ImageStoreSpec!Init
<1>2. CollectInv /\ [GCNext]_allVars
        => [removeUntagged \/ ImageStoreSpec!Next]_(ImageStoreSpec!vars)
  <2> SUFFICES ASSUME ServeInv, MarkInv, ~removeUntagged, [GCNext]_allVars
               PROVE  [ImageStoreSpec!Next]_(ImageStoreSpec!vars)
    BY DEF CollectInv
  <2>1. CASE UNCHANGED allVars
    BY <2>1 DEF allVars, vars, storeVars, ImageStoreSpec!vars
  <2>2. CASE Serve
    BY <2>2, RefineNewRequest, RefineRequestStep DEF Serve, Next, ServeInv
  <2>3. QED
    BY <2>1, <2>2, RefineCollect DEF GCNext
<1>3. QED
  BY <1>1, <1>2, CollectInit, CollectStep, PTL DEF GCSpec, CollectsSafely
-----------------------------------------------------------------------------
(***************************************************************************)
(* Why a collection that ends leaves no garbage: everything marked is in   *)
(* every set that has the marked roots and is closed under the references  *)
(* of the marked manifests.  Only marked manifests count, so the removal   *)
(* of what is not marked cannot break it.                                  *)
(***************************************************************************)
Spans(S) ==
    /\ Roots \cap markSet \subseteq S
    /\ \A r \in Repo : \A m \in S \cap markSet \cap revisions[r] : m \in blobs => Refs[m] \cap markSet \subseteq S
Justified == \A S \in SUBSET Digest : Spans(S) => markSet \subseteq S

\* The marks and the sets of MarkAndSweep in each phase.
GarbageInv ==
    /\ Justified
    /\ phase = "off" => markSet = {}
    /\ phase # "manifests" => visiting = {}
    /\ phase = "manifests" => /\ todo \subseteq revisions[repo] \cap blobs
                              /\ visiting \subseteq markSet \cap revisions[repo] \cap blobs
    /\ phase = "sweep.manifests" => \A o \in manifestArr : o.dgst \notin markSet
    /\ phase = "sweep.blobs" => blobs \subseteq markSet \cup deleteSet
    /\ phase = "sweep.layers" => blobs \subseteq markSet

LEMMA RootsAreKept == \A m : m \in Roots <=> \E r \in Repo : m \in Kept(r)
  BY DEF Roots, Kept, Tagged

\* Nothing marked is unlinked or removed: the marks stay justified.
LEMMA JustifiedStays ==
  ASSUME Justified, markSet' = markSet,
         \A r \in Repo : Kept(r) \cap markSet \subseteq Kept(r)',
         \A r \in Repo : revisions[r] \cap blobs \cap markSet \subseteq revisions'[r] \cap blobs'
  PROVE  Justified'
<1> SUFFICES ASSUME NEW S \in SUBSET Digest, Spans(S)' PROVE markSet \subseteq S
  BY DEF Justified
<1>1. \A m : m \in Roots' <=> \E r \in Repo : m \in Kept(r)'
  BY SMTT(30) DEF Roots, Kept, Tagged
<1>2. Roots \cap markSet \subseteq Roots' \cap markSet'
  BY <1>1, RootsAreKept
<1>3. Spans(S)
  BY <1>2 DEF Spans
<1>4. QED
  BY <1>3 DEF Justified

LEMMA GarbageInit == GCInit => GarbageInv
  BY DEF GCInit, GCOff, GarbageInv, Justified

\* The collection ends: no marks.
LEMMA GarbageReset ==
  ASSUME GCReset
  PROVE  GarbageInv'
  BY DEF GCReset, GarbageInv, Justified

\* The steps of the mark phase leave the store alone.
LEMMA GarbageMark ==
  ASSUME CollectInv, GarbageInv, UNCHANGED removeUntagged, StartGC \/ GCMark
  PROVE  GarbageInv'
<1> USE DEF CollectInv
<1>1. UNCHANGED vars
  BY ZenonT(30) DEF StartGC, GCMark, VisitRepo, MarkManifest, QueueUntagged, MarkReferences, MarkLayers, EndMark
<1>2. UNCHANGED <<revisions, blobs, tagCurrent>> /\ (\A r : Kept(r)' = Kept(r)) /\ Roots' = Roots
  BY <1>1 DEF vars, storeVars, Kept, Tagged, Roots
<1>3. markSet' = markSet => Justified'
  BY <1>2, JustifiedStays DEF GarbageInv
<1>4. CASE StartGC
  BY <1>2, <1>3, <1>4 DEF StartGC, GarbageInv
<1>5. ASSUME NEW r \in Repo, VisitRepo(r) PROVE GarbageInv'
  BY <1>2, <1>3, <1>5 DEF VisitRepo, GarbageInv, ManifestExists, BlobExists
<1>6. ASSUME NEW m \in Manifest, MarkManifest(m) PROVE GarbageInv'
  <2>1. m \in Kept(repo) /\ repo \in Repo /\ markSet' = markSet \cup {m}
    BY <1>6 DEF MarkManifest, GarbageInv, Kept, GCTypeOK
  <2>2. m \in Roots'
    BY <1>2, <2>1, RootsAreKept
  <2>3. Justified'
    <3> SUFFICES ASSUME NEW S \in SUBSET Digest, Spans(S)' PROVE markSet' \subseteq S
      BY DEF Justified
    <3>1. Spans(S)
      BY <1>2, <2>1 DEF Spans
    <3>2. QED
      BY <2>1, <2>2, <3>1 DEF GarbageInv, Justified, Spans
  <2>4. QED
    BY <1>2, <1>6, <2>3 DEF MarkManifest, GarbageInv
<1>7. ASSUME NEW m \in Manifest, QueueUntagged(m) PROVE GarbageInv'
  BY <1>2, <1>3, <1>7 DEF QueueUntagged, GarbageInv
<1>8. ASSUME NEW m \in Manifest, MarkReferences(m) PROVE GarbageInv'
  <2>1. m \in markSet \cap revisions[repo] \cap blobs /\ repo \in Repo /\ markSet' = markSet \cup Refs[m]
    BY <1>8 DEF MarkReferences, GarbageInv, GCTypeOK
  <2>2. Justified'
    <3> SUFFICES ASSUME NEW S \in SUBSET Digest, Spans(S)' PROVE markSet' \subseteq S
      BY DEF Justified
    <3>1. Spans(S)
      BY <1>2, <2>1 DEF Spans
    <3>2. m \in S
      BY <2>1, <3>1 DEF GarbageInv, Justified
    <3>3. Refs[m] \cap markSet' \subseteq S
      BY <1>2, <2>1, <3>2 DEF Spans
    <3>4. QED
      BY <2>1, <3>1, <3>3 DEF GarbageInv, Justified
  <2>3. QED
    BY <1>2, <1>8, <2>2 DEF MarkReferences, GarbageInv, ManifestExists, BlobExists
<1>9. CASE MarkLayers \/ EndMark
  BY <1>2, <1>3, <1>9 DEF MarkLayers, EndMark, GarbageInv
<1>10. QED
  BY <1>4, <1>5, <1>6, <1>7, <1>8, <1>9 DEF GCMark

\* The steps of the sweep remove what is not marked.
LEMMA GarbageSweep ==
  ASSUME CollectInv, GarbageInv, UNCHANGED removeUntagged, GCSweep \/ StopGC
  PROVE  GarbageInv'
<1> USE DEF CollectInv
<1>1. CASE GCReset
  BY <1>1, GarbageReset
<1>2. CASE EnumerateBlobs \/ SweepLayers
  <2>1. UNCHANGED vars
    BY <1>2 DEF EnumerateBlobs, SweepLayers
  <2>2. UNCHANGED <<revisions, blobs, markSet>> /\ \A r : Kept(r)' = Kept(r)
    BY <1>2, <2>1 DEF EnumerateBlobs, SweepLayers, vars, storeVars, Kept, Tagged
  <2>3. Justified'
    BY <2>2, JustifiedStays DEF GarbageInv
  <2>4. QED
    BY <1>2, <2>2, <2>3 DEF EnumerateBlobs, SweepLayers, GarbageInv
<1>3. ASSUME NEW d \in Digest, RemoveBlob(d) PROVE GarbageInv'
  <2>1. d \notin markSet
    BY <1>3 DEF RemoveBlob, MarkInv
  <2>2. \A r : Kept(r)' = Kept(r)
    BY <1>3 DEF RemoveBlob, Kept, Tagged
  <2>3. Justified'
    BY <1>3, <2>1, <2>2, JustifiedStays DEF RemoveBlob, GarbageInv
  <2>4. QED
    BY <1>3, <2>3 DEF RemoveBlob, GarbageInv
<1>4. ASSUME NEW r \in Repo, NEW d \in Digest, RemoveLayer(r, d) PROVE GarbageInv'
  <2>1. \A s : Kept(s)' = Kept(s)
    BY <1>4, ZenonT(30) DEF RemoveLayer, Kept, Tagged
  <2>2. Justified'
    BY <1>4, <2>1, JustifiedStays DEF RemoveLayer, GarbageInv
  <2>3. QED
    BY <1>4, <2>2 DEF RemoveLayer, GarbageInv
<1>5. ASSUME NEW o \in manifestArr, RemoveManifest(o) PROVE GarbageInv'
  <2>1. o.dgst \notin markSet
    BY <1>5 DEF RemoveManifest, GarbageInv
  <2>2. \A r \in Repo : revisions[r] \cap markSet \subseteq revisions'[r]
    BY <1>5, <2>1 DEF RemoveManifest, ServeInv, TypeOK
  <2>3. \A r \in Repo : Kept(r) \cap markSet \subseteq Kept(r)'
    BY <1>5, <2>2, ZenonT(30) DEF RemoveManifest, Kept, Tagged
  <2>4. Justified'
    BY <1>5, <2>2, <2>3, JustifiedStays DEF RemoveManifest, GarbageInv
  <2>5. QED
    BY <1>5, <2>4 DEF RemoveManifest, GarbageInv
<1>6. QED
  BY <1>1, <1>2, <1>3, <1>4, <1>5, ZenonT(30) DEF GCSweep, StopGC, EndGC, StopInRemoveManifest

LEMMA GarbageStep == CollectInv /\ GarbageInv /\ [GCNext]_allVars => GarbageInv'
<1> SUFFICES ASSUME CollectInv, GarbageInv, removeUntagged' = removeUntagged, [GCNext]_allVars
             PROVE  GarbageInv'
  BY DEF GCNext, allVars
<1>1. CASE UNCHANGED allVars
  BY <1>1 DEF allVars, vars, storeVars, gcVars, GarbageInv, Justified, Spans, Roots
<1>2. CASE Serve
  BY <1>2, ZenonT(30) DEF Serve, gcVars, GarbageInv, Justified
<1>3. QED
  BY <1>1, <1>2, GarbageMark, GarbageSweep DEF GCNext

(***************************************************************************)
(* MarkAndSweep to its end: all data that is left is reachable from a      *)
(* manifest that is to be kept, with --delete-untagged from a tagged one,  *)
(* through any graph of references and any number of repositories.         *)
(***************************************************************************)
THEOREM CollectsAllGarbage == GCSpec => GarbageGone
<1>1. ASSUME CollectInv, GarbageInv, EndGC PROVE blobs \subseteq Live
  <2> SUFFICES ASSUME NEW d \in blobs, NEW S \in SUBSET Digest, Roots \subseteq S, Closed(S)
               PROVE  d \in S
    BY <1>1 DEF Live, CollectInv, ServeInv, TypeOK
  <2>1. d \in markSet
    BY <1>1, ZenonT(30) DEF EndGC, GarbageInv
  <2>2. Spans(S)
    BY DEF Spans, Closed
  <2>3. QED
    BY <1>1, <2>1, <2>2 DEF GarbageInv, Justified
<1>2. CollectInv /\ GarbageInv /\ [GCNext]_allVars => [EndGC => blobs \subseteq Live]_allVars
  BY <1>1
<1>3. QED
  BY <1>2, CollectInit, CollectStep, GarbageInit, GarbageStep, PTL DEF GCSpec, GarbageGone
-----------------------------------------------------------------------------
(***************************************************************************)
(* Layer links of a repository are compared with the marks as soon as its  *)
(* own manifests are marked, so none a manifest to keep refers to is ever  *)
(* listed for removal.                                                     *)
(***************************************************************************)
LayersInv ==
    /\ phase = "off" => deleteLayerSet = [r \in Repo |-> {}]
    /\ \A r \in Repo : \A m \in Kept(r) : Required(m) \cap deleteLayerSet[r] = {}

LEMMA LayersInit == GCInit => LayersInv
  BY DEF GCInit, GCOff, LayersInv

LEMMA LayersReset ==
  ASSUME GCReset
  PROVE  LayersInv'
  BY DEF GCReset, LayersInv

LEMMA LayersStep == CollectInv /\ LayersInv /\ [GCNext]_allVars => LayersInv'
<1> SUFFICES ASSUME CollectInv, LayersInv, removeUntagged' = removeUntagged, [GCNext]_allVars
             PROVE  LayersInv'
  BY DEF GCNext, allVars
<1>1. ASSUME UNCHANGED vars, UNCHANGED deleteLayerSet, phase' = phase \/ phase' # "off"
      PROVE  LayersInv'
  BY <1>1 DEF LayersInv, Kept, Tagged, vars, storeVars
<1>2. CASE UNCHANGED allVars
  BY <1>1, <1>2 DEF allVars, gcVars
<1>3. CASE Serve
  BY <1>3 DEF Serve, LayersInv, gcVars
<1>4. CASE StartGC
  BY <1>1, <1>4 DEF StartGC
<1>5. CASE GCMark
  <2>1. CASE MarkLayers
    <3>1. RepoMarked(repo) /\ repo \in Repo
      BY <2>1 DEF MarkLayers, CollectInv, GCTypeOK, MarkInv, BeingMarked, RepoMarked, Needs
    <3>2. \A r \in Repo : \A m \in Kept(r) : Required(m) \cap deleteLayerSet'[r] = {}
      BY <2>1, <3>1 DEF MarkLayers, LayersInv, CollectInv, GCTypeOK, RepoMarked, Needs
    <3>3. \A r : Kept(r)' = Kept(r)
      BY <2>1 DEF MarkLayers, vars, storeVars, Kept, Tagged
    <3>4. QED
      BY <2>1, <3>2, <3>3, ZenonT(30) DEF MarkLayers, LayersInv
  <2>2. QED
    BY <1>1, <1>5, <2>1, ZenonT(30) DEF GCMark, VisitRepo, MarkManifest, QueueUntagged, MarkReferences, EndMark
<1>6. CASE GCSweep
  <2>1. ASSUME NEW o \in manifestArr, RemoveManifest(o) PROVE LayersInv'
    <3>1. \A r \in Repo : Kept(r)' \subseteq Kept(r)
      BY <2>1 DEF RemoveManifest, Kept, Tagged, CollectInv, ServeInv, TypeOK
    <3>2. QED
      BY <2>1, <3>1 DEF RemoveManifest, LayersInv
  <2>2. ASSUME NEW d \in Digest, RemoveBlob(d) PROVE LayersInv'
    BY <2>2, ZenonT(30) DEF RemoveBlob, LayersInv, Kept, Tagged
  <2>3. ASSUME NEW r \in Repo, NEW d \in Digest, RemoveLayer(r, d) PROVE LayersInv'
    BY <2>3, ZenonT(30) DEF RemoveLayer, LayersInv, Kept, Tagged, CollectInv, GCTypeOK
  <2>4. QED
    BY <1>1, <1>6, <2>1, <2>2, <2>3, LayersReset
       DEF GCSweep, EnumerateBlobs, SweepLayers, EndGC, StopInRemoveManifest
<1>7. CASE StopGC
  BY <1>7, LayersReset DEF StopGC
<1>8. QED
  BY <1>2, <1>3, <1>4, <1>5, <1>6, <1>7 DEF GCNext

\* Neither requests nor the collector take a link that a manifest relies on.
LEMMA ServedGCStep ==
  ASSUME CollectInv, LayersInv, ~apiDeletes, ~removeUntagged, ServedInv, [GCNext]_allVars
  PROVE  ServedInv'
<1>1. CASE UNCHANGED vars
  BY <1>1, ZenonT(30) DEF ServedInv, ServedByRepo, RefLinked, vars, storeVars, procVars
<1>2. CASE Serve
  BY <1>2, ServedStep DEF Serve, CollectInv, ServeInv, NoDeletion
<1>3. ASSUME NEW d \in Digest, RemoveBlob(d) PROVE ServedInv'
  BY <1>3, ZenonT(30) DEF RemoveBlob, ServedInv, ServedByRepo, RefLinked, procVars
<1>4. ASSUME NEW r \in Repo, NEW d \in Digest, RemoveLayer(r, d) PROVE ServedInv'
  <2>1. Quiescent'
    BY <1>4 DEF RemoveLayer, CollectInv, MarkInv, Quiescent, procVars
  <2>2. \A s \in Repo : \A m \in revisions[s] : d \in Required(m) => s # r
    BY <1>4, ZenonT(30) DEF RemoveLayer, LayersInv, Kept
  <2>3. ServedByRepo'
    BY <1>4, <2>2, ZenonT(30) DEF RemoveLayer, ServedInv, ServedByRepo, RefLinked, CollectInv, ServeInv, TypeOK
  <2>4. QED
    BY <2>1, <2>3, ZenonT(30) DEF ServedInv, Quiescent, DeleteSteps, PutSteps
<1>5. ~\E o \in manifestArr : TRUE
  BY DEF CollectInv, MarkInv
<1>6. QED
  BY <1>1, <1>2, <1>3, <1>4, <1>5, ZenonT(30)
     DEF GCNext, allVars, StartGC, GCMark, VisitRepo, MarkManifest, QueueUntagged, MarkReferences,
         MarkLayers, EndMark, GCSweep, EnumerateBlobs, SweepLayers, EndGC, StopGC

(***************************************************************************)
(* With storage.delete.enabled off and without --delete-untagged, however  *)
(* requests and collections alternate and wherever they stop, a repository *)
(* keeps the link of every reference of every manifest it serves.          *)
(***************************************************************************)
THEOREM CollectServes == GCSpec => []ServedAfterGC
<1> DEFINE Served == ~apiDeletes /\ ~removeUntagged => ServedInv
<1>1. GCInit => Served
  BY DEF GCInit, Init, ServedInv, ServedByRepo, DeleteSteps, PutSteps
<1>2. CollectInv /\ LayersInv /\ Served /\ [GCNext]_allVars => Served'
  BY ServedGCStep DEF GCNext, allVars
<1>3. Served => ServedAfterGC
  BY ZenonT(30) DEF ServedInv, ServedAfterGC
<1> HIDE DEF Served
<1>4. QED
  BY <1>1, <1>2, <1>3, CollectInit, CollectStep, LayersInit, LayersStep, PTL DEF GCSpec
-----------------------------------------------------------------------------
\* The deletion p is about to remove tag t of r, which points at what it deleted.
Untagging(p, r, t) ==
    /\ req[p].repo = r
    /\ req[p].dgst = tagCurrent[r][t]
    /\ \/ pc[p] = "delete.lookup"
       \/ pc[p] = "delete.read" /\ t \in lookupTags[p] \cup referencedTags[p]
       \/ pc[p] = "delete.untag" /\ t \in referencedTags[p]

\* A tag points at an indexed revision, or at one whose deletion is not over.
TagOK(r, t) ==
    tagCurrent[r][t] # NoDigest =>
        \/ tagCurrent[r][t] \in revisions[r] \cap tagIndex[r][t]
        \/ \E p \in Proc : Untagging(p, r, t)

TagsInv ==
    /\ \A r \in Repo, t \in Tag : TagOK(r, t)
    /\ \A p \in Proc :
        /\ pc[p] \in {"tag.index", "tag.current"} => req[p].dgst \in revisions[req[p].repo]
        /\ pc[p] = "tag.current" => req[p].dgst \in tagIndex[req[p].repo][req[p].tag]
    /\ phase = "off" => manifestArr = {}
    /\ \A o \in manifestArr : ~Tagged(o.repo, o.dgst)

\* What TagsInv says of the store and the requests.
TagsServed ==
    /\ \A r \in Repo, t \in Tag : TagOK(r, t)
    /\ \A p \in Proc :
        /\ pc[p] \in {"tag.index", "tag.current"} => req[p].dgst \in revisions[req[p].repo]
        /\ pc[p] = "tag.current" => req[p].dgst \in tagIndex[req[p].repo][req[p].tag]

LEMMA TagsStutter ==
  ASSUME TagsServed, UNCHANGED <<revisions, tagIndex, tagCurrent, procVars>>
  PROVE  TagsServed'
<1>1. \A p, r, t : Untagging(p, r, t)' <=> Untagging(p, r, t)
  BY DEF Untagging, procVars
<1>2. \A r \in Repo, t \in Tag : TagOK(r, t)'
  BY <1>1 DEF TagsServed, TagOK
<1>3. QED
  BY <1>2 DEF TagsServed, procVars

\* No deletion is under way: every tag points at a revision its index lists.
TagsOrderly ==
    \A r \in Repo, t \in Tag :
        tagCurrent[r][t] # NoDigest => tagCurrent[r][t] \in revisions[r] \cap tagIndex[r][t]

UntagSteps == {"delete.lookup", "delete.read", "delete.untag"}

\* A new request changes nothing yet, unless it deletes a tag.
LEMMA NewRequestEffect ==
  ASSUME pc \in [Proc -> Steps], NEW p \in Proc, NewRequest(p)
  PROVE  /\ pc[p] = "idle"
         /\ \/ \E r \in Repo, t \in Tag : DeleteTag(p, r, t)
            \/ /\ UNCHANGED storeVars
               /\ pc'[p] \in {"commit.stat", "blob.stat", "mount.link", "put.verify", "delete.stat"}
<1>1. PICK r \in Repo :
        \/ \E d \in Digest : StartCommit(p, r, d) \/ StartDeleteBlob(p, r, d)
        \/ \E from \in Repo, d \in Digest : Mount(p, from, r, d)
        \/ \E m \in Manifest, t \in Tag \cup {NoTag} : StartPutManifest(p, r, m, t)
        \/ \E m \in Manifest : StartDeleteManifest(p, r, m)
        \/ \E t \in Tag : DeleteTag(p, r, t)
  BY DEF NewRequest
<1>2. QED
  BY <1>1, ZenonT(30) DEF StartCommit, StartDeleteBlob, Mount, StartPutManifest, StartDeleteManifest, DeleteTag,
              Start

\* A request that has the registry to itself keeps the tags in order.
LEMMA TagsServeStep ==
  ASSUME TypeOK, RequestOK, TagsServed, NEW p \in Proc, \A q \in Proc : q = p, ~MayCrash,
         NewRequest(p) \/ RequestStep(p) \/ Crash(p)
  PROVE  TagsServed'
<1> USE DEF TypeOK, Goto, Finish, Start, storeVars
<1>a. pc[p] \notin UntagSteps => TagsOrderly
  <2>1. pc[p] \notin UntagSteps => \A q \in Proc, r \in Repo, t \in Tag : ~Untagging(q, r, t)
    BY DEF Untagging, UntagSteps
  <2>2. QED
    BY <2>1 DEF TagsServed, TagOK, TagsOrderly
<1>b. ASSUME TagsOrderly', pc'[p] \notin {"tag.index", "tag.current"}
      PROVE  TagsServed'
  BY <1>b, ZenonT(30) DEF TagsServed, TagOK, TagsOrderly
<1>c. ASSUME UNCHANGED <<revisions, tagIndex, tagCurrent>>, pc[p] \notin UntagSteps,
             pc'[p] \notin {"tag.index", "tag.current"}
      PROVE  TagsServed'
  BY <1>a, <1>b, <1>c DEF TagsOrderly
<1>d. pc[p] # "idle" => req[p].repo \in Repo
  BY DEF RequestOK, Request
<1>2. CASE NewRequest(p)
  <2>1. ASSUME NEW r \in Repo, NEW t \in Tag, DeleteTag(p, r, t) PROVE TagsServed'
    <3>1. TagsOrderly
      BY <1>a, <2>1 DEF DeleteTag, UntagSteps
    <3>2. TagsOrderly'
      BY <2>1, <3>1 DEF DeleteTag, Untag, TagsOrderly
    <3>3. QED
      BY <1>b, <2>1, <3>2 DEF DeleteTag, procVars
  <2>2. QED
    BY <1>2, <1>c, <2>1, NewRequestEffect DEF UntagSteps
<1>3. CASE CommitStep(p)
  BY <1>3, <1>c DEF CommitStep, CommitStat, CommitMove, CommitLink, UntagSteps
<1>4. CASE PutStep(p)
  <2>1. ASSUME NEW d \in Digest, VerifyRef(p, d) PROVE TagsServed'
    BY <1>c, <2>1 DEF VerifyRef, UntagSteps
  <2>2. CASE Verified(p) \/ PutStat(p) \/ PutData(p)
    BY <1>c, <2>2 DEF Verified, PutStat, PutData, UntagSteps
  <2>4. CASE PutLink(p)
    <3>1. TagsOrderly'
      BY <1>a, <2>4 DEF PutLink, TagsOrderly, UntagSteps
    <3>2. CASE Goto(p, "tag.index")
      <4>1. req[p].dgst \in revisions'[req[p].repo]
        BY <1>d, <2>4 DEF PutLink
      <4>2. QED
        BY <3>1, <3>2, <4>1, ZenonT(30) DEF TagsServed, TagOK, TagsOrderly
    <3>3. CASE Finish(p)
      BY <1>b, <3>1, <3>3
    <3>4. QED
      BY <2>4, <3>2, <3>3, Decide DEF PutLink
  <2>5. CASE TagIndexLink(p)
    <3>a. \A r \in Repo, t \in Tag : tagIndex[r][t] \subseteq tagIndex'[r][t]
      BY <2>5 DEF TagIndexLink
    <3>1. TagsOrderly'
      BY <1>a, <2>5, <3>a DEF TagIndexLink, TagsOrderly, UntagSteps
    <3>2. req[p].dgst \in tagIndex'[req[p].repo][req[p].tag]
      BY <1>d, <2>5 DEF TagIndexLink, RequestOK
    <3>3. req[p].dgst \in revisions'[req[p].repo] /\ UNCHANGED req
      BY <2>5 DEF TagIndexLink, TagsServed
    <3>4. \A r \in Repo, t \in Tag : TagOK(r, t)'
      BY <3>1, ZenonT(30) DEF TagsOrderly, TagOK
    <3>5. QED
      BY <3>2, <3>3, <3>4, ZenonT(30) DEF TagsServed
  <2>6. CASE TagCurrentLink(p)
    <3>1. req[p].dgst \in revisions[req[p].repo] \cap tagIndex[req[p].repo][req[p].tag]
      BY <2>6 DEF TagCurrentLink, TagsServed
    <3>2. TagsOrderly'
      BY <1>a, <1>d, <2>6, <3>1 DEF TagCurrentLink, TagsOrderly, UntagSteps, RequestOK
    <3>3. QED
      BY <1>b, <2>6, <3>2 DEF TagCurrentLink
  <2>7. QED
    BY <1>4, <2>1, <2>2, <2>4, <2>5, <2>6 DEF PutStep
<1>5. CASE DeleteStep(p)
  <2>1. CASE DeleteStat(p) \/ BlobStat(p)
    BY <1>c, <2>1, Decide DEF DeleteStat, BlobStat, UntagSteps
  <2>2. CASE BlobClear(p)
    BY <1>c, <2>2 DEF BlobClear, UntagSteps
  <2>3. CASE DeleteClear(p)
    <3>1. CASE Goto(p, "delete.lookup")
      <4>1. ASSUME NEW r \in Repo, NEW t \in Tag PROVE TagOK(r, t)'
        BY <1>a, <2>3, <3>1 DEF DeleteClear, TagsOrderly, TagOK, Untagging, UntagSteps
      <4>2. QED
        BY <3>1, <4>1, ZenonT(30) DEF TagsServed
    <3>2. CASE req[p].dgst \notin revisions[req[p].repo] /\ Finish(p)
      <4>1. TagsOrderly'
        BY <1>a, <2>3, <3>2 DEF DeleteClear, TagsOrderly, UntagSteps
      <4>2. QED
        BY <1>b, <3>2, <4>1
    <3>3. GotoOrFinish(p, req[p].dgst \in revisions[req[p].repo], "delete.lookup")
      BY <2>3 DEF DeleteClear
    <3>4. QED
      BY <3>1, <3>2, <3>3 DEF GotoOrFinish
  <2>4. CASE LookupList(p)
    <3>1. \A r \in Repo, t \in Tag :
            tagCurrent[r][t] # NoDigest /\ Untagging(p, r, t) => Untagging(p, r, t)'
      BY <2>4 DEF LookupList, TagDirs, Untagging
    <3>2. ASSUME NEW r \in Repo, NEW t \in Tag PROVE TagOK(r, t)'
      <4>1. TagOK(r, t)
        BY DEF TagsServed
      <4>2. QED
        BY <2>4, <3>1, <4>1 DEF LookupList, TagOK
    <3>3. \A q \in Proc : pc'[q] = "delete.read"
      BY <2>4 DEF LookupList
    <3>4. QED
      BY <3>2, <3>3, ZenonT(30) DEF TagsServed
  <2>5. ASSUME NEW t \in Tag, LookupRead(p, t) PROVE TagsServed'
    <3>1. ASSUME NEW r \in Repo, NEW u \in Tag PROVE TagOK(r, u)'
      <4>1. TagOK(r, u)
        BY DEF TagsServed
      <4>2. Untagging(p, r, u) => Untagging(p, r, u)'
        BY <2>5 DEF LookupRead, Untagging
      <4>3. QED
        BY <2>5, <4>1, <4>2 DEF LookupRead, TagOK
    <3>2. QED
      BY <2>5, <3>1 DEF LookupRead, TagsServed
  <2>6. ASSUME NEW t \in Tag, DeleteUntag(p, t) PROVE TagsServed'
    <3>1. ASSUME NEW r \in Repo, NEW u \in Tag PROVE TagOK(r, u)'
      <4>a. tagCurrent' = [tagCurrent EXCEPT ![req[p].repo][t] = NoDigest]
            /\ tagIndex' = [tagIndex EXCEPT ![req[p].repo][t] = {}]
        BY <2>6 DEF DeleteUntag, Untag
      <4>1. CASE r = req[p].repo /\ u = t
        BY <4>a, <4>1, ZenonT(30) DEF TagOK
      <4>2. CASE ~(r = req[p].repo /\ u = t)
        <5>1. tagCurrent'[r][u] = tagCurrent[r][u] /\ tagIndex'[r][u] = tagIndex[r][u]
          BY <4>a, <4>2
        <5>2. TagOK(r, u)
          BY DEF TagsServed
        <5>3. QED
          BY <2>6, <4>2, <5>1, <5>2, ZenonT(30) DEF DeleteUntag, TagOK, Untagging
      <4>3. QED
        BY <4>1, <4>2
    <3>2. \A q \in Proc : pc'[q] = "delete.untag"
      BY <2>6 DEF DeleteUntag
    <3>3. QED
      BY <3>1, <3>2, ZenonT(30) DEF TagsServed
  <2>7. CASE LookupDone(p)
    <3>1. \A r, t : Untagging(p, r, t) => Untagging(p, r, t)'
      BY <2>7 DEF LookupDone, Untagging
    <3>2. ASSUME NEW r \in Repo, NEW t \in Tag PROVE TagOK(r, t)'
      <4>1. TagOK(r, t)
        BY DEF TagsServed
      <4>2. QED
        BY <2>7, <3>1, <4>1 DEF LookupDone, TagOK
    <3>3. \A q \in Proc : pc'[q] = "delete.untag"
      BY <2>7 DEF LookupDone
    <3>4. QED
      BY <3>2, <3>3, ZenonT(30) DEF TagsServed
  <2>8. CASE DeleteDone(p)
    <3>1. \A q \in Proc, r \in Repo, t \in Tag : ~Untagging(q, r, t)
      BY <2>8 DEF DeleteDone, Untagging
    <3>2. TagsOrderly
      BY <3>1 DEF TagsServed, TagOK, TagsOrderly
    <3>3. TagsOrderly'
      BY <2>8, <3>2 DEF DeleteDone, TagsOrderly
    <3>4. QED
      BY <1>b, <2>8, <3>3 DEF DeleteDone
  <2>9. QED
    BY <1>5, <2>1, <2>2, <2>3, <2>4, <2>5, <2>6, <2>7, <2>8 DEF DeleteStep
<1>6. QED
  BY <1>2, <1>3, <1>4, <1>5 DEF RequestStep, Crash

LEMMA TagsInit == GCInit => TagsInv
<1> SUFFICES ASSUME GCInit PROVE TagsInv
  OBVIOUS
<1>1. \A r \in Repo, t \in Tag : tagCurrent[r][t] = NoDigest
  BY DEF GCInit, Init
<1>2. (\A p \in Proc : pc[p] = "idle") /\ manifestArr = {}
  BY DEF GCInit, GCOff, Init
<1>3. QED
  BY <1>1, <1>2, ZenonT(30) DEF TagsInv, TagOK

\* A manifest the collector removes is not tagged, so no tag loses its target.
LEMMA TagsRemoval ==
  ASSUME CollectInv, TagsInv, NEW o \in manifestArr, NEW T, RemoveIndexEntries(o, T), phase # "off",
         \A r \in Repo : revisions'[r] = revisions[r] \/ (r = o.repo /\ revisions'[r] = revisions[r] \ {o.dgst}),
         UNCHANGED <<tagCurrent, procVars>>
  PROVE  TagsServed'
<1>1. Quiescent /\ Quiescent'
  BY DEF CollectInv, MarkInv, Quiescent, procVars
<1>2. o \in ManifestDel
  BY DEF CollectInv, GCTypeOK
<1>3. o.repo \in Repo /\ ~Tagged(o.repo, o.dgst)
  BY <1>2, ZenonT(30) DEF ManifestDel, TagsInv
<1>4. ASSUME NEW r \in Repo, NEW t \in Tag PROVE TagOK(r, t)'
  <2>1. tagCurrent[r][t] # NoDigest => tagCurrent[r][t] \in revisions[r] \cap tagIndex[r][t]
    <3>1. \A p \in Proc : ~Untagging(p, r, t)
      BY <1>1 DEF Untagging, Quiescent
    <3>2. TagOK(r, t)
      BY DEF TagsInv
    <3>3. QED
      BY <3>1, <3>2, ZenonT(30) DEF TagOK
  <2>2. r = o.repo => tagCurrent[r][t] # o.dgst
    BY <1>3 DEF Tagged
  <2>3. \A m : m \in tagIndex[r][t] /\ ~(r = o.repo /\ m = o.dgst) => m \in tagIndex'[r][t]
    BY <1>3, ZenonT(30) DEF RemoveIndexEntries, CollectInv, ServeInv, TypeOK
  <2>4. QED
    BY <2>1, <2>2, <2>3, ZenonT(30) DEF TagOK
<1>5. QED
  BY <1>1, <1>4 DEF TagsServed, Quiescent

LEMMA TagsStep ==
  ASSUME \A p, q \in Proc : p = q, ~MayCrash
  PROVE  CollectInv /\ TagsInv /\ [GCNext]_allVars => TagsInv'
<1> SUFFICES ASSUME CollectInv, TagsInv, removeUntagged' = removeUntagged, [GCNext]_allVars
             PROVE  TagsInv'
  BY DEF GCNext, allVars
<1>a. TagsServed
  BY DEF TagsInv, TagsServed
<1>b. ASSUME TagsServed', phase' = "off" => manifestArr' = {}, tagCurrent' = tagCurrent,
             manifestArr' \subseteq manifestArr
      PROVE  TagsInv'
  BY <1>b, ZenonT(30) DEF TagsInv, TagsServed, Tagged
<1>c. ASSUME UNCHANGED vars, phase' = "off" => manifestArr' = {}, manifestArr' \subseteq manifestArr
      PROVE  TagsInv'
  <2>1. UNCHANGED <<revisions, tagIndex, tagCurrent, procVars>>
    BY <1>c DEF vars, storeVars
  <2>2. QED
    BY <1>a, <1>b, <1>c, <2>1, TagsStutter
<1>1. CASE UNCHANGED allVars
  BY <1>1, <1>c, ZenonT(30) DEF allVars, gcVars, TagsInv
<1>2. CASE Serve
  <2>1. TagsServed'
    BY <1>2, <1>a, TagsServeStep DEF Serve, Next, CollectInv, ServeInv
  <2>2. QED
    BY <1>2, <2>1, ZenonT(30) DEF Serve, gcVars, TagsInv, TagsServed
<1>3. CASE GCMark
  <2>1. ASSUME NEW m \in Manifest, QueueUntagged(m) PROVE TagsInv'
    <3>1. ASSUME NEW o \in manifestArr' PROVE ~Tagged(o.repo, o.dgst)
      <4>1. CASE o \in manifestArr
        BY <4>1 DEF TagsInv
      <4>2. CASE o \notin manifestArr
        <5>1. o = [repo |-> repo, dgst |-> m, tags |-> TagDirs(repo)]
          BY <2>1, <4>2, ZenonT(30) DEF QueueUntagged
        <5>2. o.repo = repo /\ o.dgst = m
          BY <5>1
        <5>3. QED
          BY <2>1, <5>2, ZenonT(30) DEF QueueUntagged
      <4>3. QED
        BY <4>1, <4>2
    <3>a. UNCHANGED <<revisions, tagIndex, tagCurrent, procVars>>
      BY <2>1, ZenonT(30) DEF QueueUntagged, vars, storeVars
    <3>2. TagsServed' /\ UNCHANGED tagCurrent
      BY <1>a, <3>a, TagsStutter
    <3>3. QED
      BY <2>1, <3>1, <3>2, ZenonT(30) DEF QueueUntagged, TagsInv, TagsServed, Tagged
  <2>2. QED
    BY <1>3, <1>c, <2>1, ZenonT(30) DEF GCMark, VisitRepo, MarkManifest, MarkReferences, MarkLayers, EndMark
<1>4. CASE GCSweep
  <2>1. ASSUME NEW o \in manifestArr, RemoveManifest(o) PROVE TagsInv'
    <3>1. \A r \in Repo : revisions'[r] = revisions[r] \/ (r = o.repo /\ revisions'[r] = revisions[r] \ {o.dgst})
      BY <2>1 DEF RemoveManifest, CollectInv, ServeInv, TypeOK
    <3>2. TagsServed'
      BY <2>1, <3>1, TagsRemoval DEF RemoveManifest
    <3>3. QED
      BY <1>b, <2>1, <3>2 DEF RemoveManifest
  <2>2. ASSUME NEW o \in manifestArr, NEW T \in SUBSET Tag, StopInRemoveManifest(o, T) PROVE TagsInv'
    <3>1. TagsServed'
      BY <2>2, TagsRemoval DEF StopInRemoveManifest
    <3>2. QED
      BY <1>b, <2>2, <3>1 DEF StopInRemoveManifest, GCReset
  <2>3. ASSUME NEW d \in Digest, RemoveBlob(d) PROVE TagsInv'
    <3>1. TagsServed'
      BY <1>a, <2>3, TagsStutter DEF RemoveBlob
    <3>2. QED
      BY <1>b, <2>3, <3>1 DEF RemoveBlob
  <2>4. ASSUME NEW r \in Repo, NEW d \in Digest, RemoveLayer(r, d) PROVE TagsInv'
    <3>1. TagsServed'
      BY <1>a, <2>4, TagsStutter DEF RemoveLayer
    <3>2. QED
      BY <1>b, <2>4, <3>1 DEF RemoveLayer
  <2>5. QED
    BY <1>4, <1>c, <2>1, <2>2, <2>3, <2>4
       DEF GCSweep, EnumerateBlobs, SweepLayers, EndGC, GCReset
<1>5. CASE StartGC \/ StopGC
  BY <1>5, <1>c DEF StartGC, StopGC, GCReset
<1>6. QED
  BY <1>1, <1>2, <1>3, <1>4, <1>5 DEF GCNext

(***************************************************************************)
(* When requests come one at a time and none is cut short, no tag is left  *)
(* dangling: deletion by digest finds every tag that points at what it     *)
(* deletes (Lookup), and a collection with --delete-untagged, even one     *)
(* that dies in RemoveManifest, takes nothing a tag points at.  Both       *)
(* assumptions are needed: a request that tags the manifest between Lookup *)
(* and the deletion, or a deletion that dies before it untags, leaves one. *)
(***************************************************************************)
THEOREM TagsNeverDangle ==
  ASSUME \A p, q \in Proc : p = q, ~MayCrash
  PROVE  GCSpec => []NoDanglingTag
<1>1. TagsInv => NoDanglingTag
  <2>1. Quiescent => \A p \in Proc, r \in Repo, t \in Tag : ~Untagging(p, r, t)
    BY DEF Untagging, Quiescent
  <2>2. QED
    BY <2>1, ZenonT(30) DEF TagsInv, TagOK, NoDanglingTag
<1>2. QED
  BY <1>1, CollectInit, CollectStep, TagsInit, TagsStep, PTL DEF GCSpec
=============================================================================
