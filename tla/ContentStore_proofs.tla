------------------------ MODULE ContentStore_proofs -------------------------
(***************************************************************************)
(* Proofs about ContentStore, for any number of repositories, tags,        *)
(* requests and any content.                                               *)
(***************************************************************************)
EXTENDS ContentStore, TLAPS

\* The references verifyManifest checks are digests.
LEMMA RequiredType == \A m \in Manifest : Required(m) \subseteq Digest
  BY GraphAssumption DEF Required

\* The payload of a manifest is content like any other.
LEMMA ManifestIsDigest == Manifest \subseteq Digest /\ NoDigest \notin Manifest
  BY GraphAssumption

LEMMA TypeInit == Init => TypeOK /\ RequestOK
  BY DEF Init, TypeOK, RequestOK, Steps, PutSteps

LEMMA TypeNewRequest ==
  ASSUME TypeOK, RequestOK, NEW p \in Proc, NewRequest(p)
  PROVE  TypeOK' /\ RequestOK'
<1> USE ManifestIsDigest DEF TypeOK, RequestOK, Start, Steps, PutSteps, CommitSteps,
                             DeleteSteps, Request, storeVars
<1>1. ASSUME NEW r \in Repo, NEW d \in Digest, StartCommit(p, r, d)
      PROVE  TypeOK' /\ RequestOK'
  BY <1>1 DEF StartCommit
<1>2. ASSUME NEW r \in Repo, NEW d \in Digest, StartDeleteBlob(p, r, d)
      PROVE  TypeOK' /\ RequestOK'
  BY <1>2 DEF StartDeleteBlob
<1>3. ASSUME NEW r \in Repo, NEW from \in Repo, NEW d \in Digest, Mount(p, from, r, d)
      PROVE  TypeOK' /\ RequestOK'
  BY <1>3 DEF Mount
<1>4. ASSUME NEW r \in Repo, NEW m \in Manifest, NEW t \in Tag \cup {NoTag},
             StartPutManifest(p, r, m, t)
      PROVE  TypeOK' /\ RequestOK'
  BY <1>4, RequiredType DEF StartPutManifest
<1>5. ASSUME NEW r \in Repo, NEW m \in Manifest, StartDeleteManifest(p, r, m)
      PROVE  TypeOK' /\ RequestOK'
  BY <1>5 DEF StartDeleteManifest
<1>6. ASSUME NEW r \in Repo, NEW t \in Tag, DeleteTag(p, r, t)
      PROVE  TypeOK' /\ RequestOK'
  BY <1>6 DEF DeleteTag, Untag, procVars
<1>7. QED
  BY <1>1, <1>2, <1>3, <1>4, <1>5, <1>6 DEF NewRequest

\* A check decides whether the request goes on or is answered.
LEMMA Decide ==
  ASSUME NEW p, NEW c, NEW s, GotoOrFinish(p, c, s)
  PROVE  (c /\ Goto(p, s)) \/ (~c /\ Finish(p))
  BY DEF GotoOrFinish

LEMMA TypeRequestStep ==
  ASSUME TypeOK, RequestOK, NEW p \in Proc, RequestStep(p) \/ Crash(p)
  PROVE  TypeOK' /\ RequestOK'
<1> USE ManifestIsDigest DEF TypeOK, RequestOK, Goto, Finish, Steps, PutSteps,
                             CommitSteps, DeleteSteps, Request, storeVars
<1>1. CASE CommitStat(p)
  BY <1>1 DEF CommitStat
<1>2. CASE CommitMove(p)
  BY <1>2 DEF CommitMove
<1>3. CASE CommitLink(p)
  BY <1>3 DEF CommitLink
<1>4. ASSUME NEW d \in Digest, VerifyRef(p, d) PROVE TypeOK' /\ RequestOK'
  <2>1. CASE Finish(p)
    BY <1>4, <2>1 DEF VerifyRef
  <2>2. CASE ~Finish(p)
    BY <1>4, <2>2 DEF VerifyRef
  <2>3. QED
    BY <2>1, <2>2
<1>5. CASE Verified(p)
  BY <1>5 DEF Verified
<1>6. CASE PutStat(p)
  BY <1>6 DEF PutStat
<1>7. CASE PutData(p)
  BY <1>7 DEF PutData
<1>8. CASE PutLink(p)
  <2>1. CASE req[p].tag # NoTag /\ Goto(p, "tag.index")
    BY <1>8, <2>1 DEF PutLink
  <2>2. CASE Finish(p)
    BY <1>8, <2>2 DEF PutLink
  <2>3. QED
    BY <1>8, <2>1, <2>2, Decide, ZenonT(30) DEF PutLink
<1>9. CASE TagIndexLink(p)
  BY <1>9 DEF TagIndexLink
<1>10. CASE TagCurrentLink(p)
  BY <1>10 DEF TagCurrentLink
<1>11. CASE DeleteStat(p)
  <2>1. CASE Goto(p, "delete.clear")
    BY <1>11, <2>1 DEF DeleteStat
  <2>2. CASE Finish(p)
    BY <1>11, <2>2 DEF DeleteStat
  <2>3. QED
    BY <1>11, <2>1, <2>2, Decide DEF DeleteStat
<1>12. CASE DeleteClear(p)
  <2>1. CASE Goto(p, "delete.lookup")
    BY <1>12, <2>1 DEF DeleteClear
  <2>2. CASE Finish(p)
    BY <1>12, <2>2 DEF DeleteClear
  <2>3. QED
    BY <1>12, <2>1, <2>2, Decide DEF DeleteClear
<1>13. CASE LookupList(p)
  BY <1>13 DEF LookupList, TagDirs
<1>14. ASSUME NEW t \in Tag, LookupRead(p, t) PROVE TypeOK' /\ RequestOK'
  BY <1>14 DEF LookupRead
<1>15. ASSUME NEW t \in Tag, DeleteUntag(p, t) PROVE TypeOK' /\ RequestOK'
  BY <1>15 DEF DeleteUntag, Untag
<1>16. CASE LookupDone(p)
  BY <1>16 DEF LookupDone
<1>17. CASE DeleteDone(p)
  BY <1>17 DEF DeleteDone
<1>18. CASE BlobStat(p)
  <2>1. CASE Goto(p, "blob.clear")
    BY <1>18, <2>1 DEF BlobStat
  <2>2. CASE Finish(p)
    BY <1>18, <2>2 DEF BlobStat
  <2>3. QED
    BY <1>18, <2>1, <2>2, Decide DEF BlobStat
<1>19. CASE BlobClear(p)
  BY <1>19 DEF BlobClear
<1>20. CASE Crash(p)
  BY <1>20 DEF Crash
<1>21. QED
  BY <1>1, <1>2, <1>3, <1>4, <1>5, <1>6, <1>7, <1>8, <1>9, <1>10, <1>11, <1>12, <1>13, <1>14, <1>15, <1>16, <1>17, <1>18, <1>19, <1>20, ZenonT(30)
     DEF RequestStep, CommitStep, PutStep, DeleteStep

\* What the proof of StoreInv concludes for every step.
StoreSafe == InFlightOK /\ LinkedDataPresent /\ ManifestComplete

LEMMA SafeInit == Init => StoreSafe
  BY DEF Init, StoreSafe, InFlightOK, LinkedDataPresent, ManifestComplete, PutSteps

\* A new request changes no data, and has nothing to rely on yet.
LEMMA SafeNewRequest ==
  ASSUME StoreInv, NEW p \in Proc, NewRequest(p)
  PROVE  StoreSafe'
<1> USE ManifestIsDigest DEF StoreInv, StoreSafe, TypeOK, RequestOK, InFlightOK,
        LinkedDataPresent, ManifestComplete, Start, PutSteps, storeVars
<1>1. ASSUME NEW r \in Repo, NEW d \in Digest, StartCommit(p, r, d)
      PROVE  StoreSafe'
  BY <1>1 DEF StartCommit
<1>2. ASSUME NEW r \in Repo, NEW d \in Digest, StartDeleteBlob(p, r, d)
      PROVE  StoreSafe'
  BY <1>2 DEF StartDeleteBlob
<1>3. ASSUME NEW r \in Repo, NEW from \in Repo, NEW d \in Digest, Mount(p, from, r, d)
      PROVE  StoreSafe'
  BY <1>3 DEF Mount, LayerExists, BlobExists
<1>4. ASSUME NEW r \in Repo, NEW m \in Manifest, NEW t \in Tag \cup {NoTag},
             StartPutManifest(p, r, m, t)
      PROVE  StoreSafe'
  BY <1>4 DEF StartPutManifest
<1>5. ASSUME NEW r \in Repo, NEW m \in Manifest, StartDeleteManifest(p, r, m)
      PROVE  StoreSafe'
  BY <1>5 DEF StartDeleteManifest
<1>6. ASSUME NEW r \in Repo, NEW t \in Tag, DeleteTag(p, r, t)
      PROVE  StoreSafe'
  BY <1>6 DEF DeleteTag, Untag, procVars
<1>7. QED
  BY <1>1, <1>2, <1>3, <1>4, <1>5, <1>6, ZenonT(30) DEF NewRequest

\* A step that removes no data and adds no link, and after which its request p relies on
\* nothing, is safe.
LEMMA SafeRemoval ==
  ASSUME StoreInv, NEW p \in Proc,
         blobs' = blobs,
         \A q \in Proc \ {p} : pc'[q] = pc[q] /\ req'[q] = req[q] /\ deps'[q] = deps[q],
         pc'[p] \notin PutSteps \cup {"commit.link", "mount.link"},
         \A r \in Repo :
            /\ layers'[r] \subseteq layers[r] /\ revisions'[r] \subseteq revisions[r]
            /\ \A t \in Tag : /\ tagIndex'[r][t] \subseteq tagIndex[r][t]
                             /\ tagCurrent'[r][t] \in {tagCurrent[r][t], NoDigest}
  PROVE  StoreSafe'
<1>1. InFlightOK'
  <2> SUFFICES ASSUME NEW q \in Proc
               PROVE  /\ pc'[q] \in {"commit.link", "mount.link", "put.link", "tag.index",
                                     "tag.current"} => req'[q].dgst \in blobs
                      /\ pc'[q] = "put.verify" => Required(req'[q].dgst) \ deps'[q] \subseteq blobs
                      /\ pc'[q] \in PutSteps \ {"put.verify"}
                            => Required(req'[q].dgst) \subseteq blobs
    BY DEF InFlightOK
  <2>1. CASE q = p
    BY <2>1 DEF PutSteps
  <2>2. CASE q # p
    BY <2>2 DEF StoreInv, InFlightOK
  <2>3. QED
    BY <2>1, <2>2
<1>2. LinkedDataPresent'
  BY DEF StoreInv, LinkedDataPresent
<1>3. ManifestComplete'
  BY DEF StoreInv, ManifestComplete
<1>4. QED
  BY <1>1, <1>2, <1>3 DEF StoreSafe

LEMMA SafeRequestStep ==
  ASSUME StoreInv, NEW p \in Proc, RequestStep(p) \/ Crash(p)
  PROVE  StoreSafe'
<1> USE ManifestIsDigest DEF StoreInv, StoreSafe, TypeOK, RequestOK, InFlightOK,
        LinkedDataPresent, ManifestComplete, Needs, Goto, Finish, PutSteps, Request, storeVars
<1>1. CASE CommitStat(p)
  BY <1>1 DEF CommitStat, BlobExists
<1>2. CASE CommitMove(p)
  BY <1>2 DEF CommitMove
<1>3. CASE CommitLink(p)
  BY <1>3 DEF CommitLink
<1>4. ASSUME NEW d \in Digest, VerifyRef(p, d) PROVE StoreSafe'
  <2>1. CASE ~Finish(p)
    <3>1. /\ RefExists(req[p].repo, req[p].dgst, d)
          /\ deps' = [deps EXCEPT ![p] = @ \ {d}]
          /\ UNCHANGED <<storeVars, pc, req>>
      BY <1>4, <2>1 DEF VerifyRef
    <3>2. d \in blobs
      BY <3>1 DEF RefExists, ManifestExists, LayerExists, BlobExists
    <3>3. QED
      BY <1>4, <3>1, <3>2
  <2>2. CASE Finish(p)
    BY <1>4, <2>2 DEF VerifyRef
  <2>3. QED
    BY <2>1, <2>2
<1>5. CASE Verified(p)
  BY <1>5 DEF Verified
<1>6. CASE PutStat(p)
  BY <1>6 DEF PutStat, BlobExists
<1>7. CASE PutData(p)
  BY <1>7 DEF PutData
<1>8. CASE PutLink(p)
  <2>1. InFlightOK'
    <3>1. CASE Goto(p, "tag.index")
      BY <1>8, <3>1 DEF PutLink
    <3>2. CASE Finish(p)
      BY <1>8, <3>2 DEF PutLink
    <3>3. QED
      BY <1>8, <3>1, <3>2, Decide DEF PutLink
  <2>2. LinkedDataPresent'
    BY <1>8 DEF PutLink
  <2>3. ManifestComplete'
    BY <1>8 DEF PutLink
  <2>4. QED
    BY <2>1, <2>2, <2>3
<1>9. CASE TagIndexLink(p)
  BY <1>9, SMTT(30) DEF TagIndexLink
<1>10. CASE TagCurrentLink(p)
  <2>1. InFlightOK'
    BY <1>10, SMTT(30) DEF TagCurrentLink
  <2>2. LinkedDataPresent'
    BY <1>10, SMTT(30) DEF TagCurrentLink
  <2>3. ManifestComplete'
    <3>1. Needs(req[p].dgst) \subseteq blobs
      BY <1>10, SMTT(30) DEF TagCurrentLink
    <3>2. ASSUME NEW r \in Repo, NEW t \in Tag
          PROVE  tagCurrent'[r][t] \in {tagCurrent[r][t], req[p].dgst}
      BY <1>10 DEF TagCurrentLink
    <3>3. UNCHANGED <<blobs, revisions>>
      BY <1>10 DEF TagCurrentLink
    <3>4. QED
      BY <3>1, <3>2, <3>3, SMTT(30)
  <2>4. QED
    BY <2>1, <2>2, <2>3
<1> HIDE DEF StoreSafe, InFlightOK, LinkedDataPresent, ManifestComplete
<1>11. CASE DeleteStat(p)
  <2>1. Goto(p, "delete.clear") \/ Finish(p)
    BY <1>11, Decide DEF DeleteStat
  <2>2. QED
    BY <1>11, <2>1, SafeRemoval, ZenonT(30) DEF DeleteStat
<1>12. CASE DeleteClear(p)
  <2>1. Goto(p, "delete.lookup") \/ Finish(p)
    BY <1>12, Decide DEF DeleteClear
  <2>2. QED
    BY <1>12, <2>1, SafeRemoval, ZenonT(30) DEF DeleteClear
<1>13. CASE LookupList(p)
  BY <1>13, SafeRemoval DEF LookupList
<1>14. ASSUME NEW t \in Tag, LookupRead(p, t) PROVE StoreSafe'
  BY <1>14, SafeRemoval, ZenonT(30) DEF LookupRead
<1>15. ASSUME NEW t \in Tag, DeleteUntag(p, t) PROVE StoreSafe'
  BY <1>15, SafeRemoval DEF DeleteUntag, Untag
<1>16. CASE LookupDone(p)
  BY <1>16, SafeRemoval DEF LookupDone
<1>17. CASE DeleteDone(p)
  BY <1>17, SafeRemoval DEF DeleteDone
<1>18. CASE BlobStat(p)
  <2>1. Goto(p, "blob.clear") \/ Finish(p)
    BY <1>18, Decide DEF BlobStat
  <2>2. QED
    BY <1>18, <2>1, SafeRemoval, ZenonT(30) DEF BlobStat
<1>19. CASE BlobClear(p)
  BY <1>19, SafeRemoval DEF BlobClear
<1>20. CASE Crash(p)
  BY <1>20, SafeRemoval DEF Crash
<1>21. QED
  BY <1>1, <1>2, <1>3, <1>4, <1>5, <1>6, <1>7, <1>8, <1>9, <1>10, <1>11, <1>12, <1>13, <1>14, <1>15, <1>16, <1>17, <1>18, <1>19, <1>20
     DEF RequestStep, CommitStep, PutStep, DeleteStep

LEMMA StoreInvInit == Init => StoreInv
  BY TypeInit, SafeInit DEF StoreInv, StoreSafe

LEMMA StoreInvStutter == StoreInv /\ UNCHANGED vars => StoreInv'
  BY DEF StoreInv, TypeOK, RequestOK, InFlightOK, LinkedDataPresent, ManifestComplete,
         vars, storeVars, procVars

LEMMA StoreInvNext == StoreInv /\ [Next]_vars => StoreInv'
<1> SUFFICES ASSUME StoreInv, Next PROVE StoreInv'
  BY StoreInvStutter
<1>1. PICK p \in Proc : NewRequest(p) \/ RequestStep(p) \/ Crash(p)
  BY DEF Next
<1>2. TypeOK' /\ RequestOK'
  BY <1>1, TypeNewRequest, TypeRequestStep DEF StoreInv
<1>3. StoreSafe'
  BY <1>1, SafeNewRequest, SafeRequestStep
<1>4. QED
  BY <1>2, <1>3 DEF StoreInv, StoreSafe

(***************************************************************************)
(* Whatever the handlers of PutManifest, DeleteManifest, DeleteBlob and    *)
(* blob uploads do concurrently, and wherever they stop, a link never      *)
(* points at missing data and what can be pulled is complete.              *)
(***************************************************************************)
THEOREM StoreCorrect == Spec => [](TypeOK /\ LinkedDataPresent /\ ManifestComplete)
<1>1. StoreInv => TypeOK /\ LinkedDataPresent /\ ManifestComplete
  BY DEF StoreInv
<1>2. QED
  BY StoreInvInit, StoreInvNext, <1>1, PTL DEF Spec
-----------------------------------------------------------------------------
\* A step of a request as a client sees it: an atomic step of ImageStore, or none.
LEMMA RefineNewRequest ==
  ASSUME NEW p \in Proc, NewRequest(p)
  PROVE  [ImageStoreSpec!Next]_(ImageStoreSpec!vars)
<1>1. CASE UNCHANGED storeVars
  BY <1>1 DEF storeVars, ImageStoreSpec!vars
<1>2. ASSUME NEW r \in Repo, NEW t \in Tag, DeleteTag(p, r, t)
      PROVE  ImageStoreSpec!RemoveTag(r, t)
  BY <1>2 DEF DeleteTag, Untag, ImageStoreSpec!RemoveTag
<1>3. QED
  BY <1>1, <1>2 DEF NewRequest, StartCommit, StartDeleteBlob, Mount, StartPutManifest,
                    StartDeleteManifest, ImageStoreSpec!Next

LEMMA RefineRequestStep ==
  ASSUME TypeOK, RequestOK, InFlightOK, NEW p \in Proc, RequestStep(p) \/ Crash(p)
  PROVE  [ImageStoreSpec!Next]_(ImageStoreSpec!vars)
<1> USE DEF TypeOK, RequestOK, InFlightOK, Request, Needs, PutSteps
<1>1. CASE UNCHANGED storeVars
  BY <1>1 DEF storeVars, ImageStoreSpec!vars
<1>2. CASE CommitMove(p)
  <2>1. req[p].dgst \in Digest /\ ImageStoreSpec!Store(req[p].dgst)
    BY <1>2 DEF CommitMove, ImageStoreSpec!Store
  <2>2. QED
    BY <2>1 DEF ImageStoreSpec!Next
<1>3. CASE CommitLink(p)
  <2>1. /\ req[p].repo \in Repo
        /\ req[p].dgst \in Digest
        /\ ImageStoreSpec!LinkLayer(req[p].repo, req[p].dgst)
    BY <1>3 DEF CommitLink, ImageStoreSpec!LinkLayer
  <2>2. QED
    BY <2>1 DEF ImageStoreSpec!Next
<1>4. CASE PutData(p)
  <2>1. req[p].dgst \in Digest /\ ImageStoreSpec!Store(req[p].dgst)
    BY <1>4 DEF PutData, ImageStoreSpec!Store
  <2>2. QED
    BY <2>1 DEF ImageStoreSpec!Next
<1>5. CASE PutLink(p)
  <2>1. req[p].repo \in Repo /\ req[p].dgst \in Manifest
    BY <1>5 DEF PutLink
  <2>2. ImageStoreSpec!Needs(req[p].dgst) \subseteq blobs
    BY <1>5 DEF PutLink, ImageStoreSpec!Needs, ImageStoreSpec!Required, Required
  <2>3. ImageStoreSpec!Publish(req[p].repo, req[p].dgst)
    BY <1>5, <2>2 DEF PutLink, ImageStoreSpec!Publish
  <2>4. QED
    BY <2>1, <2>3 DEF ImageStoreSpec!Next
<1>6. CASE TagIndexLink(p)
  BY <1>6 DEF TagIndexLink, ImageStoreSpec!vars
<1>7. CASE TagCurrentLink(p)
  <2>1. req[p].repo \in Repo /\ req[p].tag \in Tag /\ req[p].dgst \in Manifest
    BY <1>7 DEF TagCurrentLink
  <2>2. ImageStoreSpec!Needs(req[p].dgst) \subseteq blobs
    BY <1>7 DEF TagCurrentLink, ImageStoreSpec!Needs, ImageStoreSpec!Required, Required
  <2>3. ImageStoreSpec!SetTag(req[p].repo, req[p].tag, req[p].dgst)
    BY <1>7, <2>2 DEF TagCurrentLink, ImageStoreSpec!SetTag
  <2>4. QED
    BY <2>1, <2>3 DEF ImageStoreSpec!Next
<1>8. CASE DeleteClear(p)
  <2>1. /\ req[p].repo \in Repo
        /\ req[p].dgst \in Manifest
        /\ ImageStoreSpec!Unpublish(req[p].repo, req[p].dgst)
    BY <1>8 DEF DeleteClear, ImageStoreSpec!Unpublish
  <2>2. QED
    BY <2>1 DEF ImageStoreSpec!Next
<1>9. ASSUME NEW t \in Tag, DeleteUntag(p, t)
      PROVE  ImageStoreSpec!Next
  <2>1. req[p].repo \in Repo /\ ImageStoreSpec!RemoveTag(req[p].repo, t)
    BY <1>9 DEF DeleteUntag, Untag, ImageStoreSpec!RemoveTag
  <2>2. QED
    BY <2>1 DEF ImageStoreSpec!Next
<1>10. CASE BlobClear(p)
  <2>1. /\ req[p].repo \in Repo
        /\ req[p].dgst \in Digest
        /\ ImageStoreSpec!UnlinkLayer(req[p].repo, req[p].dgst)
    BY <1>10 DEF BlobClear, ImageStoreSpec!UnlinkLayer
  <2>2. QED
    BY <2>1 DEF ImageStoreSpec!Next
<1>11. QED
  BY <1>1, <1>2, <1>3, <1>4, <1>5, <1>6, <1>7, <1>8, <1>9, <1>10
     DEF RequestStep, CommitStep, PutStep, DeleteStep, CommitStat, VerifyRef, Verified, PutStat,
         DeleteStat, LookupList, LookupRead, LookupDone, DeleteDone, BlobStat, Crash

(***************************************************************************)
(* The handlers' driver calls, in any interleaving and with any of them    *)
(* missing because of a crash, implement the atomic store of ImageStore.   *)
(***************************************************************************)
THEOREM StoreRefinement == Spec => ImplementsImageStore
<1>1. Init => ImageStoreSpec!Init
  BY DEF Init, ImageStoreSpec!Init
<1>2. StoreInv /\ [Next]_vars => [ImageStoreSpec!Next]_(ImageStoreSpec!vars)
  <2>1. ASSUME UNCHANGED vars PROVE UNCHANGED ImageStoreSpec!vars
    BY <2>1 DEF vars, storeVars, ImageStoreSpec!vars
  <2>2. QED
    BY <2>1, RefineNewRequest, RefineRequestStep DEF Next, StoreInv
<1>3. QED
  BY <1>1, <1>2, StoreInvInit, StoreInvNext, PTL DEF Spec, ImplementsImageStore, ImageStoreSpec!Spec
-----------------------------------------------------------------------------
\* The four driver calls that write or delete a layer or revision link.
LEMMA LinkSteps ==
  ASSUME NEW p \in Proc, NewRequest(p) \/ RequestStep(p) \/ Crash(p)
  PROVE  \/ UNCHANGED <<layers, revisions>>
         \/ CommitLink(p) \/ PutLink(p) \/ DeleteClear(p) \/ BlobClear(p)
<1>1. CASE NewRequest(p) \/ Crash(p)
  BY <1>1 DEF NewRequest, StartCommit, StartDeleteBlob, Mount, StartPutManifest,
              StartDeleteManifest, DeleteTag, Crash, storeVars
<1>2. CASE CommitStep(p)
  BY <1>2, ZenonT(30) DEF CommitStep, CommitStat, CommitMove, storeVars
<1>3. CASE PutStep(p)
  BY <1>3 DEF PutStep, VerifyRef, Verified, PutStat, PutData, TagIndexLink, TagCurrentLink, storeVars
<1>4. CASE DeleteStep(p)
  BY <1>4, ZenonT(30) DEF DeleteStep, DeleteStat, LookupList, LookupRead, LookupDone, DeleteUntag, DeleteDone,
              BlobStat, storeVars
<1>5. QED
  BY <1>1, <1>2, <1>3, <1>4 DEF RequestStep

\* A step of one request leaves the others where they are.
LEMMA OthersWait ==
  ASSUME TypeOK, NEW p \in Proc, NewRequest(p) \/ RequestStep(p) \/ Crash(p),
         NEW q \in Proc, q # p
  PROVE  pc'[q] = pc[q] /\ req'[q] = req[q] /\ deps'[q] = deps[q]
<1> USE DEF TypeOK, Goto, Finish, Start
<1>1. CASE NewRequest(p) \/ Crash(p)
  BY <1>1, ZenonT(30) DEF NewRequest, StartCommit, StartDeleteBlob, Mount, StartPutManifest,
              StartDeleteManifest, DeleteTag, Crash, procVars
<1>2. CASE CommitStep(p)
  BY <1>2 DEF CommitStep, CommitStat, CommitMove, CommitLink
<1>3. CASE PutStep(p)
  <2>1. \A d \in Digest : VerifyRef(p, d) =>
          Finish(p) \/ (deps' = [deps EXCEPT ![p] = @ \ {d}] /\ UNCHANGED <<pc, req>>)
    BY DEF VerifyRef
  <2>2. PutLink(p) => Finish(p) \/ Goto(p, "tag.index")
    BY Decide DEF PutLink
  <2>3. QED
    BY <1>3, <2>1, <2>2 DEF PutStep, Verified, PutStat, PutData, TagIndexLink, TagCurrentLink
<1>4. CASE DeleteStep(p)
  <2>1. DeleteStat(p) => Finish(p) \/ Goto(p, "delete.clear")
    BY Decide DEF DeleteStat
  <2>2. DeleteClear(p) => Finish(p) \/ Goto(p, "delete.lookup")
    BY Decide DEF DeleteClear
  <2>3. BlobStat(p) => Finish(p) \/ Goto(p, "blob.clear")
    BY Decide DEF BlobStat
  <2>4. QED
    BY <1>4, <2>1, <2>2, <2>3
       DEF DeleteStep, LookupList, LookupRead, LookupDone, DeleteUntag, DeleteDone, BlobClear
<1>5. QED
  BY <1>1, <1>2, <1>3, <1>4, ZenonT(30) DEF RequestStep

\* No request deletes by digest.
NoDeletion == \A q \in Proc : pc[q] \notin DeleteSteps

\* Deletion is disabled: no request gets to delete.
LEMMA DisabledDeletes ==
  ASSUME TypeOK, NoDeletion, ~DeleteEnabled, Next
  PROVE  NoDeletion'
<1> USE DEF TypeOK, NoDeletion, DeleteSteps, Goto, Finish, Start
<1>1. PICK p \in Proc : NewRequest(p) \/ RequestStep(p) \/ Crash(p)
  BY DEF Next
<1>2. \A q \in Proc : q # p => pc'[q] = pc[q]
  BY <1>1, OthersWait
<1>3. CASE NewRequest(p) \/ Crash(p)
  BY <1>2, <1>3 DEF NewRequest, StartCommit, StartDeleteBlob, Mount, StartPutManifest,
                    StartDeleteManifest, DeleteTag, Crash, procVars
<1>4. CASE CommitStep(p)
  BY <1>2, <1>4 DEF CommitStep, CommitStat, CommitMove, CommitLink
<1>5. CASE PutStep(p)
  <2>1. \A d \in Digest : VerifyRef(p, d) => Finish(p) \/ UNCHANGED pc
    BY DEF VerifyRef
  <2>2. PutLink(p) => Finish(p) \/ Goto(p, "tag.index")
    BY Decide DEF PutLink
  <2>3. QED
    BY <1>2, <1>5, <2>1, <2>2 DEF PutStep, Verified, PutStat, PutData, TagIndexLink, TagCurrentLink
<1>6. ~DeleteStep(p)
  BY DEF DeleteStep, DeleteStat, DeleteClear, LookupList, LookupRead, LookupDone, DeleteUntag,
         DeleteDone, BlobStat, BlobClear
<1>7. QED
  BY <1>1, <1>3, <1>4, <1>5, <1>6 DEF RequestStep

\* Without deletions links are only ever added.
LEMMA LinksGrow ==
  ASSUME TypeOK, ServedInv, NEW p \in Proc,
         NewRequest(p) \/ RequestStep(p) \/ Crash(p)
  PROVE  \A r \in Repo : layers[r] \subseteq layers'[r] /\ revisions[r] \subseteq revisions'[r]
<1>1. ~DeleteClear(p) /\ ~BlobClear(p)
  BY DEF ServedInv, DeleteSteps, DeleteClear, BlobClear
<1>2. UNCHANGED <<layers, revisions>> \/ CommitLink(p) \/ PutLink(p)
  BY <1>1, LinkSteps
<1>3. CASE CommitLink(p)
  BY <1>3 DEF TypeOK, CommitLink
<1>4. CASE PutLink(p)
  BY <1>4 DEF TypeOK, PutLink
<1>5. QED
  BY <1>2, <1>3, <1>4

\* A reference that is linked stays linked.
LEMMA RefStaysLinked ==
  ASSUME TypeOK, ServedInv, NEW p \in Proc,
         NewRequest(p) \/ RequestStep(p) \/ Crash(p)
  PROVE  \A r \in Repo : \A m, d : RefLinked(r, m, d) => RefLinked(r, m, d)'
  BY LinksGrow DEF RefLinked

\* The part of ServedInv about one request q.
RequestServed(q) ==
    /\ pc[q] \notin DeleteSteps
    /\ pc[q] = "put.verify" => \A d \in Required(req[q].dgst) \ deps[q] :
                                   RefLinked(req[q].repo, req[q].dgst, d)
    /\ pc[q] \in PutSteps \ {"put.verify"} => \A d \in Required(req[q].dgst) :
                                   RefLinked(req[q].repo, req[q].dgst, d)

LEMMA RequestsServed ==
  ASSUME TypeOK, RequestOK, ServedInv, NoDeletion', NEW p \in Proc,
         NewRequest(p) \/ RequestStep(p) \/ Crash(p), NEW q \in Proc
  PROVE  RequestServed(q)'
<1> USE DEF TypeOK, RequestOK, Request, RequestServed, PutSteps, DeleteSteps, Goto, Finish
<1>a. RequestServed(q)
  BY ZenonT(30) DEF ServedInv
<1>b. \A r \in Repo : \A m, d : RefLinked(r, m, d) => RefLinked(r, m, d)'
  BY RefStaysLinked
<1>1. CASE UNCHANGED <<pc, req, deps>> \/ pc'[q] = "idle"
  BY <1>1, <1>a, <1>b, ZenonT(30)
<1>2. CASE q # p
  BY <1>2, <1>a, <1>b, OthersWait, ZenonT(30)
<1>3. CASE q = p /\ NewRequest(p)
  <2>1. ASSUME NEW s \in {"commit.stat", "mount.link"}, pc' = [pc EXCEPT ![p] = s]
        PROVE  RequestServed(q)'
    BY <1>3, <2>1, ZenonT(30)
  <2>2. ASSUME NEW r \in Repo, NEW m \in Manifest, NEW t, StartPutManifest(p, r, m, t)
        PROVE  RequestServed(q)'
    <3>1. pc'[p] = "put.verify" /\ Required(req'[p].dgst) \ deps'[p] = {}
      BY <2>2 DEF StartPutManifest, Start
    <3>2. QED
      BY <1>3, <3>1, ZenonT(30)
  <2>3. ASSUME NEW r \in Repo, NEW t \in Tag, DeleteTag(p, r, t) PROVE RequestServed(q)'
    BY <1>1, <2>3 DEF DeleteTag, procVars
  <2>4. QED
    BY <1>3, <2>1, <2>2, <2>3, ZenonT(30)
       DEF NewRequest, StartCommit, StartDeleteBlob, Mount, StartDeleteManifest, Start, NoDeletion
<1>4. CASE q = p /\ (RequestStep(p) \/ Crash(p))
  <2>1. ASSUME NEW d \in Digest, VerifyRef(p, d), ~Finish(p)
        PROVE  RequestServed(p)'
    <3>1. /\ RefLinked(req[p].repo, req[p].dgst, d)
          /\ deps' = [deps EXCEPT ![p] = @ \ {d}]
          /\ UNCHANGED <<pc, req>>
      BY <2>1 DEF VerifyRef, RefExists, ManifestExists, LayerExists, RefLinked
    <3>2. QED
      BY <1>4, <1>a, <1>b, <2>1, <3>1 DEF VerifyRef
  <2>2. CASE Finish(p)
    BY <1>1, <1>4, <2>2
  <2>3. CASE Verified(p)
    BY <1>4, <1>a, <1>b, <2>3 DEF Verified
  <2>4. CASE PutStat(p)
    BY <1>4, <1>a, <1>b, <2>4 DEF PutStat
  <2>5. CASE PutData(p)
    BY <1>4, <1>a, <1>b, <2>5 DEF PutData
  <2>6. CASE PutLink(p) /\ Goto(p, "tag.index")
    BY <1>4, <1>a, <1>b, <2>6 DEF PutLink
  <2>7. CASE TagIndexLink(p)
    BY <1>4, <1>a, <1>b, <2>7 DEF TagIndexLink
  <2>8. CASE CommitStat(p) \/ CommitMove(p)
    BY <1>4, <2>8 DEF CommitStat, CommitMove
  <2>9. ~DeleteStep(p)
    BY <1>4, <1>a
       DEF DeleteStep, DeleteStat, DeleteClear, LookupList, LookupRead, LookupDone, DeleteUntag,
           DeleteDone, BlobStat, BlobClear
  <2>10. PutLink(p) => Finish(p) \/ Goto(p, "tag.index")
    BY Decide DEF PutLink
  <2>11. CommitLink(p) \/ TagCurrentLink(p) \/ Crash(p) => Finish(p)
    BY DEF CommitLink, TagCurrentLink, Crash
  <2>12. QED
    BY <1>4, <2>1, <2>2, <2>3, <2>4, <2>5, <2>6, <2>7, <2>8, <2>9, <2>10, <2>11, ZenonT(30)
       DEF RequestStep, CommitStep, PutStep
<1>5. QED
  BY <1>2, <1>3, <1>4, ZenonT(30)

LEMMA ServedStep ==
  ASSUME TypeOK, RequestOK, ServedInv, Next, NoDeletion'
  PROVE  ServedInv'
<1>1. PICK p \in Proc : NewRequest(p) \/ RequestStep(p) \/ Crash(p)
  BY DEF Next
<1>2. ASSUME NEW r \in Repo, NEW m \in revisions'[r], NEW d \in Required(m)
      PROVE  RefLinked(r, m, d)'
  <2>1. CASE m \in revisions[r]
    BY <1>1, <1>2, <2>1, RefStaysLinked DEF ServedInv, ServedByRepo
  <2>2. CASE m \notin revisions[r]
    <3>1. PutLink(p)
      <4>1. revisions'[r] # revisions[r]
        BY <1>2, <2>2
      <4>2. ~UNCHANGED revisions /\ ~CommitLink(p) /\ ~BlobClear(p)
        BY <4>1 DEF CommitLink, BlobClear
      <4>3. ~DeleteClear(p)
        BY DEF ServedInv, DeleteSteps, DeleteClear
      <4>4. QED
        BY <1>1, <4>2, <4>3, LinkSteps
    <3>a. req[p].repo = r /\ req[p].dgst = m
      BY <1>2, <2>2, <3>1 DEF TypeOK, PutLink
    <3>2. RefLinked(r, m, d)
      BY <1>2, <3>1, <3>a DEF PutLink, ServedInv, PutSteps
    <3>3. QED
      BY <1>1, <3>2, RefStaysLinked, ZenonT(30)
  <2>3. QED
    BY <2>1, <2>2
<1>3. \A q \in Proc : RequestServed(q)'
  BY <1>1, RequestsServed
<1>4. QED
  BY <1>2, <1>3, ZenonT(30) DEF ServedInv, ServedByRepo, RequestServed

(***************************************************************************)
(* With deletion disabled, every manifest a repository serves has all that *)
(* verifyManifest checked linked in the same repository.                   *)
(***************************************************************************)
THEOREM ServedWithoutDelete ==
  ASSUME ~DeleteEnabled
  PROVE  Spec => []ServedByRepo
<1>1. Init => ServedInv
  BY DEF Init, ServedInv, ServedByRepo, DeleteSteps, PutSteps
<1>2. StoreInv /\ ServedInv /\ [Next]_vars => ServedInv'
  <2>1. ASSUME ServedInv, UNCHANGED vars PROVE ServedInv'
    BY <2>1 DEF ServedInv, ServedByRepo, RefLinked, vars, storeVars, procVars
  <2>2. QED
    BY <2>1, ServedStep, DisabledDeletes, ZenonT(30) DEF StoreInv, ServedInv, NoDeletion
<1>3. ServedInv => ServedByRepo
  BY DEF ServedInv
<1>4. QED
  BY <1>1, <1>2, <1>3, StoreInvInit, StoreInvNext, PTL DEF Spec
=============================================================================
