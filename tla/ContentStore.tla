---------------------------- MODULE ContentStore ----------------------------
(***************************************************************************)
(* The registry's content store and the HTTP handlers that change it.      *)
(*                                                                         *)
(* The state is the storage layout of registry/storage/paths.go: blob data *)
(* shared by all repositories and, per repository, layer links, manifest   *)
(* revision links and, per tag, a "current" link and an index of every     *)
(* revision the tag ever had.  Nothing locks it.  A request is a process   *)
(* that makes one storage driver call per step (blobStore and the statters *)
(* are stateless) and that may stop after any of them, as when the server  *)
(* dies.  Reads that precede a write are steps of their own, so that what  *)
(* they saw may be out of date when the write happens.                     *)
(***************************************************************************)
EXTENDS ImageGraph

CONSTANTS Proc,           \* concurrent requests
          DeleteEnabled,  \* the storage.delete.enabled configuration option
          MayCrash,       \* whether a request may stop half way
          NoTag           \* the manifest is put by digest only

ASSUME StoreAssumption ==
    DeleteEnabled \in BOOLEAN /\ MayCrash \in BOOLEAN /\ NoTag \notin Tag

VARIABLES blobs,          \* digests d with blobs/.../d/data present
          layers,         \* [Repo -> SUBSET Digest]: _layers/d/link
          revisions,      \* [Repo -> SUBSET Manifest]: _manifests/revisions/d/link
          tagIndex,       \* [Repo -> [Tag -> SUBSET Manifest]]: tags/t/index/d/link
          tagCurrent,     \* [Repo -> [Tag -> ...]]: tags/t/current/link
          pc,             \* the next driver call of each request
          req,            \* what each request asks for
          deps,           \* references verifyManifest has still to look up
          lookupTags,     \* tags Lookup has still to read
          referencedTags  \* tags Lookup found to refer to the digest

storeVars == <<blobs, layers, revisions, tagIndex, tagCurrent>>
procVars == <<pc, req, deps, lookupTags, referencedTags>>
vars == <<storeVars, procVars>>

Request == [repo : Repo, dgst : Digest, tag : Tag \cup {NoTag}]
NoRequest == [repo |-> NoDigest, dgst |-> NoDigest, tag |-> NoTag]

PutSteps == {"put.verify", "put.stat", "put.data", "put.link", "tag.index", "tag.current"}
CommitSteps == {"commit.stat", "commit.move", "commit.link", "mount.link"}
DeleteSteps == {"delete.stat", "delete.clear", "delete.lookup", "delete.read", "delete.untag",
                "blob.stat", "blob.clear"}
Steps == {"idle"} \cup PutSteps \cup CommitSteps \cup DeleteSteps

\* The files of the storage layout and the local variables of the handlers have their types.
TypeOK ==
    /\ blobs \subseteq Digest
    /\ layers \in [Repo -> SUBSET Digest]
    /\ revisions \in [Repo -> SUBSET Manifest]
    /\ tagIndex \in [Repo -> [Tag -> SUBSET Manifest]]
    /\ tagCurrent \in [Repo -> [Tag -> Manifest \cup {NoDigest}]]
    /\ pc \in [Proc -> Steps]
    /\ req \in [Proc -> Request \cup {NoRequest}]
    /\ deps \in [Proc -> SUBSET Digest]
    /\ lookupTags \in [Proc -> SUBSET Tag]
    /\ referencedTags \in [Proc -> SUBSET Tag]

Init ==
    /\ blobs = {}
    /\ layers = [r \in Repo |-> {}]
    /\ revisions = [r \in Repo |-> {}]
    /\ tagIndex = [r \in Repo |-> [t \in Tag |-> {}]]
    /\ tagCurrent = [r \in Repo |-> [t \in Tag |-> NoDigest]]
    /\ pc = [p \in Proc |-> "idle"]
    /\ req = [p \in Proc |-> NoRequest]
    /\ deps = [p \in Proc |-> {}]
    /\ lookupTags = [p \in Proc |-> {}]
    /\ referencedTags = [p \in Proc |-> {}]
-----------------------------------------------------------------------------
Start(p, s, r, d, t) ==
    /\ pc[p] = "idle"
    /\ pc' = [pc EXCEPT ![p] = s]
    /\ req' = [req EXCEPT ![p] = [repo |-> r, dgst |-> d, tag |-> t]]
    /\ UNCHANGED <<lookupTags, referencedTags>>

\* Go on to the next driver call.
Goto(p, s) ==
    /\ pc' = [pc EXCEPT ![p] = s]
    /\ UNCHANGED <<req, deps, lookupTags, referencedTags>>

\* Answer the client, with success or an error, and forget the request.
Finish(p) ==
    /\ pc' = [pc EXCEPT ![p] = "idle"]
    /\ req' = [req EXCEPT ![p] = NoRequest]
    /\ deps' = [deps EXCEPT ![p] = {}]
    /\ lookupTags' = [lookupTags EXCEPT ![p] = {}]
    /\ referencedTags' = [referencedTags EXCEPT ![p] = {}]

GotoOrFinish(p, goOn, s) == IF goOn THEN Goto(p, s) ELSE Finish(p)

\* blobStatter.Stat: the data file exists.
BlobExists(d) == d \in blobs

\* linkedBlobStatter.Stat through the layer links and through the revision links.
LayerExists(r, d) == d \in layers[r] /\ BlobExists(d)
ManifestExists(r, d) == d \in revisions[r] /\ BlobExists(d)

\* The tags/ entries of a repository: tagStore.All.
TagDirs(r) == {t \in Tag : tagIndex[r][t] # {} \/ tagCurrent[r][t] # NoDigest}
-----------------------------------------------------------------------------
(***************************************************************************)
(* blobWriter.Commit once the upload is validated (BlobUpload models the   *)
(* steps before): look for the data, move the upload there unless it is    *)
(* present already, link it into the repository.                           *)
(***************************************************************************)
StartCommit(p, r, d) ==
    /\ Start(p, "commit.stat", r, d, NoTag)
    /\ UNCHANGED <<storeVars, deps>>

CommitStat(p) ==
    /\ pc[p] = "commit.stat"
    /\ Goto(p, IF BlobExists(req[p].dgst) THEN "commit.link" ELSE "commit.move")
    /\ UNCHANGED storeVars

CommitMove(p) ==
    /\ pc[p] = "commit.move"
    /\ blobs' = blobs \cup {req[p].dgst}
    /\ Goto(p, "commit.link")
    /\ UNCHANGED <<layers, revisions, tagIndex, tagCurrent>>

CommitLink(p) ==
    /\ pc[p] \in {"commit.link", "mount.link"}
    /\ layers' = [layers EXCEPT ![req[p].repo] = @ \cup {req[p].dgst}]
    /\ Finish(p)
    /\ UNCHANGED <<blobs, revisions, tagIndex, tagCurrent>>

\* Create with a mount option: the blob is looked up in another repository and,
\* if it is there, linked here without an upload.
Mount(p, from, r, d) ==
    /\ LayerExists(from, d)
    /\ Start(p, "mount.link", r, d, NoTag)
    /\ UNCHANGED <<storeVars, deps>>
-----------------------------------------------------------------------------
(***************************************************************************)
(* PutManifest: verifyManifest looks up every reference, in the layer      *)
(* links for an image and in the revision links for an index; then         *)
(* linkedBlobStore.Put stores the payload unless it is there and links it; *)
(* then tagStore.Tag links it into the tag's index and overwrites the      *)
(* current link.  A reference that is missing fails the request.           *)
(***************************************************************************)
StartPutManifest(p, r, m, t) ==
    /\ Start(p, "put.verify", r, m, t)
    /\ deps' = [deps EXCEPT ![p] = Required(m)]
    /\ UNCHANGED storeVars

RefExists(r, m, d) == IF m \in Index THEN ManifestExists(r, d) ELSE LayerExists(r, d)

\* Mutant: a missing reference is not an error.
VerifyRef_Lenient(p, d) ==
    /\ pc[p] = "put.verify"
    /\ d \in deps[p]
    /\ deps' = [deps EXCEPT ![p] = @ \ {d}]
    /\ UNCHANGED <<storeVars, pc, req, lookupTags, referencedTags>>

VerifyRef(p, d) ==
    /\ pc[p] = "put.verify"
    /\ d \in deps[p]
    /\ IF RefExists(req[p].repo, req[p].dgst, d)
       THEN /\ deps' = [deps EXCEPT ![p] = @ \ {d}]
            /\ UNCHANGED <<pc, req, lookupTags, referencedTags>>
       ELSE Finish(p)
    /\ UNCHANGED storeVars

\* Mutant: not every reference is looked up.
Verified_Early(p) ==
    /\ pc[p] = "put.verify"
    /\ Goto(p, "put.stat")
    /\ UNCHANGED storeVars

Verified(p) ==
    /\ pc[p] = "put.verify"
    /\ deps[p] = {}
    /\ Goto(p, "put.stat")
    /\ UNCHANGED storeVars

PutStat(p) ==
    /\ pc[p] = "put.stat"
    /\ Goto(p, IF BlobExists(req[p].dgst) THEN "put.link" ELSE "put.data")
    /\ UNCHANGED storeVars

PutData(p) ==
    /\ pc[p] = "put.data"
    /\ blobs' = blobs \cup {req[p].dgst}
    /\ Goto(p, "put.link")
    /\ UNCHANGED <<layers, revisions, tagIndex, tagCurrent>>

PutLink(p) ==
    /\ pc[p] = "put.link"
    /\ revisions' = [revisions EXCEPT ![req[p].repo] = @ \cup {req[p].dgst}]
    /\ GotoOrFinish(p, req[p].tag # NoTag, "tag.index")
    /\ UNCHANGED <<blobs, layers, tagIndex, tagCurrent>>

TagIndexLink(p) ==
    /\ pc[p] = "tag.index"
    /\ tagIndex' = [tagIndex EXCEPT ![req[p].repo][req[p].tag] = @ \cup {req[p].dgst}]
    /\ Goto(p, "tag.current")
    /\ UNCHANGED <<blobs, layers, revisions, tagCurrent>>

TagCurrentLink(p) ==
    /\ pc[p] = "tag.current"
    /\ tagCurrent' = [tagCurrent EXCEPT ![req[p].repo][req[p].tag] = req[p].dgst]
    /\ Finish(p)
    /\ UNCHANGED <<blobs, layers, revisions, tagIndex>>
-----------------------------------------------------------------------------
(***************************************************************************)
(* DeleteManifest with a digest: linkedBlobStore.Delete looks the revision *)
(* up and deletes its link, failing if somebody deleted it in between;     *)
(* then Lookup lists the tags, reads every current link and keeps those    *)
(* that refer to the digest; then each of these is untagged.               *)
(***************************************************************************)
StartDeleteManifest(p, r, m) ==
    /\ DeleteEnabled
    /\ Start(p, "delete.stat", r, m, NoTag)
    /\ UNCHANGED <<storeVars, deps>>

DeleteStat(p) ==
    /\ pc[p] = "delete.stat"
    /\ GotoOrFinish(p, ManifestExists(req[p].repo, req[p].dgst), "delete.clear")
    /\ UNCHANGED storeVars

DeleteClear(p) ==
    /\ pc[p] = "delete.clear"
    /\ revisions' = [revisions EXCEPT ![req[p].repo] = @ \ {req[p].dgst}]
    /\ GotoOrFinish(p, req[p].dgst \in revisions[req[p].repo], "delete.lookup")
    /\ UNCHANGED <<blobs, layers, tagIndex, tagCurrent>>

LookupList(p) ==
    /\ pc[p] = "delete.lookup"
    /\ lookupTags' = [lookupTags EXCEPT ![p] = TagDirs(req[p].repo)]
    /\ pc' = [pc EXCEPT ![p] = "delete.read"]
    /\ UNCHANGED <<storeVars, req, deps, referencedTags>>

LookupRead(p, t) ==
    /\ pc[p] = "delete.read"
    /\ t \in lookupTags[p]
    /\ lookupTags' = [lookupTags EXCEPT ![p] = @ \ {t}]
    /\ referencedTags' = [referencedTags EXCEPT ![p] =
            IF tagCurrent[req[p].repo][t] = req[p].dgst THEN @ \cup {t} ELSE @]
    /\ UNCHANGED <<storeVars, pc, req, deps>>

\* Mutant: tags are left alone.
LookupDone_NoUntag(p) ==
    /\ pc[p] = "delete.read"
    /\ lookupTags[p] = {}
    /\ Finish(p)
    /\ UNCHANGED storeVars

LookupDone(p) ==
    /\ pc[p] = "delete.read"
    /\ lookupTags[p] = {}
    /\ Goto(p, "delete.untag")
    /\ UNCHANGED storeVars

\* tagStore.Untag: the whole directory of the tag goes; none there is an error that
\* is reported and changes nothing.
Untag(r, t) ==
    /\ tagIndex' = [tagIndex EXCEPT ![r][t] = {}]
    /\ tagCurrent' = [tagCurrent EXCEPT ![r][t] = NoDigest]

DeleteUntag(p, t) ==
    /\ pc[p] = "delete.untag"
    /\ t \in referencedTags[p]
    /\ Untag(req[p].repo, t)
    /\ referencedTags' = [referencedTags EXCEPT ![p] = @ \ {t}]
    /\ UNCHANGED <<blobs, layers, revisions, pc, req, deps, lookupTags>>

DeleteDone(p) ==
    /\ pc[p] = "delete.untag"
    /\ referencedTags[p] = {}
    /\ Finish(p)
    /\ UNCHANGED storeVars

\* DeleteManifest with a tag: one driver call, not subject to DeleteEnabled.
DeleteTag(p, r, t) ==
    /\ pc[p] = "idle"
    /\ t \in TagDirs(r)
    /\ Untag(r, t)
    /\ UNCHANGED <<blobs, layers, revisions, procVars>>
-----------------------------------------------------------------------------
\* DeleteBlob: the layer link is looked up, then deleted.
StartDeleteBlob(p, r, d) ==
    /\ DeleteEnabled
    /\ Start(p, "blob.stat", r, d, NoTag)
    /\ UNCHANGED <<storeVars, deps>>

BlobStat(p) ==
    /\ pc[p] = "blob.stat"
    /\ GotoOrFinish(p, LayerExists(req[p].repo, req[p].dgst), "blob.clear")
    /\ UNCHANGED storeVars

BlobClear(p) ==
    /\ pc[p] = "blob.clear"
    /\ layers' = [layers EXCEPT ![req[p].repo] = @ \ {req[p].dgst}]
    /\ Finish(p)
    /\ UNCHANGED <<blobs, revisions, tagIndex, tagCurrent>>

\* The server dies, or gives the request up, between two driver calls.
Crash(p) ==
    /\ MayCrash
    /\ pc[p] # "idle"
    /\ Finish(p)
    /\ UNCHANGED storeVars
-----------------------------------------------------------------------------
NewRequest(p) ==
    \E r \in Repo :
        \/ \E d \in Digest : StartCommit(p, r, d) \/ StartDeleteBlob(p, r, d)
        \/ \E from \in Repo, d \in Digest : Mount(p, from, r, d)
        \/ \E m \in Manifest, t \in Tag \cup {NoTag} : StartPutManifest(p, r, m, t)
        \/ \E m \in Manifest : StartDeleteManifest(p, r, m)
        \/ \E t \in Tag : DeleteTag(p, r, t)

CommitStep(p) == CommitStat(p) \/ CommitMove(p) \/ CommitLink(p)

PutStep(p) ==
    \/ \E d \in Digest : VerifyRef(p, d)
    \/ Verified(p) \/ PutStat(p) \/ PutData(p) \/ PutLink(p)
    \/ TagIndexLink(p) \/ TagCurrentLink(p)

DeleteStep(p) ==
    \/ DeleteStat(p) \/ DeleteClear(p) \/ LookupList(p)
    \/ \E t \in Tag : LookupRead(p, t) \/ DeleteUntag(p, t)
    \/ LookupDone(p) \/ DeleteDone(p)
    \/ BlobStat(p) \/ BlobClear(p)

RequestStep(p) == CommitStep(p) \/ PutStep(p) \/ DeleteStep(p)

Next == \E p \in Proc : NewRequest(p) \/ RequestStep(p) \/ Crash(p)

Spec == Init /\ [][Next]_vars
-----------------------------------------------------------------------------
(***************************************************************************)
(* A link never points at data that is not there: layers, revisions and    *)
(* tags are linked only once the blob data is in place (blobstore.go link: *)
(* "Caller must ensure that the blob actually exists").                    *)
(***************************************************************************)
LinkedDataPresent ==
    \A r \in Repo :
        /\ layers[r] \cup revisions[r] \subseteq blobs
        /\ \A t \in Tag : tagIndex[r][t] \cup ({tagCurrent[r][t]} \ {NoDigest}) \subseteq blobs

(***************************************************************************)
(* Whatever can be pulled by digest or by tag is complete: the data of the *)
(* manifest and of all verifyManifest checked is stored, although the      *)
(* checks, the payload, the revision link and the tag are separate writes  *)
(* that other requests and crashes come between.                           *)
(***************************************************************************)
ManifestComplete ==
    \A r \in Repo :
        /\ \A m \in revisions[r] : Needs(m) \subseteq blobs
        /\ \A t \in Tag : tagCurrent[r][t] # NoDigest => Needs(tagCurrent[r][t]) \subseteq blobs

(***************************************************************************)
(* What each request in progress relies on.  The checks of verifyManifest  *)
(* stay valid because nothing removes blob data while requests run; this   *)
(* is what makes the two invariants above inductive.                       *)
(***************************************************************************)
RequestOK ==
    \A p \in Proc :
        /\ pc[p] # "idle" => req[p] \in Request
        /\ pc[p] \in PutSteps \cup {"delete.stat", "delete.clear"} => req[p].dgst \in Manifest
        /\ pc[p] \in {"tag.index", "tag.current"} => req[p].tag \in Tag

InFlightOK ==
    \A p \in Proc :
        /\ pc[p] \in {"commit.link", "mount.link", "put.link", "tag.index", "tag.current"}
              => req[p].dgst \in blobs
        /\ pc[p] = "put.verify" => Required(req[p].dgst) \ deps[p] \subseteq blobs
        /\ pc[p] \in PutSteps \ {"put.verify"} => Required(req[p].dgst) \subseteq blobs

StoreInv == TypeOK /\ RequestOK /\ InFlightOK /\ LinkedDataPresent /\ ManifestComplete

RefLinked(r, m, d) == d \in IF m \in Index THEN revisions[r] ELSE layers[r]

(***************************************************************************)
(* With deletion disabled a repository serves all it needs itself: every   *)
(* reference verifyManifest checked is linked in the same repository, so a *)
(* client that got the manifest is never refused one of its layers.        *)
(***************************************************************************)
ServedByRepo ==
    \A r \in Repo : \A m \in revisions[r] : \A d \in Required(m) : RefLinked(r, m, d)

\* What makes it inductive: no deletion runs, and what was verified stays linked.
ServedInv ==
    /\ ServedByRepo
    /\ \A p \in Proc :
        /\ pc[p] \notin DeleteSteps
        /\ pc[p] = "put.verify" => \A d \in Required(req[p].dgst) \ deps[p] :
                                       RefLinked(req[p].repo, req[p].dgst, d)
        /\ pc[p] \in PutSteps \ {"put.verify"} => \A d \in Required(req[p].dgst) :
                                       RefLinked(req[p].repo, req[p].dgst, d)

\* No request is being served.
Quiescent == \A p \in Proc : pc[p] = "idle"

(***************************************************************************)
(* tagstore.go Lookup: "When a manifest is deleted by digest, tag entries  *)
(* which point to it need to be recovered to avoid dangling tags", and     *)
(* paths.go of the index of a tag: "maintained to support deletions of all *)
(* revisions of a given manifest tag".  When nothing is in progress, every *)
(* tag points at a revision of the repository that the tag's index lists.  *)
(***************************************************************************)
NoDanglingTag ==
    Quiescent => \A r \in Repo, t \in Tag :
        tagCurrent[r][t] # NoDigest => tagCurrent[r][t] \in revisions[r] \cap tagIndex[r][t]

ImageStoreSpec == INSTANCE ImageStore WITH
    stored <- blobs, layerLinks <- layers, published <- revisions, tagged <- tagCurrent

(***************************************************************************)
(* The store implements the promise of ImageStore: every driver call is an *)
(* atomic abstract step or changes nothing a client can see.               *)
(***************************************************************************)
ImplementsImageStore == ImageStoreSpec!Spec
=============================================================================
