---------------------------- MODULE Front_proofs ----------------------------
(***************************************************************************)
(* Proofs about the front of the application, for any number of workers,   *)
(* any requests, tags, manifests and configurations.                       *)
(***************************************************************************)
EXTENDS Front, TLAPS

PutSteps == {"putBody", "put", "tag"}
DeleteSteps == {"untag", "delete", "lookup", "untagAll", "deleteBlob"}

\* A request at a step from which the repository changes was let through for that change.
StepFits(r, at) ==
    /\ at \in PutSteps \cup DeleteSteps => ~app.readOnly
    /\ at \in PutSteps => /\ r.method = "PUT" /\ r.m # Nothing
                          /\ app.accessController => {"pull", "push"} \subseteq r.grant
    /\ at \in DeleteSteps => /\ r.method = "DELETE"
                             /\ app.accessController => "delete" \in r.grant
    /\ at \in {"tag", "lookup", "untagAll"} => ~app.isCache

JobShape ==
    /\ DOMAIN job = Workers
    /\ \A w \in Workers : DOMAIN job[w] = {"req", "at", "digest", "errs", "status", "did", "todo"}

RepoShape == DOMAIN repo = {"tags", "revs", "blob"} /\ DOMAIN repo.tags = FrontTags

FrontInv ==
    /\ app \in Apps
    /\ JobShape /\ RepoShape
    /\ \A w \in Workers : StepFits(job[w].req, job[w].at)

-----------------------------------------------------------------------------
LEMMA FrontInvInit == FrontInit => FrontInv
BY DEF FrontInit, FrontInv, JobShape, RepoShape, StepFits, PutSteps, DeleteSteps, IdleJob

\* The dispatcher lets a request through only to a step that fits it.
LEMMA DispatchFits ==
  ASSUME app \in Apps, NEW r \in Requests[app], authorized(r), MethodAllowed(r)
  PROVE  StepFits(r, Handler(r))
<1>1. /\ r.route \in {"base", "catalog", "tags", "manifest", "blob"}
      /\ r.method \in {"GET", "PUT", "DELETE"} /\ (r.method = "PUT" => r.m # Nothing)
  BY FrontAssumption
<1>2. CASE Handler(r) \in PutSteps
  <2>1. r.route = "manifest" /\ r.method = "PUT" /\ Handler(r) = "putBody"
    BY <1>1, <1>2 DEF Handler, PutSteps
  <2>2. NeededAccess(r) = {"pull", "push"}
    BY <2>1 DEF NeededAccess
  <2>3. QED
    BY <1>1, <2>1, <2>2 DEF StepFits, PutSteps, DeleteSteps, authorized, MethodAllowed
<1>3. CASE Handler(r) \in DeleteSteps
  <2>1. r.route \in {"manifest", "blob"} /\ r.method = "DELETE" /\ Handler(r) \in {"untag", "delete", "deleteBlob"}
    BY <1>1, <1>3 DEF Handler, DeleteSteps
  <2>2. NeededAccess(r) = {"delete"}
    BY <2>1 DEF NeededAccess
  <2>3. QED
    BY <1>1, <2>1, <2>2 DEF StepFits, PutSteps, DeleteSteps, authorized, MethodAllowed
<1>4. CASE Handler(r) \notin PutSteps \cup DeleteSteps
  BY <1>4 DEF StepFits, PutSteps, DeleteSteps
<1>5. QED
  BY <1>2, <1>3, <1>4

\* A worker goes on with its request.
Moves(w, to) ==
    /\ JobShape'
    /\ job'[w].at = to /\ job'[w].req = job[w].req
    /\ \A v \in Workers : v # w => job'[v] = job[v]

LEMMA Ending ==
  ASSUME JobShape, NEW w \in Workers,
         \/ \E errs : FailsWith(w, errs)
         \/ \E status : Answers(w, status)
  PROVE  Moves(w, "done")
BY ZenonT(30) DEF JobShape, Moves, FailsWith, Answers

LEMMA Going ==
  ASSUME JobShape, NEW w \in Workers, NEW to, Goes(w, to)
  PROVE  Moves(w, to)
BY DEF JobShape, Moves, Goes

LEMMA MoveKeeps ==
  ASSUME FrontInv, NEW w \in Workers, NEW to, Moves(w, to), StepFits(job[w].req, to),
         app' = app, RepoShape'
  PROVE  FrontInv'
BY DEF FrontInv, Moves, StepFits

\* Steps that fit every request.
LEMMA HarmlessFits ==
  ASSUME NEW r, NEW to, to \notin PutSteps \cup DeleteSteps
  PROVE  StepFits(r, to)
BY DEF StepFits, PutSteps, DeleteSteps

LEMMA Kept == ASSUME RepoShape, repo' = repo PROVE RepoShape'
BY DEF RepoShape

-----------------------------------------------------------------------------
LEMMA Dispatching ==
  ASSUME FrontInv, NEW w \in Workers, NEW r \in Requests[app], dispatcher(w, r) \/ dispatcherFails(w, r)
  PROVE  FrontInv' /\ repo' = repo
<1>1. ASSUME NEW at, NEW errs, NEW status, Arrived(w, r, at, errs, status), StepFits(r, at)
      PROVE  FrontInv' /\ repo' = repo
  <2>1. job' = [job EXCEPT ![w] = [IdleJob EXCEPT !.req = r, !.at = at, !.errs = errs, !.status = status]]
        /\ app' = app /\ repo' = repo
    BY <1>1 DEF Arrived
  <2>2. JobShape' /\ job'[w].req = r /\ job'[w].at = at /\ \A v \in Workers : v # w => job'[v] = job[v]
    BY <2>1 DEF FrontInv, JobShape, IdleJob
  <2>3. QED
    BY <1>1, <2>1, <2>2, Kept DEF FrontInv, StepFits
<1>2. StepFits(r, "done")
  BY HarmlessFits DEF PutSteps, DeleteSteps
<1>3. CASE dispatcher(w, r)
  BY <1>1, <1>2, <1>3, DispatchFits DEF dispatcher, FrontInv
<1>4. CASE dispatcherFails(w, r)
  BY <1>1, <1>2, <1>4 DEF dispatcherFails
<1>5. QED
  BY <1>3, <1>4

\* The handlers that read.
LEMMA Reading ==
  ASSUME FrontInv, NEW w \in Workers,
         \/ ResolveTag(w) \/ ResolveDigest(w) \/ GetManifest(w) \/ GetDefault(w)
         \/ GetBlob(w) \/ ServeBlob(w) \/ GetTags(w) \/ GetCatalog(w) \/ apiBase(w)
  PROVE  FrontInv' /\ repo' = repo
<1> USE DEF FrontInv
<1>1. app' = app /\ repo' = repo
  BY ZenonT(30) DEF ResolveTag, ResolveDigest, GetManifest, GetDefault, GetBlob, ServeBlob, GetTags, GetCatalog, apiBase, Keeps
<1>2. \E to \in {"done", "get", "getDefault", "serveBlob"} : Moves(w, to)
  <2>1. CASE ResolveTag(w) \/ ResolveDigest(w)
    BY <2>1, Ending DEF ResolveTag, ResolveDigest, JobShape, Moves
  <2>2. CASE GetManifest(w)
    BY <2>2, Ending, Going DEF GetManifest, Negotiate
  <2>3. CASE GetDefault(w)
    BY <2>3, Ending DEF GetDefault, JobShape, Moves
  <2>4. CASE GetBlob(w) \/ ServeBlob(w)
    BY <2>4, Ending, Going DEF GetBlob, ServeBlob
  <2>5. CASE GetTags(w) \/ GetCatalog(w) \/ apiBase(w)
    BY <2>5, Ending DEF GetTags, GetCatalog, apiBase
  <2>6. QED
    BY <2>1, <2>2, <2>3, <2>4, <2>5
<1>3. QED
  BY <1>1, <1>2, Kept, MoveKeeps, HarmlessFits, ZenonT(30) DEF PutSteps, DeleteSteps

\* The steps of PUT and DELETE that leave the repository alone, and the failures.
LEMMA Preparing ==
  ASSUME FrontInv, NEW w \in Workers,
         \/ ReadManifest(w) \/ ClientGone(w) \/ LookupTags(w) \/ DeleteEnds(w) \/ CallFails(w)
         \/ \E t \in FrontTags : UntagOneFails(w, t)
  PROVE  FrontInv' /\ repo' = repo
<1> USE DEF FrontInv
<1>1. app' = app /\ repo' = repo
  BY ZenonT(30) DEF ReadManifest, ClientGone, LookupTags, DeleteEnds, CallFails, UntagOneFails, Faulty, Keeps
<1>2. StepFits(job[w].req, "done")
  BY HarmlessFits DEF PutSteps, DeleteSteps
<1>3. CASE ReadManifest(w)
  <2>1. StepFits(job[w].req, "put")
    BY <1>3, ZenonT(30) DEF ReadManifest, At, StepFits, PutSteps, DeleteSteps
  <2>2. QED
    BY <1>1, <1>2, <1>3, <2>1, Ending, Going, Kept, MoveKeeps, ZenonT(30) DEF ReadManifest
<1>4. CASE ClientGone(w) \/ DeleteEnds(w) \/ CallFails(w)
  <2>1. Moves(w, "done")
    BY <1>4, Ending DEF ClientGone, DeleteEnds, CallFails, Faulty, JobShape, Moves
  <2>2. QED
    BY <1>1, <1>2, <2>1, Kept, MoveKeeps, ZenonT(30)
<1>5. CASE LookupTags(w) \/ \E t \in FrontTags : UntagOneFails(w, t)
  <2>1. StepFits(job[w].req, "untagAll")
    BY <1>5, ZenonT(30) DEF LookupTags, UntagOneFails, At, StepFits, PutSteps, DeleteSteps
  <2>2. Moves(w, "untagAll")
    <3>1. CASE LookupTags(w)
      BY <3>1 DEF LookupTags, JobShape, Moves
    <3>2. ASSUME NEW t \in FrontTags, UntagOneFails(w, t)
          PROVE  Moves(w, "untagAll")
      BY <3>2, ZenonT(30) DEF UntagOneFails, At, JobShape, Moves
    <3>3. QED
      BY <1>5, <3>1, <3>2
  <2>3. QED
    BY <1>1, <2>1, <2>2, Kept, MoveKeeps
<1>6. QED
  BY <1>3, <1>4, <1>5, ZenonT(30)

-----------------------------------------------------------------------------
\* What a PUT, or a DELETE, of a request that was let through may do to the repository.
ByPut(w) ==
    /\ Req(w).method = "PUT" /\ repo.revs \subseteq repo'.revs /\ repo'.blob = repo.blob
    /\ \A t \in FrontTags : repo'.tags[t] = Nothing => repo.tags[t] = Nothing
    /\ app.accessController => {"pull", "push"} \subseteq Req(w).grant
ByDelete(w) ==
    /\ Req(w).method = "DELETE" /\ repo'.revs \subseteq repo.revs
    /\ \A t \in FrontTags : repo'.tags[t] \in {repo.tags[t], Nothing}
    /\ app.accessController => "delete" \in Req(w).grant
Allowed(w) == job'[w] # job[w] /\ ~app.readOnly /\ ~app.isCache /\ (ByPut(w) \/ ByDelete(w))

LEMMA Storing ==
  ASSUME FrontInv, NEW w \in Workers, StoreManifest(w) \/ TagManifest(w)
  PROVE  FrontInv' /\ (repo' # repo => Allowed(w))
<1> USE DEF FrontInv
<1>1. app' = app /\ StepFits(job[w].req, "done")
  BY HarmlessFits DEF StoreManifest, TagManifest, PutSteps, DeleteSteps
<1>2. CASE \E errs : FailsWith(w, errs) /\ repo' = repo
  BY <1>1, <1>2, Ending, Kept, MoveKeeps
<1>3. CASE StoreManifest(w) /\ ~\E errs : FailsWith(w, errs) /\ repo' = repo
  <2>1. ~app.isCache /\ repo' = [repo EXCEPT !.revs = @ \cup {Req(w).m}] /\ job[w].at = "put"
    BY <1>3 DEF StoreManifest, At
  <2>2. RepoShape' /\ repo.revs \subseteq repo'.revs /\ repo'.blob = repo.blob /\ repo'.tags = repo.tags
    BY <2>1 DEF RepoShape
  <2>3. \E to \in {"tag", "done"} : Moves(w, to)
    BY <1>3 DEF StoreManifest, JobShape, Moves
  <2>4. StepFits(job[w].req, "tag")
    BY <2>1 DEF StepFits, PutSteps, DeleteSteps
  <2>5. FrontInv'
    BY <1>1, <2>2, <2>3, <2>4, MoveKeeps
  <2>6. Allowed(w)
    BY <2>1, <2>2, <2>3 DEF Allowed, ByPut, Req, StepFits, PutSteps, Moves
  <2>7. QED
    BY <2>5, <2>6
<1>4. CASE TagManifest(w)
  <2>1. repo' = [repo EXCEPT !.tags[Req(w).tag] = Req(w).m] /\ job[w].at = "tag"
    BY <1>4 DEF TagManifest, At
  <2>2. Req(w).m # Nothing
    BY <2>1 DEF StepFits, PutSteps, Req
  <2>3. /\ RepoShape' /\ repo'.revs = repo.revs /\ repo'.blob = repo.blob
        /\ \A t \in FrontTags : repo'.tags[t] \in {repo.tags[t], Req(w).m}
    BY <2>1 DEF RepoShape
  <2>4. Moves(w, "done")
    BY <1>4 DEF TagManifest, JobShape, Moves
  <2>5. FrontInv'
    BY <1>1, <2>3, <2>4, MoveKeeps
  <2>6. Allowed(w)
    BY <2>1, <2>2, <2>3, <2>4 DEF Allowed, ByPut, Req, StepFits, PutSteps, Moves
  <2>7. QED
    BY <2>5, <2>6
<1>5. QED
  BY <1>2, <1>3, <1>4

LEMMA Deleting ==
  ASSUME FrontInv, NEW w \in Workers,
         \/ UntagManifest(w) \/ DeleteManifest(w) \/ DeleteBlob(w)
         \/ \E t \in FrontTags : UntagOne(w, t)
  PROVE  FrontInv' /\ (repo' # repo => Allowed(w))
<1> USE DEF FrontInv
<1>a. app' = app
  BY ZenonT(30) DEF UntagManifest, DeleteManifest, DeleteBlob, UntagOne
<1>1. app' = app /\ StepFits(job[w].req, "done")
  BY <1>a, HarmlessFits DEF PutSteps, DeleteSteps
<1>2. CASE \E errs : FailsWith(w, errs) /\ repo' = repo
  BY <1>1, <1>2, Ending, Kept, MoveKeeps, ZenonT(30)
<1>3. CASE UntagManifest(w) /\ ~\E errs : FailsWith(w, errs) /\ repo' = repo
  <2>1. ~app.isCache /\ repo' = [repo EXCEPT !.tags[Req(w).tag] = Nothing] /\ job[w].at = "untag"
    BY <1>3 DEF UntagManifest, At
  <2>2. /\ RepoShape' /\ repo'.revs = repo.revs
        /\ \A t \in FrontTags : repo'.tags[t] \in {repo.tags[t], Nothing}
    BY <2>1 DEF RepoShape
  <2>3. Moves(w, "done")
    BY <1>3 DEF UntagManifest, JobShape, Moves
  <2>4. Allowed(w)
    BY <2>1, <2>2, <2>3 DEF Allowed, ByDelete, Req, StepFits, DeleteSteps, Moves
  <2>5. QED
    BY <1>1, <2>2, <2>3, <2>4, MoveKeeps, ZenonT(30)
<1>4. CASE DeleteManifest(w) /\ ~\E errs : FailsWith(w, errs) /\ repo' = repo
  <2>1. ~app.isCache /\ repo' = [repo EXCEPT !.revs = @ \ {Req(w).m}] /\ job[w].at = "delete"
    BY <1>4 DEF DeleteManifest, At
  <2>2. RepoShape' /\ repo'.revs \subseteq repo.revs /\ repo'.tags = repo.tags
    BY <2>1 DEF RepoShape
  <2>3. Moves(w, "lookup")
    BY <1>4 DEF DeleteManifest, JobShape, Moves
  <2>4. StepFits(job[w].req, "lookup")
    BY <2>1 DEF StepFits, PutSteps, DeleteSteps
  <2>5. Allowed(w)
    BY <2>1, <2>2, <2>3 DEF Allowed, ByDelete, Req, StepFits, DeleteSteps, Moves
  <2>6. QED
    BY <1>1, <2>2, <2>3, <2>4, <2>5, MoveKeeps, ZenonT(30)
<1>5. CASE DeleteBlob(w) /\ ~\E errs : FailsWith(w, errs) /\ repo' = repo
  <2>1. ~app.isCache /\ repo' = [repo EXCEPT !.blob = FALSE] /\ job[w].at = "deleteBlob"
    BY <1>5 DEF DeleteBlob, At
  <2>2. RepoShape' /\ repo'.revs = repo.revs /\ repo'.tags = repo.tags
    BY <2>1 DEF RepoShape
  <2>3. Moves(w, "done")
    BY <1>5 DEF DeleteBlob, JobShape, Moves
  <2>4. Allowed(w)
    BY <2>1, <2>2, <2>3 DEF Allowed, ByDelete, Req, StepFits, DeleteSteps, Moves
  <2>5. QED
    BY <1>1, <2>2, <2>3, <2>4, MoveKeeps
<1>6. ASSUME NEW t \in FrontTags, UntagOne(w, t)
      PROVE  FrontInv' /\ (repo' # repo => Allowed(w))
  <2>1. job[w].at = "untagAll" /\ t \in job[w].todo /\ (repo' = repo \/ repo' = [repo EXCEPT !.tags[t] = Nothing])
    BY <1>6 DEF UntagOne, At
  <2>2. /\ RepoShape' /\ repo'.revs = repo.revs
        /\ \A s \in FrontTags : repo'.tags[s] \in {repo.tags[s], Nothing}
    BY <2>1 DEF RepoShape
  <2>3. Moves(w, "untagAll") /\ job'[w].todo = job[w].todo \ {t}
    BY <1>6, <2>1 DEF UntagOne, JobShape, Moves
  <2>4. job'[w] # job[w]
    BY <2>1, <2>3
  <2>5. StepFits(job[w].req, "untagAll")
    BY <2>1
  <2>6. Allowed(w)
    BY <2>1, <2>2, <2>4 DEF Allowed, ByDelete, Req, StepFits, DeleteSteps
  <2>7. QED
    BY <1>1, <2>2, <2>3, <2>5, <2>6, MoveKeeps
<1>7. QED
  BY <1>2, <1>3, <1>4, <1>5, <1>6, ZenonT(30)

-----------------------------------------------------------------------------
LEMMA WorkerKeeps ==
  ASSUME FrontInv, NEW w \in Workers, WorkerStep(w)
  PROVE  FrontInv' /\ (repo' # repo => Allowed(w))
BY Dispatching, Reading, Preparing, Storing, Deleting, ZenonT(30) DEF WorkerStep

LEMMA FrontInvStep == FrontInv /\ [FrontNext]_frontVars => FrontInv'
<1> SUFFICES ASSUME FrontInv, [FrontNext]_frontVars PROVE FrontInv'
  OBVIOUS
<1>1. CASE FrontNext
  BY <1>1, WorkerKeeps DEF FrontNext
<1>2. CASE UNCHANGED frontVars
  BY <1>2 DEF frontVars, FrontInv, JobShape, RepoShape, StepFits
<1>3. QED
  BY <1>1, <1>2

\* With any number of requests at once the repository changes only on behalf of one whose token
\* holds the rights the change needs, never under maintenance or in a pull-through cache, and
\* only in the way its method may (App.authorized, App.dispatcher and the handlers).
THEOREM FrontCorrect == FrontSpec => ChangeAuthorised
<1>1. FrontInv /\ [FrontNext]_frontVars =>
        [repo' # repo =>
           \E w \in Workers :
              /\ job'[w] # job[w] /\ ~app.readOnly /\ ~app.isCache
              /\ \/ /\ Req(w).method = "PUT" /\ repo.revs \subseteq repo'.revs /\ repo'.blob = repo.blob
                    /\ \A t \in FrontTags : repo'.tags[t] = Nothing => repo.tags[t] = Nothing
                    /\ app.accessController => {"pull", "push"} \subseteq Req(w).grant
                 \/ /\ Req(w).method = "DELETE" /\ repo'.revs \subseteq repo.revs
                    /\ \A t \in FrontTags : repo'.tags[t] \in {repo.tags[t], Nothing}
                    /\ app.accessController => "delete" \in Req(w).grant]_frontVars
  BY WorkerKeeps DEF FrontNext, Allowed, ByPut, ByDelete
<1>2. QED
  BY FrontInvInit, FrontInvStep, <1>1, PTL DEF FrontSpec, ChangeAuthorised

-----------------------------------------------------------------------------
\* A request, what the manifest it names by a tag may be replaced by, and the statuses that the
\* table does not have, for a configuration a.
Asked(r) ==
    /\ r.tag \in FrontTags \cup {NoTag}
    /\ \/ r.method = "GET" /\ r.route \in {"base", "catalog", "tags", "manifest", "blob"}
       \/ r.method = "DELETE" /\ r.route \in {"manifest", "blob"}
       \/ r.method = "PUT" /\ r.route = "manifest" /\ r.m \in FrontManifests
Replaced(r, b) == b # Nothing /\ IsList(b) /\ MediaType[b] = "list" /\ "list" \notin r.accept
Besides(a, r) ==
    {499, 500} \cup (IF r.route = "manifest" /\ r.method = "GET" THEN {304} ELSE {})
               \cup (IF a.accessController THEN {400, 401} ELSE {})
Succeeds == 200..399

ByTag(r) == r.route = "manifest" /\ r.method = "GET" /\ r.tag # NoTag
Unknown(r, S) ==
    \E s \in S : \/ s.tags[r.tag] = Nothing
                 \/ \E x \in S : s.tags[r.tag] \notin x.revs
                 \/ Replaced(r, s.tags[r.tag]) /\ \E x \in S : DefaultPlatform[s.tags[r.tag]] \notin x.revs
                 \/ MediaType[s.tags[r.tag]] \in {"oci", "index"} \ r.accept
Served(r, m, S) ==
    /\ \E s \in S : m \in s.revs
    /\ \E s \in S : \/ s.tags[r.tag] = m /\ (MediaType[m] \in {"oci", "index"} => MediaType[m] \in r.accept)
                    \/ Replaced(r, s.tags[r.tag]) /\ m = DefaultPlatform[s.tags[r.tag]]

\* The request a step belongs to.
StepOf(r, at) ==
    /\ at \in {"getTag", "getDigest", "get", "getDefault"} => r.route = "manifest" /\ r.method = "GET"
    /\ at \in PutSteps => r.route = "manifest" /\ r.method = "PUT" /\ r.m \in FrontManifests
    /\ at \in DeleteSteps \ {"deleteBlob"} => r.route = "manifest" /\ r.method = "DELETE"
    /\ at \in {"statBlob", "serveBlob"} => r.route = "blob" /\ r.method = "GET"
    /\ at = "deleteBlob" => r.route = "blob" /\ r.method = "DELETE"
    /\ at \in {"tags", "catalog", "base"} => r.route = at /\ r.method = "GET"
    /\ at \in {"getTag", "getDefault", "tag", "untag"} => r.tag # NoTag
    /\ at \in {"getDigest", "delete", "lookup", "untagAll"} => r.tag = NoTag

\* The errors the handlers record.
ErrorNames ==
    {"MANIFEST_UNKNOWN", "BLOB_UNKNOWN", "NAME_UNKNOWN", "MANIFEST_INVALID", "DIGEST_INVALID",
     "MANIFEST_BLOB_UNKNOWN", "PAGINATION_NUMBER_INVALID", "DENIED", "UNSUPPORTED", "UNKNOWN",
     "UNAUTHORIZED", "ErrRepositoryNameInvalid", "StorageError", "PathNotFound"}

\* What a request under way has established, of the states S of the repository since it came.
Underway(j, S) ==
    /\ j.at \notin {"done", "untagAll"} => j.errs = <<>>
    /\ j.at \notin {"done", "tag", "lookup", "untagAll"} => j.did = {}
    /\ j.at \in {"get", "getDefault"} /\ j.req.tag # NoTag => \E s \in S : s.tags[j.req.tag] = j.digest
    /\ j.at \in {"get", "getDefault"} /\ j.req.tag # NoTag => j.digest \in FrontManifests
    /\ j.at = "getDefault" => Replaced(j.req, j.digest)
    /\ j.at = "tag" => j.did = {"put"} /\ \E s \in S : j.req.m \in s.revs
    /\ j.at \in {"lookup", "untagAll"} =>
          j.did = {"delete"} /\ j.req.m \in FrontManifests /\ \E s \in S : j.req.m \notin s.revs
    /\ j.at = "untagAll" /\ j.errs = <<>> =>
          \A t \in FrontTags : t \in j.todo \/ \E s \in S : s.tags[t] # j.req.m

\* What is true of an answer.
Finished(a, j, S) ==
    LET r == j.req
    IN /\ j.status \in Nat
       /\ j.status \in Described(r.route, r.method) \cup Besides(a, r)
       /\ ByTag(r) => /\ j.status = 200 => Served(r, j.digest, S)
                      /\ j.status = 304 => \E s \in S : s.tags[r.tag] = r.etag
                      /\ j.status = 404 => Unknown(r, S)
       /\ r.method = "PUT" =>
             IF j.status \in Succeeds THEN /\ \E s \in S : r.m \in s.revs
                                           /\ r.tag # NoTag => \E s \in S : s.tags[r.tag] = r.m
             ELSE "tag" \notin j.did
       /\ r.method = "DELETE" /\ r.route = "manifest" /\ j.status \in Succeeds =>
             IF r.tag # NoTag THEN \E s \in S : s.tags[r.tag] = Nothing
             ELSE /\ \E s \in S : r.m \notin s.revs
                  /\ j.errs = <<>> => \A t \in FrontTags : \E s \in S : s.tags[t] # r.m
       /\ j.did # {} => j.status \notin 400..499

JobInv(a, j, S) ==
    /\ j.errs \in Seq(ErrorNames)
    /\ j.at # "idle" => Asked(j.req)
    /\ StepOf(j.req, j.at)
    /\ j.at \notin {"idle", "done"} => Underway(j, S)
    /\ j.at = "done" => Finished(a, j, S)

Serving(w) == job[w].at \notin {"idle", "done"}

RepoTypes == repo.revs \subseteq FrontManifests /\ repo.tags \in [FrontTags -> FrontManifests \cup {Nothing}]

TruthInv ==
    /\ RepoTypes
    /\ \A w \in Workers : JobInv(app, job[w], seen[w]) /\ (Serving(w) => repo \in seen[w])

-----------------------------------------------------------------------------
LEMMA TruthInvInit == FrontInit => TruthInv
<1> SUFFICES ASSUME FrontInit PROVE TruthInv
  OBVIOUS
<1>1. RepoTypes
  BY DEF FrontInit, RepoTypes
<1>2. \A w \in Workers : job[w] = IdleJob
  BY DEF FrontInit
<1>3. IdleJob.at = "idle" /\ IdleJob.errs = <<>>
  BY DEF IdleJob
<1>4. StepOf(IdleJob.req, "idle")
  BY DEF StepOf, PutSteps, DeleteSteps
<1>5. \A S : JobInv(app, IdleJob, S)
  BY <1>3, <1>4 DEF JobInv
<1>6. QED
  BY <1>1, <1>2, <1>3, <1>5 DEF TruthInv, Serving

\* Nothing that was true of a request ceases to be as the repository changes.
LEMMA MoreSeen ==
  ASSUME NEW a, NEW j, NEW S, NEW T, S \subseteq T, JobInv(a, j, S)
  PROVE  JobInv(a, j, T)
<1>1. ASSUME NEW r, NEW m
      PROVE  /\ Unknown(r, S) => Unknown(r, T)
             /\ Served(r, m, S) => Served(r, m, T)
  <2>1. Unknown(r, S) => Unknown(r, T)
    BY ZenonT(30) DEF Unknown
  <2>2. Served(r, m, S) => Served(r, m, T)
    BY ZenonT(30) DEF Served
  <2>3. QED
    BY <2>1, <2>2
<1>2. Underway(j, S) => Underway(j, T)
  BY ZenonT(30) DEF Underway
<1>3. Finished(a, j, S) => Finished(a, j, T)
  <2> SUFFICES ASSUME Finished(a, j, S) PROVE Finished(a, j, T)
    OBVIOUS
  <2>1. ByTag(j.req) => /\ j.status = 200 => Served(j.req, j.digest, T)
                        /\ j.status = 304 => \E s \in T : s.tags[j.req.tag] = j.req.etag
                        /\ j.status = 404 => Unknown(j.req, T)
    BY <1>1 DEF Finished
  <2>2. j.req.method = "PUT" =>
             IF j.status \in Succeeds THEN /\ \E s \in T : j.req.m \in s.revs
                                           /\ j.req.tag # NoTag => \E s \in T : s.tags[j.req.tag] = j.req.m
             ELSE "tag" \notin j.did
    <3>1. j.req.method = "PUT" =>
             IF j.status \in Succeeds THEN /\ \E s \in S : j.req.m \in s.revs
                                           /\ j.req.tag # NoTag => \E s \in S : s.tags[j.req.tag] = j.req.m
             ELSE "tag" \notin j.did
      BY DEF Finished
    <3>2. QED
      BY <3>1
  <2>3. j.req.method = "DELETE" /\ j.req.route = "manifest" /\ j.status \in Succeeds =>
             IF j.req.tag # NoTag THEN \E s \in T : s.tags[j.req.tag] = Nothing
             ELSE /\ \E s \in T : j.req.m \notin s.revs
                  /\ j.errs = <<>> => \A t \in FrontTags : \E s \in T : s.tags[t] # j.req.m
    <3>1. j.req.method = "DELETE" /\ j.req.route = "manifest" /\ j.status \in Succeeds =>
             IF j.req.tag # NoTag THEN \E s \in S : s.tags[j.req.tag] = Nothing
             ELSE /\ \E s \in S : j.req.m \notin s.revs
                  /\ j.errs = <<>> => \A t \in FrontTags : \E s \in S : s.tags[t] # j.req.m
      BY DEF Finished
    <3>2. QED
      BY <3>1
  <2>4. QED
    BY <2>1, <2>2, <2>3 DEF Finished
<1>4. QED
  BY <1>2, <1>3 DEF JobInv

\* One request moves on, and all see what it does to the repository.
LEMMA OneServed ==
  ASSUME FrontInv, TruthInv, NEW w \in Workers, Watch, app' = app, RepoTypes', Serving(w),
         \A v \in Workers : v # w => job'[v] = job[v],
         JobInv(app, job'[w], seen[w] \cup {repo'})
  PROVE  TruthInv'
<1>1. ASSUME NEW v \in Workers
      PROVE  /\ Serving(v) => seen'[v] = seen[v] \cup {repo'}
             /\ ~Serving(v) /\ job'[v] = job[v] => seen'[v] = seen[v]
  BY DEF Watch, Serving
<1>2. ASSUME NEW v \in Workers
      PROVE  JobInv(app, job'[v], seen'[v]) /\ (job'[v].at \notin {"idle", "done"} => repo' \in seen'[v])
  <2>1. CASE v = w
    BY <1>1, <2>1
  <2>2. CASE v # w /\ Serving(v)
    <3>1. JobInv(app, job[v], seen'[v])
      BY <1>1, <2>2, MoreSeen DEF TruthInv
    <3>2. QED
      BY <1>1, <2>2, <3>1
  <2>3. CASE v # w /\ ~Serving(v)
    BY <1>1, <2>3 DEF TruthInv, Serving
  <2>4. QED
    BY <2>1, <2>2, <2>3
<1>3. QED
  BY <1>2 DEF TruthInv, Serving

LEMMA Statuses ==
  /\ HTTPStatus("MANIFEST_UNKNOWN") = 404 /\ HTTPStatus("BLOB_UNKNOWN") = 404
  /\ HTTPStatus("NAME_UNKNOWN") = 404 /\ HTTPStatus("MANIFEST_INVALID") = 400
  /\ HTTPStatus("DIGEST_INVALID") = 400 /\ HTTPStatus("MANIFEST_BLOB_UNKNOWN") = 400
  /\ HTTPStatus("PAGINATION_NUMBER_INVALID") = 400 /\ HTTPStatus("DENIED") = 403
  /\ HTTPStatus("UNSUPPORTED") = 405 /\ HTTPStatus("UNKNOWN") = 500
  /\ HTTPStatus("StorageError") = 500 /\ HTTPStatus("UNAUTHORIZED") = 401
  /\ HTTPStatus("ErrRepositoryNameInvalid") = 500
BY DEF HTTPStatus, RegistryStatus, GenericStatus

\* Errors that are answered with a status.
Failure(errs, n) == errs \in Seq(ErrorNames) /\ ServeJSON(errs) = n

LEMMA Failures ==
  /\ Failure(<<"MANIFEST_UNKNOWN">>, 404) /\ Failure(<<"BLOB_UNKNOWN">>, 404)
  /\ Failure(<<"NAME_UNKNOWN">>, 404) /\ Failure(<<"MANIFEST_INVALID">>, 400)
  /\ Failure(<<"DIGEST_INVALID">>, 400) /\ Failure(<<"MANIFEST_BLOB_UNKNOWN">>, 400)
  /\ Failure(<<"PAGINATION_NUMBER_INVALID">>, 400) /\ Failure(<<"DENIED">>, 403)
  /\ Failure(<<"UNSUPPORTED">>, 405) /\ Failure(<<"UNKNOWN">>, 500)
  /\ Failure(<<"StorageError">>, 500) /\ Failure(<<"UNAUTHORIZED">>, 401)
  /\ Failure(<<"ErrRepositoryNameInvalid">>, 500) /\ Failure(<<>>, 500)
<1>1. ASSUME NEW c \in ErrorNames PROVE Failure(<<c>>, HTTPStatus(c))
  <2>1. <<c>> \in Seq(ErrorNames) /\ <<c>> # <<>> /\ <<c>>[1] = c
    OBVIOUS
  <2>2. ServeJSON(<<c>>) = HTTPStatus(c)
    BY <2>1 DEF ServeJSON
  <2>3. QED
    BY <2>1, <2>2, ZenonT(30) DEF Failure
<1>2. Failure(<<>>, 500)
  BY DEF Failure, ServeJSON
<1>3. /\ Failure(<<"MANIFEST_UNKNOWN">>, 404) /\ Failure(<<"BLOB_UNKNOWN">>, 404)
      /\ Failure(<<"NAME_UNKNOWN">>, 404) /\ Failure(<<"MANIFEST_INVALID">>, 400)
      /\ Failure(<<"DIGEST_INVALID">>, 400) /\ Failure(<<"MANIFEST_BLOB_UNKNOWN">>, 400)
      /\ Failure(<<"PAGINATION_NUMBER_INVALID">>, 400)
  BY <1>1, Statuses DEF ErrorNames
<1>4. /\ Failure(<<"DENIED">>, 403) /\ Failure(<<"UNSUPPORTED">>, 405) /\ Failure(<<"UNKNOWN">>, 500)
      /\ Failure(<<"StorageError">>, 500) /\ Failure(<<"UNAUTHORIZED">>, 401)
      /\ Failure(<<"ErrRepositoryNameInvalid">>, 500)
  BY <1>1, Statuses DEF ErrorNames
<1>5. QED
  BY <1>2, <1>3, <1>4

\* The statuses of the table for the routes of the model.
LEMMA Table ==
  /\ Described("base", "GET") = {200, 404, 401, 429}
  /\ Described("tags", "GET") = {200, 400, 401, 403, 404, 429}
  /\ Described("catalog", "GET") = {200, 400}
  /\ Described("manifest", "GET") = {200, 400, 401, 403, 404, 429}
  /\ Described("manifest", "PUT") = {201, 400, 401, 403, 404, 405, 429}
  /\ Described("manifest", "DELETE") = {202, 400, 401, 403, 404, 405, 429}
  /\ Described("blob", "GET") = {200, 206, 307, 400, 401, 403, 404, 416, 429}
  /\ Described("blob", "DELETE") = {202, 400, 401, 403, 404, 405, 429}
<1> USE DEF BaseGet, TagsGet, TagsGetPaginated, CatalogGet, CatalogGetPaginated, ManifestFetch, ManifestPut,
            ManifestDelete, BlobFetch, BlobFetchPart, BlobDelete, Common, unauthorizedResponse,
            invalidPaginationResponse, repositoryNotFoundResponse, deniedResponse, tooManyRequests
<1>1. Described("base", "GET") = {200, 404, 401, 429}
  BY DEF Described
<1>2. Described("tags", "GET") = {200, 400, 401, 403, 404, 429}
  BY DEF Described
<1>3. Described("catalog", "GET") = {200, 400}
  BY DEF Described
<1>4. Described("manifest", "GET") = {200, 400, 401, 403, 404, 429}
  BY DEF Described
<1>5. Described("manifest", "PUT") = {201, 400, 401, 403, 404, 405, 429}
  BY DEF Described
<1>6. Described("manifest", "DELETE") = {202, 400, 401, 403, 404, 405, 429}
  BY DEF Described
<1>7. Described("blob", "GET") = {200, 206, 307, 400, 401, 403, 404, 416, 429}
  BY DEF Described
<1>8. Described("blob", "DELETE") = {202, 400, 401, 403, 404, 405, 429}
  BY DEF Described
<1>9. QED
  BY <1>1, <1>2, <1>3, <1>4, <1>5, <1>6, <1>7, <1>8

\* What the table has for a route and a method that are known by equalities.
LEMMA TableManifestGet ==
  ASSUME NEW route, NEW method, route = "manifest", method = "GET"
  PROVE  200 \in Described(route, method) /\ 400 \in Described(route, method) /\ 404 \in Described(route, method)
BY Table

LEMMA TableManifestPut ==
  ASSUME NEW route, NEW method, route = "manifest", method = "PUT"
  PROVE  /\ 201 \in Described(route, method) /\ 400 \in Described(route, method)
         /\ 403 \in Described(route, method) /\ 405 \in Described(route, method)
BY Table

LEMMA TableDelete ==
  ASSUME NEW route, NEW method, route = "manifest" \/ route = "blob", method = "DELETE"
  PROVE  202 \in Described(route, method) /\ 404 \in Described(route, method) /\ 405 \in Described(route, method)
BY Table

LEMMA TableBlobGet ==
  ASSUME NEW route, NEW method, route = "blob", method = "GET"
  PROVE  404 \in Described(route, method)
BY Table

LEMMA TableBlobServed ==
  ASSUME NEW route, route = "blob", NEW n \in {200, 206, 307, 416}
  PROVE  n \in Nat /\ n \in Described(route, "GET")
BY Table

LEMMA TableListing ==
  ASSUME NEW route, NEW method, route \in {"tags", "catalog", "base"}, method = "GET"
  PROVE  /\ 200 \in Described(route, method)
         /\ route # "base" => 400 \in Described(route, method)
         /\ route = "tags" => 404 \in Described(route, method)
BY Table

-----------------------------------------------------------------------------
Apart(w) == \A v \in Workers : v # w => job'[v] = job[v]
Ended(w, errs, status) ==
    /\ job'[w].at = "done" /\ job'[w].errs = errs /\ job'[w].status = status
    /\ job'[w].req = job[w].req /\ job'[w].did = job[w].did /\ job'[w].digest = job[w].digest

LEMMA EndFields ==
  ASSUME JobShape, NEW w \in Workers
  PROVE  /\ \A errs : FailsWith(w, errs) => Apart(w) /\ Ended(w, errs, ServeJSON(errs))
         /\ \A status : Answers(w, status) => Apart(w) /\ Ended(w, job[w].errs, status)
<1>1. ASSUME NEW errs, FailsWith(w, errs) PROVE Apart(w) /\ Ended(w, errs, ServeJSON(errs))
  BY <1>1 DEF JobShape, FailsWith, Apart, Ended
<1>2. ASSUME NEW status, Answers(w, status) PROVE Apart(w) /\ Ended(w, job[w].errs, status)
  BY <1>2 DEF JobShape, Answers, Apart, Ended
<1>3. QED
  BY <1>1, <1>2

LEMMA ServingFacts ==
  ASSUME TruthInv, NEW w \in Workers, Serving(w)
  PROVE  /\ Asked(job[w].req) /\ StepOf(job[w].req, job[w].at) /\ Underway(job[w], seen[w])
         /\ job[w].errs \in Seq(ErrorNames) /\ repo \in seen[w] /\ "tag" \notin job[w].did
<1>1. JobInv(app, job[w], seen[w]) /\ repo \in seen[w]
  BY DEF TruthInv
<1>2. Asked(job[w].req) /\ StepOf(job[w].req, job[w].at) /\ Underway(job[w], seen[w]) /\ job[w].errs \in Seq(ErrorNames)
  BY <1>1 DEF JobInv, Serving
<1>3. "tag" \notin job[w].did
  BY <1>2 DEF Underway, Serving
<1>4. QED
  BY <1>1, <1>2, <1>3

LEMMA RepoKept ==
  ASSUME TruthInv, NEW w \in Workers, Serving(w), repo' = repo
  PROVE  RepoTypes' /\ seen[w] \cup {repo'} = seen[w]
<1>1. repo \in seen[w]
  BY ServingFacts
<1>2. seen[w] \cup {repo'} = seen[w]
  BY <1>1
<1>3. RepoTypes'
  BY DEF TruthInv, RepoTypes
<1>4. QED
  BY <1>2, <1>3

\* The request ends with an answer that is true.
LEMMA EndServed ==
  ASSUME FrontInv, TruthInv, NEW w \in Workers, Watch, app' = app, RepoTypes', Serving(w), Apart(w),
         job'[w].at = "done", job'[w].req = job[w].req, job'[w].errs \in Seq(ErrorNames),
         Finished(app, job'[w], seen[w] \cup {repo'})
  PROVE  TruthInv'
<1>1. StepOf(job[w].req, "done")
  BY DEF StepOf, PutSteps, DeleteSteps
<1>2. JobInv(app, job'[w], seen[w] \cup {repo'})
  BY <1>1, ServingFacts DEF JobInv
<1>3. QED
  BY <1>2, OneServed, ZenonT(30) DEF Apart

\* The request ends with an error.
LEMMA FailServed ==
  ASSUME FrontInv, TruthInv, NEW w \in Workers, Watch, app' = app, repo' = repo, Serving(w),
         NEW errs, NEW n, FailsWith(w, errs), Failure(errs, n), n \in {400, 403, 404, 405, 500},
         n \in Described(job[w].req.route, job[w].req.method) \cup {500},
         ByTag(job[w].req) /\ n = 404 => Unknown(job[w].req, seen[w]),
         job[w].did # {} => n = 500
  PROVE  TruthInv'
<1>1. Apart(w) /\ Ended(w, errs, n) /\ errs \in Seq(ErrorNames)
  BY EndFields DEF FrontInv, Failure
<1>2. RepoTypes' /\ seen[w] \cup {repo'} = seen[w]
  BY RepoKept
<1>3. n \notin Succeeds /\ n \in Nat /\ n \notin {200, 304} /\ (job[w].did # {} => n \notin 400..499)
  BY DEF Succeeds
<1>4. job'[w].status = n /\ job'[w].req = job[w].req /\ job'[w].did = job[w].did
  BY <1>1 DEF Ended
<1>5. Finished(app, job'[w], seen[w])
  <2>1. job'[w].status \in Nat /\ job'[w].status \notin Succeeds /\ job'[w].status \notin {200, 304}
    BY <1>3, <1>4
  <2>2. job'[w].status \in Described(job'[w].req.route, job'[w].req.method) \cup Besides(app, job'[w].req)
    BY <1>4 DEF Besides
  <2>3. ByTag(job'[w].req) /\ job'[w].status = 404 => Unknown(job'[w].req, seen[w])
    BY <1>4
  <2>4. "tag" \notin job'[w].did /\ (job'[w].did # {} => job'[w].status \notin 400..499)
    BY <1>3, <1>4, ServingFacts
  <2>5. QED
    BY <2>1, <2>2, <2>3, <2>4, ZenonT(30) DEF Finished
<1>6. QED
  BY <1>1, <1>2, <1>5, EndServed, ZenonT(30) DEF Ended

\* The errors by the status they are answered with.
LEMMA NotFoundServed ==
  ASSUME FrontInv, TruthInv, NEW w \in Workers, Watch, app' = app, repo' = repo, Serving(w),
         404 \in Described(job[w].req.route, job[w].req.method), job[w].did = {},
         ByTag(job[w].req) => Unknown(job[w].req, seen[w])
  PROVE  /\ FailsWith(w, <<"MANIFEST_UNKNOWN">>) => TruthInv'
         /\ FailsWith(w, <<"BLOB_UNKNOWN">>) => TruthInv'
         /\ FailsWith(w, <<"NAME_UNKNOWN">>) => TruthInv'
<1>1. ASSUME NEW errs, NEW n, n = 404, FailsWith(w, errs), Failure(errs, n) PROVE TruthInv'
  <2>1. n \in {400, 403, 404, 405, 500}
    BY <1>1
  <2>2. n \in Described(job[w].req.route, job[w].req.method) \cup {500}
    BY <1>1, ZenonT(30)
  <2>3. ByTag(job[w].req) /\ n = 404 => Unknown(job[w].req, seen[w])
    BY <1>1
  <2>4. job[w].did # {} => n = 500
    BY <1>1, ZenonT(30)
  <2>5. FailsWith(w, errs) /\ Failure(errs, n)
    BY <1>1
  <2>6. QED
    BY <2>1, <2>2, <2>3, <2>4, <2>5, FailServed, ZenonT(30)
<1>2. \A errs : FailsWith(w, errs) /\ Failure(errs, 404) => TruthInv'
  BY <1>1
<1>3. /\ Failure(<<"MANIFEST_UNKNOWN">>, 404) /\ Failure(<<"BLOB_UNKNOWN">>, 404)
      /\ Failure(<<"NAME_UNKNOWN">>, 404)
  BY Failures, ZenonT(30)
<1>4. QED
  BY <1>2, <1>3

LEMMA InvalidServed ==
  ASSUME FrontInv, TruthInv, NEW w \in Workers, Watch, app' = app, repo' = repo, Serving(w),
         400 \in Described(job[w].req.route, job[w].req.method), job[w].did = {}
  PROVE  /\ FailsWith(w, <<"MANIFEST_INVALID">>) => TruthInv'
         /\ FailsWith(w, <<"DIGEST_INVALID">>) => TruthInv'
         /\ FailsWith(w, <<"MANIFEST_BLOB_UNKNOWN">>) => TruthInv'
         /\ FailsWith(w, <<"PAGINATION_NUMBER_INVALID">>) => TruthInv'
<1>1. ASSUME NEW errs, NEW n, n = 400, FailsWith(w, errs), Failure(errs, n) PROVE TruthInv'
  <2>1. n \in {400, 403, 404, 405, 500}
    BY <1>1
  <2>2. n \in Described(job[w].req.route, job[w].req.method) \cup {500}
    BY <1>1, ZenonT(30)
  <2>3. ByTag(job[w].req) /\ n = 404 => Unknown(job[w].req, seen[w])
    BY <1>1
  <2>4. job[w].did # {} => n = 500
    BY <1>1, ZenonT(30)
  <2>5. FailsWith(w, errs) /\ Failure(errs, n)
    BY <1>1
  <2>6. QED
    BY <2>1, <2>2, <2>3, <2>4, <2>5, FailServed, ZenonT(30)
<1>2. \A errs : FailsWith(w, errs) /\ Failure(errs, 400) => TruthInv'
  BY <1>1
<1>3. /\ Failure(<<"MANIFEST_INVALID">>, 400) /\ Failure(<<"DIGEST_INVALID">>, 400)
      /\ Failure(<<"MANIFEST_BLOB_UNKNOWN">>, 400) /\ Failure(<<"PAGINATION_NUMBER_INVALID">>, 400)
  BY Failures, ZenonT(30)
<1>4. QED
  BY <1>2, <1>3

LEMMA DeniedServed ==
  ASSUME FrontInv, TruthInv, NEW w \in Workers, Watch, app' = app, repo' = repo, Serving(w),
         403 \in Described(job[w].req.route, job[w].req.method), job[w].did = {}
  PROVE  /\ FailsWith(w, <<"DENIED">>) => TruthInv'
<1>1. ASSUME NEW errs, NEW n, n = 403, FailsWith(w, errs), Failure(errs, n) PROVE TruthInv'
  <2>1. n \in {400, 403, 404, 405, 500}
    BY <1>1
  <2>2. n \in Described(job[w].req.route, job[w].req.method) \cup {500}
    BY <1>1, ZenonT(30)
  <2>3. ByTag(job[w].req) /\ n = 404 => Unknown(job[w].req, seen[w])
    BY <1>1
  <2>4. job[w].did # {} => n = 500
    BY <1>1, ZenonT(30)
  <2>5. FailsWith(w, errs) /\ Failure(errs, n)
    BY <1>1
  <2>6. QED
    BY <2>1, <2>2, <2>3, <2>4, <2>5, FailServed, ZenonT(30)
<1>2. \A errs : FailsWith(w, errs) /\ Failure(errs, 403) => TruthInv'
  BY <1>1
<1>3. Failure(<<"DENIED">>, 403)
  BY Failures, ZenonT(30)
<1>4. QED
  BY <1>2, <1>3

LEMMA UnsupportedServed ==
  ASSUME FrontInv, TruthInv, NEW w \in Workers, Watch, app' = app, repo' = repo, Serving(w),
         405 \in Described(job[w].req.route, job[w].req.method), job[w].did = {}
  PROVE  /\ FailsWith(w, <<"UNSUPPORTED">>) => TruthInv'
<1>1. ASSUME NEW errs, NEW n, n = 405, FailsWith(w, errs), Failure(errs, n) PROVE TruthInv'
  <2>1. n \in {400, 403, 404, 405, 500}
    BY <1>1
  <2>2. n \in Described(job[w].req.route, job[w].req.method) \cup {500}
    BY <1>1, ZenonT(30)
  <2>3. ByTag(job[w].req) /\ n = 404 => Unknown(job[w].req, seen[w])
    BY <1>1
  <2>4. job[w].did # {} => n = 500
    BY <1>1, ZenonT(30)
  <2>5. FailsWith(w, errs) /\ Failure(errs, n)
    BY <1>1
  <2>6. QED
    BY <2>1, <2>2, <2>3, <2>4, <2>5, FailServed, ZenonT(30)
<1>2. \A errs : FailsWith(w, errs) /\ Failure(errs, 405) => TruthInv'
  BY <1>1
<1>3. Failure(<<"UNSUPPORTED">>, 405)
  BY Failures, ZenonT(30)
<1>4. QED
  BY <1>2, <1>3

LEMMA FaultServed ==
  ASSUME FrontInv, TruthInv, NEW w \in Workers, Watch, app' = app, repo' = repo, Serving(w)
  PROVE  /\ FailsWith(w, <<"UNKNOWN">>) => TruthInv'
         /\ FailsWith(w, <<"StorageError">>) => TruthInv'
<1>1. ASSUME NEW errs, NEW n, n = 500, FailsWith(w, errs), Failure(errs, n) PROVE TruthInv'
  <2>1. n \in {400, 403, 404, 405, 500}
    BY <1>1
  <2>2. n \in Described(job[w].req.route, job[w].req.method) \cup {500}
    BY <1>1, ZenonT(30)
  <2>3. ByTag(job[w].req) /\ n = 404 => Unknown(job[w].req, seen[w])
    BY <1>1
  <2>4. job[w].did # {} => n = 500
    BY <1>1, ZenonT(30)
  <2>5. FailsWith(w, errs) /\ Failure(errs, n)
    BY <1>1
  <2>6. QED
    BY <2>1, <2>2, <2>3, <2>4, <2>5, FailServed, ZenonT(30)
<1>2. \A errs : FailsWith(w, errs) /\ Failure(errs, 500) => TruthInv'
  BY <1>1
<1>3. Failure(<<"UNKNOWN">>, 500) /\ Failure(<<"StorageError">>, 500)
  BY Failures, ZenonT(30)
<1>4. QED
  BY <1>2, <1>3

\* The request goes on.
LEMMA GoServed ==
  ASSUME FrontInv, TruthInv, NEW w \in Workers, Watch, app' = app, RepoTypes', Serving(w), Apart(w),
         NEW to, job'[w].at = to, to \notin {"idle", "done"}, job'[w].req = job[w].req,
         job'[w].errs \in Seq(ErrorNames), StepOf(job[w].req, to), Underway(job'[w], seen[w] \cup {repo'})
  PROVE  TruthInv'
<1>1. JobInv(app, job'[w], seen[w] \cup {repo'})
  BY ServingFacts, ZenonT(30) DEF JobInv
<1>2. QED
  BY <1>1, OneServed, ZenonT(30) DEF Apart

\* A request that reads ends with a status of its own.
LEMMA ReadServed ==
  ASSUME FrontInv, TruthInv, NEW w \in Workers, Watch, app' = app, repo' = repo, Serving(w),
         NEW status \in Nat, Answers(w, status), job[w].req.method = "GET", job[w].did = {},
         status \in Described(job[w].req.route, "GET") \cup Besides(app, job[w].req),
         ByTag(job[w].req) => /\ status = 200 => Served(job[w].req, job[w].digest, seen[w])
                              /\ status = 304 => \E s \in seen[w] : s.tags[job[w].req.tag] = job[w].req.etag
                              /\ status # 404
  PROVE  TruthInv'
<1>1. Apart(w) /\ Ended(w, job[w].errs, status)
  BY EndFields DEF FrontInv
<1>2. RepoTypes' /\ seen[w] \cup {repo'} = seen[w]
  BY RepoKept
<1>3. /\ job'[w].status = status /\ job'[w].req = job[w].req /\ job'[w].did = {} /\ job'[w].digest = job[w].digest
      /\ job'[w].at = "done" /\ job'[w].errs = job[w].errs
  BY <1>1, ZenonT(30) DEF Ended
<1>4. Finished(app, job'[w], seen[w])
  <2>1. job'[w].status \in Nat /\ job'[w].req.method = "GET"
    BY <1>3
  <2>2. job'[w].status \in Described(job'[w].req.route, job'[w].req.method) \cup Besides(app, job'[w].req)
    BY <1>3
  <2>3. ByTag(job'[w].req) =>
          /\ job'[w].status = 200 => Served(job'[w].req, job'[w].digest, seen[w])
          /\ job'[w].status = 304 => \E s \in seen[w] : s.tags[job'[w].req.tag] = job'[w].req.etag
          /\ job'[w].status # 404
    BY <1>3
  <2>4. QED
    BY <1>3, <2>1, <2>2, <2>3, ZenonT(30) DEF Finished
<1>5. QED
  BY <1>1, <1>2, <1>3, <1>4, EndServed, ServingFacts, ZenonT(30)

\* It has what it asked for.
LEMMA GotServed ==
  ASSUME FrontInv, TruthInv, NEW w \in Workers, Watch, app' = app, repo' = repo, Serving(w),
         Answers(w, 200), job[w].req.method = "GET", job[w].did = {}, 200 \in Described(job[w].req.route, "GET"),
         ByTag(job[w].req) => Served(job[w].req, job[w].digest, seen[w])
  PROVE  TruthInv'
<1>1. ASSUME NEW status, status = 200, Answers(w, status) PROVE TruthInv'
  <2>1. status \in Nat /\ Answers(w, status)
    BY <1>1
  <2>2. status \in Described(job[w].req.route, "GET") \cup Besides(app, job[w].req)
    BY <1>1, ZenonT(30)
  <2>3. ByTag(job[w].req) => /\ status = 200 => Served(job[w].req, job[w].digest, seen[w])
                             /\ status = 304 => \E s \in seen[w] : s.tags[job[w].req.tag] = job[w].req.etag
                             /\ status # 404
    BY <1>1
  <2>4. QED
    BY <2>1, <2>2, <2>3, ReadServed, ZenonT(30)
<1>2. QED
  BY <1>1, ZenonT(30)

\* The client has the manifest already.
LEMMA NotModifiedServed ==
  ASSUME FrontInv, TruthInv, NEW w \in Workers, Watch, app' = app, repo' = repo, Serving(w),
         Answers(w, 304), job[w].req.method = "GET", job[w].req.route = "manifest", job[w].did = {},
         ByTag(job[w].req) => \E s \in seen[w] : s.tags[job[w].req.tag] = job[w].req.etag
  PROVE  TruthInv'
<1>1. ASSUME NEW status, status = 304, Answers(w, status) PROVE TruthInv'
  <2>1. status \in Nat /\ Answers(w, status)
    BY <1>1
  <2>2. status \in Described(job[w].req.route, "GET") \cup Besides(app, job[w].req)
    BY <1>1 DEF Besides
  <2>3. ByTag(job[w].req) => /\ status = 200 => Served(job[w].req, job[w].digest, seen[w])
                             /\ status = 304 => \E s \in seen[w] : s.tags[job[w].req.tag] = job[w].req.etag
                             /\ status # 404
    BY <1>1
  <2>4. QED
    BY <2>1, <2>2, <2>3, ReadServed, ZenonT(30)
<1>2. QED
  BY <1>1, ZenonT(30)

LEMMA GotFinished ==
  ASSUME NEW j, NEW S, j.req.method = "GET", j.status = 200, j.did = {},
         200 \in Described(j.req.route, j.req.method), ByTag(j.req) => Served(j.req, j.digest, S)
  PROVE  Finished(app, j, S)
<1>1. ASSUME NEW status, status = 200, j.status = status PROVE Finished(app, j, S)
  <2>1. status \in Nat /\ status # 304 /\ status # 404
    BY <1>1
  <2>2. j.req.method # "PUT" /\ j.req.method # "DELETE"
    OBVIOUS
  <2>3. status \in Described(j.req.route, j.req.method) \cup Besides(app, j.req)
    BY <1>1
  <2>4. ByTag(j.req) => /\ status = 200 => Served(j.req, j.digest, S)
                        /\ status = 304 => \E s \in S : s.tags[j.req.tag] = j.req.etag
                        /\ status = 404 => Unknown(j.req, S)
    BY <1>1, <2>1
  <2>5. j.status = status
    BY <1>1
  <2>6. QED
    BY <2>1, <2>2, <2>3, <2>4, <2>5, ZenonT(30) DEF Finished
<1>2. QED
  BY <1>1, ZenonT(30)

LEMMA DeleteFinished ==
  ASSUME NEW j, NEW S, j.req.method = "DELETE", j.status = 202, 202 \in Described(j.req.route, j.req.method),
         j.req.route = "manifest" => j.req.tag # NoTag /\ \E s \in S : s.tags[j.req.tag] = Nothing
  PROVE  Finished(app, j, S)
<1>1. 202 \in Nat /\ 202 \notin 400..499
  OBVIOUS
<1>2. j.req.method # "PUT" /\ ~ByTag(j.req)
  BY DEF ByTag
<1>3. QED
  BY <1>1, <1>2, ZenonT(30) DEF Finished

LEMMA GoFields ==
  ASSUME JobShape, NEW w \in Workers, NEW to, Goes(w, to)
  PROVE  /\ Apart(w) /\ job'[w].at = to /\ job'[w].req = job[w].req /\ job'[w].errs = job[w].errs
         /\ job'[w].did = job[w].did /\ job'[w].digest = job[w].digest /\ job'[w].todo = job[w].todo
BY DEF JobShape, Goes, Apart

LEMMA TagResolved ==
  ASSUME FrontInv, TruthInv, NEW w \in Workers, Watch, ResolveTag(w)
  PROVE  TruthInv'
<1> DEFINE r == job[w].req
           m == repo.tags[r.tag]
<1>1. app' = app /\ repo' = repo /\ job[w].at = "getTag" /\ Serving(w)
  BY DEF ResolveTag, Keeps, At, Serving
<1>2. /\ Asked(r) /\ r.route = "manifest" /\ r.method = "GET" /\ r.tag # NoTag
      /\ repo \in seen[w] /\ job[w].did = {} /\ job[w].errs = <<>>
  BY <1>1, ServingFacts, ZenonT(30) DEF StepOf, Underway
<1>3. m \in FrontManifests \cup {Nothing}
  BY <1>2, ZenonT(30) DEF TruthInv, RepoTypes, Asked
<1>4. CASE FailsWith(w, <<"MANIFEST_UNKNOWN">>) /\ m = Nothing
  <2>1. Unknown(r, seen[w])
    BY <1>2, <1>4, ZenonT(30) DEF Unknown
  <2>2. QED
    <3>1. 404 \in Described(r.route, r.method)
      BY <1>2, TableManifestGet, ZenonT(30)
    <3>2. QED
      BY <1>1, <1>2, <1>4, <2>1, <3>1, NotFoundServed, ZenonT(30)
<1>5. CASE Answers(w, 304) /\ r.etag = m
  <2>1. \E s \in seen[w] : s.tags[r.tag] = r.etag
    BY <1>2, <1>5, ZenonT(30)
  <2>2. QED
    BY <1>1, <1>2, <1>5, <2>1, NotModifiedServed, ZenonT(30)
<1>6. CASE job' = [job EXCEPT ![w].digest = m, ![w].at = "get"] /\ m # Nothing
  <2>1. /\ Apart(w) /\ job'[w].at = "get" /\ job'[w].req = r /\ job'[w].errs = job[w].errs
        /\ job'[w].did = job[w].did /\ job'[w].digest = m
    BY <1>6 DEF FrontInv, JobShape, Apart
  <2>2. StepOf(r, "get") /\ RepoTypes'
    BY <1>1, <1>2, ZenonT(30) DEF StepOf, PutSteps, DeleteSteps, TruthInv, RepoTypes
  <2>3. Underway(job'[w], seen[w] \cup {repo'})
    BY <1>2, <1>3, <1>6, <2>1, ZenonT(30) DEF Underway
  <2>4. QED
    BY <1>1, <1>2, <2>1, <2>2, <2>3, GoServed, ServingFacts, ZenonT(30)
<1>7. QED
  BY <1>4, <1>5, <1>6 DEF ResolveTag, Req

LEMMA DigestResolved ==
  ASSUME FrontInv, TruthInv, NEW w \in Workers, Watch, ResolveDigest(w)
  PROVE  TruthInv'
<1> DEFINE r == job[w].req
<1>1. app' = app /\ repo' = repo /\ job[w].at = "getDigest" /\ Serving(w)
  BY DEF ResolveDigest, Keeps, At, Serving
<1>2. /\ r.route = "manifest" /\ r.method = "GET" /\ r.tag = NoTag
      /\ job[w].did = {} /\ job[w].errs = <<>>
  BY <1>1, ServingFacts, ZenonT(30) DEF StepOf, Underway
<1>3. CASE Answers(w, 304)
  <2>1. ~ByTag(r)
    BY <1>2, ZenonT(30) DEF ByTag
  <2>2. QED
    BY <1>1, <1>2, <1>3, <2>1, NotModifiedServed, ZenonT(30)
<1>4. CASE job' = [job EXCEPT ![w].digest = r.m, ![w].at = "get"]
  <2>1. /\ Apart(w) /\ job'[w].at = "get" /\ job'[w].req = r /\ job'[w].errs = job[w].errs
        /\ job'[w].did = job[w].did
    BY <1>4 DEF FrontInv, JobShape, Apart
  <2>2. StepOf(r, "get") /\ RepoTypes'
    BY <1>1, <1>2 DEF StepOf, PutSteps, DeleteSteps, TruthInv, RepoTypes
  <2>3. Underway(job'[w], seen[w] \cup {repo'})
    BY <1>2, <2>1 DEF Underway
  <2>4. QED
    BY <1>1, <1>2, <2>1, <2>2, <2>3, GoServed, ServingFacts, ZenonT(30)
<1>5. QED
  BY <1>3, <1>4 DEF ResolveDigest, Req

LEMMA ListsAre ==
  ASSUME NEW m \in FrontManifests
  PROVE  m # Nothing /\ (MediaType[m] = "list" => IsList(m))
BY FrontAssumption DEF MediaType, IsList, DefaultPlatform

LEMMA ManifestGot ==
  ASSUME FrontInv, TruthInv, NEW w \in Workers, Watch, GetManifest(w)
  PROVE  TruthInv'
<1> DEFINE r == job[w].req
           m == job[w].digest
<1>1. app' = app /\ repo' = repo /\ job[w].at = "get" /\ Serving(w)
  BY DEF GetManifest, Keeps, At, Serving
<1>2. /\ r.route = "manifest" /\ r.method = "GET" /\ repo \in seen[w]
      /\ job[w].did = {} /\ job[w].errs \in Seq(ErrorNames) /\ job[w].errs = <<>>
  BY <1>1, ServingFacts, ZenonT(30) DEF StepOf, Underway
<1>3. r.tag # NoTag => m \in FrontManifests /\ \E s \in seen[w] : s.tags[r.tag] = m
  BY <1>1, ServingFacts, ZenonT(30) DEF Underway
<1>4. ASSUME FailsWith(w, <<"MANIFEST_UNKNOWN">>),
             r.tag # NoTag => m \notin repo.revs \/ MediaType[m] \in {"oci", "index"} \ r.accept
      PROVE  TruthInv'
  <2>1. ByTag(r) => Unknown(r, seen[w])
    BY <1>2, <1>3, <1>4, ZenonT(30) DEF Unknown, ByTag
  <2>2. 404 \in Described(r.route, r.method)
    BY <1>2, TableManifestGet, ZenonT(30)
  <2>3. QED
    BY <1>1, <1>2, <1>4, <2>1, <2>2, NotFoundServed, ZenonT(30)
<1>5. CASE m \notin repo.revs
  BY <1>4, <1>5 DEF GetManifest
<1>6. CASE m \in repo.revs /\ MediaType[m] = "oci" /\ "oci" \notin r.accept
  BY <1>4, <1>6 DEF GetManifest, Negotiate, Req
<1>7. CASE m \in repo.revs /\ MediaType[m] = "index" /\ "index" \notin r.accept
  BY <1>4, <1>7 DEF GetManifest, Negotiate, Req
<1>8. CASE Goes(w, "getDefault") /\ r.tag # NoTag /\ MediaType[m] = "list" /\ "list" \notin r.accept
  <2>1. /\ Apart(w) /\ job'[w].at = "getDefault" /\ job'[w].req = r /\ job'[w].errs = job[w].errs
        /\ job'[w].did = job[w].did /\ job'[w].digest = m
    BY <1>8, GoFields DEF FrontInv
  <2>2. StepOf(r, "getDefault") /\ RepoTypes'
    BY <1>1, <1>2, <1>8, ZenonT(30) DEF StepOf, PutSteps, DeleteSteps, TruthInv, RepoTypes
  <2>3. Replaced(r, m)
    BY <1>3, <1>8, ListsAre DEF Replaced
  <2>4. Underway(job'[w], seen[w] \cup {repo'})
    BY <1>2, <1>3, <2>1, <2>3, ZenonT(30) DEF Underway
  <2>5. QED
    BY <1>1, <1>2, <2>1, <2>2, <2>4, GoServed, ZenonT(30)
<1>9. CASE Answers(w, 200) /\ m \in repo.revs /\ (MediaType[m] \in {"oci", "index"} => MediaType[m] \in r.accept)
  <2>1. ByTag(r) => Served(r, m, seen[w])
    BY <1>2, <1>3, <1>9, ZenonT(30) DEF Served, ByTag
  <2>2. 200 \in Described(r.route, "GET")
    BY <1>2, TableManifestGet, ZenonT(30)
  <2>3. QED
    BY <1>1, <1>2, <1>9, <2>1, <2>2, GotServed, ZenonT(30)
<1>10. QED
  <2>1. CASE /\ m \in repo.revs /\ ~(MediaType[m] = "oci" /\ "oci" \notin r.accept)
             /\ ~(MediaType[m] = "index" /\ "index" \notin r.accept)
    BY <1>8, <1>9, <2>1 DEF GetManifest, Negotiate, Req
  <2>2. QED
    BY <1>5, <1>6, <1>7, <2>1

LEMMA DefaultGot ==
  ASSUME FrontInv, TruthInv, NEW w \in Workers, Watch, GetDefault(w)
  PROVE  TruthInv'
<1> DEFINE r == job[w].req
           m == DefaultPlatform[job[w].digest]
<1>1. app' = app /\ repo' = repo /\ job[w].at = "getDefault" /\ Serving(w)
  BY DEF GetDefault, Keeps, At, Serving
<1>2. /\ r.route = "manifest" /\ r.method = "GET" /\ r.tag # NoTag /\ repo \in seen[w]
      /\ job[w].did = {} /\ job[w].errs \in Seq(ErrorNames) /\ job[w].errs = <<>>
  BY <1>1, ServingFacts, ZenonT(30) DEF StepOf, Underway
<1>3. Replaced(r, job[w].digest) /\ \E s \in seen[w] : s.tags[r.tag] = job[w].digest
  BY <1>1, <1>2, ServingFacts, ZenonT(30) DEF Underway
<1>4. CASE FailsWith(w, <<"MANIFEST_UNKNOWN">>) /\ m \notin repo.revs
  <2>1. Unknown(r, seen[w])
    BY <1>2, <1>3, <1>4, ZenonT(30) DEF Unknown
  <2>2. 404 \in Described(r.route, r.method)
    BY <1>2, TableManifestGet, ZenonT(30)
  <2>3. QED
    BY <1>1, <1>2, <1>4, <2>1, <2>2, NotFoundServed, ZenonT(30)
<1>5. CASE FailsWith(w, <<"MANIFEST_INVALID">>)
  <2>1. 400 \in Described(r.route, r.method)
    BY <1>2, TableManifestGet, ZenonT(30)
  <2>2. QED
    BY <1>1, <1>2, <1>5, <2>1, InvalidServed, ZenonT(30)
<1>6. CASE job' = [job EXCEPT ![w].digest = m, ![w].at = "done", ![w].status = 200] /\ m \in repo.revs
  <2>1. /\ Apart(w) /\ job'[w].at = "done" /\ job'[w].req = r /\ job'[w].errs = job[w].errs
        /\ job'[w].did = job[w].did /\ job'[w].digest = m /\ job'[w].status = 200
    BY <1>6 DEF FrontInv, JobShape, Apart
  <2>2. RepoTypes' /\ seen[w] \cup {repo'} = seen[w]
    BY <1>1, RepoKept, ZenonT(30)
  <2>3. Served(r, m, seen[w])
    BY <1>2, <1>3, <1>6, ZenonT(30) DEF Served
  <2>4. 200 \in Described(r.route, r.method)
    BY <1>2, TableManifestGet, ZenonT(30)
  <2>5. Finished(app, job'[w], seen[w])
    <3>1. job'[w].req.method = "GET" /\ job'[w].did = {}
      BY <1>2, <2>1, ZenonT(30)
    <3>2. 200 \in Described(job'[w].req.route, job'[w].req.method)
      BY <2>1, <2>4, ZenonT(30)
    <3>3. Served(job'[w].req, job'[w].digest, seen[w])
      BY <2>1, <2>3, ZenonT(30)
    <3>4. QED
      BY <2>1, <3>1, <3>2, <3>3, GotFinished, ZenonT(30)
  <2>6. QED
    BY <1>1, <1>2, <2>1, <2>2, <2>5, EndServed, ZenonT(30)
<1>7. QED
  BY <1>4, <1>5, <1>6 DEF GetDefault, Req

LEMMA BlobGot ==
  ASSUME FrontInv, TruthInv, NEW w \in Workers, Watch, GetBlob(w) \/ ServeBlob(w)
  PROVE  TruthInv'
<1> DEFINE r == job[w].req
<1>1. app' = app /\ repo' = repo /\ job[w].at \in {"statBlob", "serveBlob"} /\ Serving(w)
  BY DEF GetBlob, ServeBlob, Keeps, At, Serving
<1>2. /\ r.route = "blob" /\ r.method = "GET" /\ ~ByTag(r)
      /\ job[w].did = {} /\ job[w].errs \in Seq(ErrorNames) /\ job[w].errs = <<>>
  BY <1>1, ServingFacts, ZenonT(30) DEF StepOf, Underway, ByTag
<1>3. 404 \in Described(r.route, r.method)
  BY <1>2, TableBlobGet, ZenonT(30)
<1>4. CASE FailsWith(w, <<"BLOB_UNKNOWN">>)
  BY <1>1, <1>2, <1>3, <1>4, NotFoundServed, ZenonT(30)
<1>5. CASE FailsWith(w, <<"UNKNOWN">>)
  BY <1>1, <1>5, FaultServed, ZenonT(30)
<1>6. CASE Goes(w, "serveBlob")
  <2>1. /\ Apart(w) /\ job'[w].at = "serveBlob" /\ job'[w].req = r /\ job'[w].errs = job[w].errs
        /\ job'[w].did = job[w].did
    BY <1>6, GoFields DEF FrontInv
  <2>2. StepOf(r, "serveBlob") /\ RepoTypes'
    BY <1>1, <1>2, ZenonT(30) DEF StepOf, PutSteps, DeleteSteps, TruthInv, RepoTypes
  <2>3. Underway(job'[w], seen[w] \cup {repo'})
    BY <1>2, <2>1 DEF Underway
  <2>4. QED
    BY <1>1, <1>2, <2>1, <2>2, <2>3, GoServed, ZenonT(30)
<1>7. ASSUME NEW n \in {200, 206, 307, 416}, Answers(w, n) PROVE TruthInv'
  <2>1. n \in Nat /\ n \in Described(r.route, "GET")
    BY <1>2, <1>7, TableBlobServed
  <2>2. n \in Described(r.route, "GET") \cup Besides(app, r)
    BY <2>1, ZenonT(30)
  <2>3. QED
    BY <1>1, <1>2, <1>7, <2>1, <2>2, ReadServed, ZenonT(30)
<1>8. QED
  BY <1>4, <1>5, <1>6, <1>7 DEF GetBlob, ServeBlob

LEMMA ListingGot ==
  ASSUME FrontInv, TruthInv, NEW w \in Workers, Watch, GetTags(w) \/ GetCatalog(w) \/ apiBase(w)
  PROVE  TruthInv'
<1> DEFINE r == job[w].req
<1>1. app' = app /\ repo' = repo /\ job[w].at \in {"tags", "catalog", "base"} /\ Serving(w)
  BY DEF GetTags, GetCatalog, apiBase, Keeps, At, Serving
<1>2. r.route = job[w].at /\ r.method = "GET" /\ ~ByTag(r) /\ job[w].did = {}
  BY <1>1, ServingFacts, ZenonT(30) DEF StepOf, Underway, ByTag
<1>3. /\ 200 \in Described(r.route, "GET")
      /\ r.route # "base" => 400 \in Described(r.route, r.method)
      /\ r.route = "tags" => 404 \in Described(r.route, r.method)
  <2>1. r.route \in {"tags", "catalog", "base"} /\ r.method = "GET"
    BY <1>1, <1>2
  <2>2. QED
    BY <2>1, TableListing
<1>4. CASE FailsWith(w, <<"PAGINATION_NUMBER_INVALID">>) /\ r.route # "base"
  BY <1>1, <1>2, <1>3, <1>4, InvalidServed, ZenonT(30)
<1>5. CASE FailsWith(w, <<"UNKNOWN">>)
  BY <1>1, <1>5, FaultServed, ZenonT(30)
<1>6. CASE FailsWith(w, <<"NAME_UNKNOWN">>) /\ r.route = "tags"
  BY <1>1, <1>2, <1>3, <1>6, NotFoundServed, ZenonT(30)
<1>7. CASE Answers(w, 200)
  BY <1>1, <1>2, <1>3, <1>7, GotServed, ZenonT(30)
<1>8. QED
  BY <1>2, <1>4, <1>5, <1>6, <1>7, ZenonT(30) DEF GetTags, GetCatalog, apiBase, At

LEMMA CallFailed ==
  ASSUME FrontInv, TruthInv, NEW w \in Workers, Watch, CallFails(w)
  PROVE  TruthInv'
<1>1. app' = app /\ repo' = repo /\ Serving(w)
  BY DEF CallFails, Faulty, Serving
<1>2. FailsWith(w, <<"StorageError">>) \/ FailsWith(w, <<"UNKNOWN">>)
  BY DEF CallFails, Faulty
<1>3. CASE FailsWith(w, <<"StorageError">>)
  BY <1>1, <1>3, FaultServed, ZenonT(30)
<1>4. CASE FailsWith(w, <<"UNKNOWN">>)
  BY <1>1, <1>4, FaultServed, ZenonT(30)
<1>5. QED
  BY <1>2, <1>3, <1>4

LEMMA ManifestRead ==
  ASSUME FrontInv, TruthInv, NEW w \in Workers, Watch, ReadManifest(w) \/ ClientGone(w)
  PROVE  TruthInv'
<1> DEFINE r == job[w].req
<1>1. app' = app /\ repo' = repo /\ job[w].at = "putBody" /\ Serving(w)
  BY DEF ReadManifest, ClientGone, Keeps, At, Serving
<1>2. /\ r.route = "manifest" /\ r.method = "PUT" /\ r.m \in FrontManifests /\ ~ByTag(r)
      /\ job[w].did = {} /\ job[w].errs \in Seq(ErrorNames) /\ job[w].errs = <<>>
  BY <1>1, ServingFacts, ZenonT(30) DEF StepOf, Underway, ByTag, PutSteps
<1>3. 400 \in Described(r.route, r.method) /\ 403 \in Described(r.route, r.method)
  BY <1>2, TableManifestPut
<1>4. CASE FailsWith(w, <<"MANIFEST_INVALID">>)
  BY <1>1, <1>2, <1>3, <1>4, InvalidServed, ZenonT(30)
<1>5. CASE FailsWith(w, <<"DIGEST_INVALID">>)
  BY <1>1, <1>2, <1>3, <1>5, InvalidServed, ZenonT(30)
<1>6. CASE FailsWith(w, <<"DENIED">>)
  BY <1>1, <1>2, <1>3, <1>6, DeniedServed, ZenonT(30)
<1>7. RepoTypes'
  BY <1>1 DEF TruthInv, RepoTypes
<1>8. CASE Goes(w, "put")
  <2>1. /\ Apart(w) /\ job'[w].at = "put" /\ job'[w].req = r /\ job'[w].errs = job[w].errs
        /\ job'[w].did = job[w].did
    BY <1>8, GoFields DEF FrontInv
  <2>2. StepOf(r, "put")
    BY <1>2 DEF StepOf, PutSteps, DeleteSteps
  <2>3. Underway(job'[w], seen[w] \cup {repo'})
    BY <1>2, <2>1, ZenonT(30) DEF Underway
  <2>4. QED
    BY <1>1, <1>2, <1>7, <2>1, <2>2, <2>3, GoServed, ZenonT(30)
<1>9. CASE ClientGone(w)
  <2>1. /\ Apart(w) /\ job'[w].at = "done" /\ job'[w].req = r /\ job'[w].errs = <<"MANIFEST_INVALID">>
        /\ job'[w].did = {} /\ job'[w].status = 499
    BY <1>2, <1>9 DEF ClientGone, FrontInv, JobShape, Apart
  <2>2. 499 \in Besides(app, r) /\ 499 \notin Succeeds
    BY DEF Besides, Succeeds
  <2>3. Finished(app, job'[w], seen[w] \cup {repo'})
    <3>1. job'[w].status \in Nat /\ job'[w].status \notin {200, 304, 404} /\ job'[w].status \notin Succeeds
      BY <2>1, <2>2
    <3>2. job'[w].status \in Described(job'[w].req.route, job'[w].req.method) \cup Besides(app, job'[w].req)
      BY <2>1, <2>2, ZenonT(30)
    <3>3. QED
      BY <2>1, <3>1, <3>2, ZenonT(30) DEF Finished
  <2>4. <<"MANIFEST_INVALID">> \in Seq(ErrorNames)
    BY Failures DEF Failure
  <2>5. QED
    BY <1>1, <1>7, <2>1, <2>3, <2>4, EndServed, ZenonT(30)
<1>10. QED
  BY <1>4, <1>5, <1>6, <1>8, <1>9 DEF ReadManifest

\* A PUT that succeeds with what it says done.
LEMMA PutFinished ==
  ASSUME NEW j, NEW S, j.req.route = "manifest", j.req.method = "PUT", j.status = 201,
         \E s \in S : j.req.m \in s.revs, j.req.tag # NoTag => \E s \in S : s.tags[j.req.tag] = j.req.m
  PROVE  Finished(app, j, S)
<1>1. 201 \in Nat /\ 201 \in Succeeds /\ 201 \notin 400..499
  BY DEF Succeeds
<1>2. 201 \in Described(j.req.route, j.req.method) /\ ~ByTag(j.req)
  <2>1. 201 \in Described(j.req.route, j.req.method)
    BY TableManifestPut
  <2>2. QED
    BY <2>1 DEF ByTag
<1>3. QED
  BY <1>1, <1>2, ZenonT(30) DEF Finished

LEMMA ManifestStored ==
  ASSUME FrontInv, TruthInv, NEW w \in Workers, Watch, StoreManifest(w)
  PROVE  TruthInv'
<1> DEFINE r == job[w].req
<1>1. app' = app /\ job[w].at = "put" /\ Serving(w)
  BY DEF StoreManifest, At, Serving
<1>2. /\ r.route = "manifest" /\ r.method = "PUT" /\ r.m \in FrontManifests /\ ~ByTag(r)
      /\ job[w].did = {} /\ job[w].errs \in Seq(ErrorNames) /\ job[w].errs = <<>>
  BY <1>1, ServingFacts, ZenonT(30) DEF StepOf, Underway, ByTag, PutSteps
<1>3. 400 \in Described(r.route, r.method) /\ 405 \in Described(r.route, r.method)
  BY <1>2, TableManifestPut
<1>4. CASE FailsWith(w, <<"UNSUPPORTED">>) /\ repo' = repo
  BY <1>1, <1>2, <1>3, <1>4, UnsupportedServed, ZenonT(30)
<1>5. CASE FailsWith(w, <<"MANIFEST_BLOB_UNKNOWN">>) /\ repo' = repo
  BY <1>1, <1>2, <1>3, <1>5, InvalidServed, ZenonT(30)
<1>6. CASE /\ repo' = [repo EXCEPT !.revs = @ \cup {r.m}]
           /\ \/ job' = [job EXCEPT ![w].at = "tag", ![w].did = {"put"}] /\ r.tag # NoTag
              \/ job' = [job EXCEPT ![w].at = "done", ![w].did = {"put"}, ![w].status = 201] /\ r.tag = NoTag
  <2>1. RepoTypes' /\ r.m \in repo'.revs
    BY <1>2, <1>6 DEF FrontInv, RepoShape, TruthInv, RepoTypes
  <2>2. \E s \in seen[w] \cup {repo'} : r.m \in s.revs
    BY <2>1
  <2>3. CASE job' = [job EXCEPT ![w].at = "tag", ![w].did = {"put"}] /\ r.tag # NoTag
    <3>1. /\ Apart(w) /\ job'[w].at = "tag" /\ job'[w].req = r /\ job'[w].errs = job[w].errs
          /\ job'[w].did = {"put"}
      BY <2>3 DEF FrontInv, JobShape, Apart
    <3>2. StepOf(r, "tag")
      BY <1>2, <2>3 DEF StepOf, PutSteps, DeleteSteps
    <3>3. Underway(job'[w], seen[w] \cup {repo'})
      BY <1>2, <2>2, <3>1, ZenonT(30) DEF Underway
    <3>4. QED
      BY <1>1, <1>2, <2>1, <3>1, <3>2, <3>3, GoServed, ZenonT(30)
  <2>4. CASE job' = [job EXCEPT ![w].at = "done", ![w].did = {"put"}, ![w].status = 201] /\ r.tag = NoTag
    <3>1. /\ Apart(w) /\ job'[w].at = "done" /\ job'[w].req = r /\ job'[w].errs = job[w].errs
          /\ job'[w].did = {"put"} /\ job'[w].status = 201
      BY <2>4 DEF FrontInv, JobShape, Apart
    <3>2. r.tag = NoTag
      BY <2>4
    <3>3. Finished(app, job'[w], seen[w] \cup {repo'})
      <4>1. job'[w].req.route = "manifest" /\ job'[w].req.method = "PUT" /\ job'[w].req.tag = NoTag
        BY <1>2, <3>1, <3>2, ZenonT(30)
      <4>2. \E s \in seen[w] \cup {repo'} : job'[w].req.m \in s.revs
        BY <2>2, <3>1, ZenonT(30)
      <4>3. QED
        BY <3>1, <4>1, <4>2, PutFinished, ZenonT(30)
    <3>4. QED
      BY <1>1, <1>2, <2>1, <3>1, <3>3, EndServed, ZenonT(30)
  <2>5. QED
    BY <1>6, <2>3, <2>4
<1>7. QED
  BY <1>4, <1>5, <1>6 DEF StoreManifest, Req

LEMMA ManifestTagged ==
  ASSUME FrontInv, TruthInv, NEW w \in Workers, Watch, TagManifest(w)
  PROVE  TruthInv'
<1> DEFINE r == job[w].req
<1>1. /\ app' = app /\ job[w].at = "tag" /\ Serving(w)
      /\ repo' = [repo EXCEPT !.tags[r.tag] = r.m]
      /\ job' = [job EXCEPT ![w].at = "done", ![w].did = job[w].did \cup {"tag"}, ![w].status = 201]
  BY DEF TagManifest, At, Serving, Req, FrontInv, JobShape
<1>2. /\ r.route = "manifest" /\ r.method = "PUT" /\ r.m \in FrontManifests /\ ~ByTag(r)
      /\ r.tag \in FrontTags /\ job[w].errs \in Seq(ErrorNames) /\ \E s \in seen[w] : r.m \in s.revs
  BY <1>1, ServingFacts, ZenonT(30) DEF StepOf, Underway, ByTag, PutSteps, Asked
<1>4. repo'.tags[r.tag] = r.m /\ RepoTypes'
  BY <1>1, <1>2 DEF FrontInv, RepoShape, TruthInv, RepoTypes
<1>5. /\ Apart(w) /\ job'[w].at = "done" /\ job'[w].req = r /\ job'[w].errs = job[w].errs
      /\ job'[w].status = 201
  BY <1>1 DEF FrontInv, JobShape, Apart
<1>6. Finished(app, job'[w], seen[w] \cup {repo'})
  <2>1. \E s \in seen[w] \cup {repo'} : r.m \in s.revs
    BY <1>2
  <2>2. \E s \in seen[w] \cup {repo'} : s.tags[r.tag] = r.m
    BY <1>4
  <2>3. job'[w].req.route = "manifest" /\ job'[w].req.method = "PUT" /\ job'[w].req = r
    BY <1>2, <1>5, ZenonT(30)
  <2>4. \E s \in seen[w] \cup {repo'} : job'[w].req.m \in s.revs
    BY <1>5, <2>1, ZenonT(30)
  <2>5. \E s \in seen[w] \cup {repo'} : s.tags[job'[w].req.tag] = job'[w].req.m
    BY <2>2, <2>3
  <2>6. QED
    BY <1>5, <2>3, <2>4, <2>5, PutFinished, ZenonT(30)
<1>7. QED
  BY <1>1, <1>2, <1>4, <1>5, <1>6, EndServed, ZenonT(30)

LEMMA ManifestUntagged ==
  ASSUME FrontInv, TruthInv, NEW w \in Workers, Watch, UntagManifest(w)
  PROVE  TruthInv'
<1> DEFINE r == job[w].req
<1>1. app' = app /\ job[w].at = "untag" /\ Serving(w)
  BY DEF UntagManifest, At, Serving
<1>2. /\ r.route = "manifest" /\ r.method = "DELETE" /\ ~ByTag(r) /\ r.tag \in FrontTags /\ r.tag # NoTag
      /\ job[w].did = {} /\ job[w].errs \in Seq(ErrorNames)
  BY <1>1, ServingFacts, ZenonT(30) DEF StepOf, Underway, ByTag, DeleteSteps, Asked
<1>3. /\ 202 \in Described(r.route, r.method) /\ 404 \in Described(r.route, r.method)
      /\ 405 \in Described(r.route, r.method)
  BY <1>2, TableDelete
<1>4. CASE FailsWith(w, <<"UNSUPPORTED">>) /\ repo' = repo
  BY <1>1, <1>2, <1>3, <1>4, UnsupportedServed, ZenonT(30)
<1>5. CASE FailsWith(w, <<"MANIFEST_UNKNOWN">>) /\ repo' = repo
  BY <1>1, <1>2, <1>3, <1>5, NotFoundServed, ZenonT(30)
<1>6. CASE /\ repo' = [repo EXCEPT !.tags[r.tag] = Nothing]
           /\ job' = [job EXCEPT ![w].at = "done", ![w].did = {"untag"}, ![w].status = 202]
  <2>1. repo'.tags[r.tag] = Nothing /\ RepoTypes'
    BY <1>2, <1>6 DEF FrontInv, RepoShape, TruthInv, RepoTypes
  <2>2. /\ Apart(w) /\ job'[w].at = "done" /\ job'[w].req = r /\ job'[w].errs = job[w].errs
        /\ job'[w].status = 202
    BY <1>6 DEF FrontInv, JobShape, Apart
  <2>3. Finished(app, job'[w], seen[w] \cup {repo'})
    <3>1. job'[w].req.method = "DELETE" /\ job'[w].req.tag # NoTag
      BY <1>2, <2>2, ZenonT(30)
    <3>2. 202 \in Described(job'[w].req.route, job'[w].req.method)
      BY <1>3, <2>2, ZenonT(30)
    <3>3. \E s \in seen[w] \cup {repo'} : s.tags[job'[w].req.tag] = Nothing
      BY <2>1, <2>2, ZenonT(30)
    <3>4. QED
      BY <2>2, <3>1, <3>2, <3>3, DeleteFinished, ZenonT(30)
  <2>4. QED
    BY <1>1, <1>2, <2>1, <2>2, <2>3, EndServed, ZenonT(30)
<1>7. QED
  BY <1>4, <1>5, <1>6 DEF UntagManifest, Req

LEMMA BlobDeleted ==
  ASSUME FrontInv, TruthInv, NEW w \in Workers, Watch, DeleteBlob(w)
  PROVE  TruthInv'
<1> DEFINE r == job[w].req
<1>1. app' = app /\ job[w].at = "deleteBlob" /\ Serving(w)
  BY DEF DeleteBlob, At, Serving
<1>2. /\ r.route = "blob" /\ r.method = "DELETE" /\ ~ByTag(r)
      /\ job[w].did = {} /\ job[w].errs \in Seq(ErrorNames)
  BY <1>1, ServingFacts, ZenonT(30) DEF StepOf, Underway, ByTag
<1>3. /\ 202 \in Described(r.route, r.method) /\ 404 \in Described(r.route, r.method)
      /\ 405 \in Described(r.route, r.method)
  BY <1>2, TableDelete
<1>4. CASE FailsWith(w, <<"UNSUPPORTED">>) /\ repo' = repo
  BY <1>1, <1>2, <1>3, <1>4, UnsupportedServed, ZenonT(30)
<1>5. CASE FailsWith(w, <<"BLOB_UNKNOWN">>) /\ repo' = repo
  BY <1>1, <1>2, <1>3, <1>5, NotFoundServed, ZenonT(30)
<1>6. CASE /\ repo' = [repo EXCEPT !.blob = FALSE]
           /\ job' = [job EXCEPT ![w].at = "done", ![w].did = {"deleteBlob"}, ![w].status = 202]
  <2>1. RepoTypes'
    BY <1>6 DEF FrontInv, RepoShape, TruthInv, RepoTypes
  <2>2. /\ Apart(w) /\ job'[w].at = "done" /\ job'[w].req = r /\ job'[w].errs = job[w].errs
        /\ job'[w].status = 202
    BY <1>6 DEF FrontInv, JobShape, Apart
  <2>3. Finished(app, job'[w], seen[w] \cup {repo'})
    <3>1. job'[w].req.method = "DELETE" /\ job'[w].req.route # "manifest"
      BY <1>2, <2>2
    <3>2. 202 \in Described(job'[w].req.route, job'[w].req.method)
      BY <1>3, <2>2, ZenonT(30)
    <3>3. QED
      BY <2>2, <3>1, <3>2, DeleteFinished, ZenonT(30)
  <2>4. QED
    BY <1>1, <1>2, <2>1, <2>2, <2>3, EndServed, ZenonT(30)
<1>7. QED
  BY <1>4, <1>5, <1>6 DEF DeleteBlob, Req

LEMMA ManifestDeleted ==
  ASSUME FrontInv, TruthInv, NEW w \in Workers, Watch, DeleteManifest(w)
  PROVE  TruthInv'
<1> DEFINE r == job[w].req
<1>1. app' = app /\ job[w].at = "delete" /\ Serving(w)
  BY DEF DeleteManifest, At, Serving
<1>2. /\ r.route = "manifest" /\ r.method = "DELETE" /\ ~ByTag(r) /\ r.tag = NoTag
      /\ job[w].did = {} /\ job[w].errs \in Seq(ErrorNames) /\ job[w].errs = <<>>
  BY <1>1, ServingFacts, ZenonT(30) DEF StepOf, Underway, ByTag, DeleteSteps
<1>3. 404 \in Described(r.route, r.method) /\ 405 \in Described(r.route, r.method)
  BY <1>2, TableDelete
<1>4. CASE FailsWith(w, <<"UNSUPPORTED">>) /\ repo' = repo
  BY <1>1, <1>2, <1>3, <1>4, UnsupportedServed, ZenonT(30)
<1>5. CASE FailsWith(w, <<"MANIFEST_UNKNOWN">>) /\ repo' = repo
  BY <1>1, <1>2, <1>3, <1>5, NotFoundServed, ZenonT(30)
<1>6. CASE /\ r.m \in repo.revs /\ repo' = [repo EXCEPT !.revs = @ \ {r.m}]
           /\ job' = [job EXCEPT ![w].at = "lookup", ![w].did = {"delete"}]
  <2>1. r.m \notin repo'.revs /\ r.m \in FrontManifests /\ RepoTypes'
    BY <1>6 DEF FrontInv, RepoShape, TruthInv, RepoTypes
  <2>2. /\ Apart(w) /\ job'[w].at = "lookup" /\ job'[w].req = r /\ job'[w].errs = job[w].errs
        /\ job'[w].did = {"delete"}
    BY <1>6 DEF FrontInv, JobShape, Apart
  <2>3. StepOf(r, "lookup")
    BY <1>2 DEF StepOf, PutSteps, DeleteSteps
  <2>4. Underway(job'[w], seen[w] \cup {repo'})
    BY <1>2, <2>1, <2>2, ZenonT(30) DEF Underway
  <2>5. QED
    BY <1>1, <1>2, <2>1, <2>2, <2>3, <2>4, GoServed, ZenonT(30)
<1>7. QED
  BY <1>4, <1>5, <1>6 DEF DeleteManifest, Req

\* The steps after the manifest is gone.
LEMMA TagsUntagged ==
  ASSUME FrontInv, TruthInv, NEW w \in Workers, Watch, job[w].at \in {"lookup", "untagAll"},
         app' = app, RepoTypes', Apart(w), job'[w].at = "untagAll", job'[w].req = job[w].req,
         job'[w].did = job[w].did, job'[w].errs \in Seq(ErrorNames),
         job'[w].errs = <<>> =>
            \A t \in FrontTags : t \in job'[w].todo \/ \E s \in seen[w] \cup {repo'} : s.tags[t] # job[w].req.m
  PROVE  TruthInv'
<1> DEFINE r == job[w].req
<1>1. Serving(w)
  BY ZenonT(30) DEF Serving
<1>2. /\ r.route = "manifest" /\ r.method = "DELETE" /\ r.tag = NoTag /\ job[w].did = {"delete"}
      /\ r.m \in FrontManifests /\ \E s \in seen[w] : r.m \notin s.revs
  BY <1>1, ServingFacts, ZenonT(30) DEF StepOf, Underway, DeleteSteps
<1>3. StepOf(r, "untagAll")
  BY <1>2 DEF StepOf, PutSteps, DeleteSteps
<1>4. Underway(job'[w], seen[w] \cup {repo'})
  BY <1>2, ZenonT(30) DEF Underway
<1>5. QED
  BY <1>1, <1>3, <1>4, GoServed, ZenonT(30)

LEMMA TagsLookedUp ==
  ASSUME FrontInv, TruthInv, NEW w \in Workers, Watch, LookupTags(w)
  PROVE  TruthInv'
<1> DEFINE r == job[w].req
           named == {t \in FrontTags : repo.tags[t] = r.m}
<1>1. /\ app' = app /\ repo' = repo /\ job[w].at = "lookup" /\ Serving(w)
      /\ job' = [job EXCEPT ![w].at = "untagAll", ![w].todo = named]
  BY DEF LookupTags, Keeps, At, Serving, Req
<1>2. /\ Apart(w) /\ job'[w].at = "untagAll" /\ job'[w].req = r /\ job'[w].errs = job[w].errs
      /\ job'[w].did = job[w].did /\ job'[w].todo = named
  BY <1>1 DEF FrontInv, JobShape, Apart
<1>3. RepoTypes' /\ job[w].errs \in Seq(ErrorNames)
  BY <1>1, ServingFacts DEF TruthInv, RepoTypes
<1>4. \A t \in FrontTags : t \in job'[w].todo \/ \E s \in seen[w] \cup {repo'} : s.tags[t] # r.m
  BY <1>1, <1>2, ZenonT(30)
<1>5. QED
  BY <1>1, <1>2, <1>3, <1>4, TagsUntagged, ZenonT(30)

LEMMA OneUntagged ==
  ASSUME FrontInv, TruthInv, NEW w \in Workers, Watch, NEW t \in FrontTags, UntagOne(w, t) \/ UntagOneFails(w, t)
  PROVE  TruthInv'
<1> DEFINE r == job[w].req
<1>1. app' = app /\ job[w].at = "untagAll" /\ Serving(w)
  BY DEF UntagOne, UntagOneFails, At, Serving
<1>2. job[w].errs \in Seq(ErrorNames) /\ r.m \in FrontManifests
  BY <1>1, ServingFacts, ZenonT(30) DEF Underway
<1>3. ASSUME NEW e \in ErrorNames, repo' = repo,
             job' = [job EXCEPT ![w].todo = job[w].todo \ {t}, ![w].errs = Append(job[w].errs, e)]
      PROVE  TruthInv'
  <2>1. /\ Apart(w) /\ job'[w].at = "untagAll" /\ job'[w].req = r /\ job'[w].did = job[w].did
        /\ job'[w].errs = Append(job[w].errs, e)
    BY <1>1, <1>3 DEF FrontInv, JobShape, Apart
  <2>2. job'[w].errs \in Seq(ErrorNames) /\ job'[w].errs # <<>>
    BY <1>2, <2>1
  <2>3. RepoTypes'
    BY <1>3 DEF TruthInv, RepoTypes
  <2>4. QED
    BY <1>1, <2>1, <2>2, <2>3, TagsUntagged, ZenonT(30)
<1>4. CASE /\ repo' = [repo EXCEPT !.tags[t] = Nothing]
           /\ job' = [job EXCEPT ![w].todo = job[w].todo \ {t}]
  <2>1. /\ Apart(w) /\ job'[w].at = "untagAll" /\ job'[w].req = r /\ job'[w].errs = job[w].errs
        /\ job'[w].did = job[w].did /\ job'[w].todo = job[w].todo \ {t}
    BY <1>1, <1>4 DEF FrontInv, JobShape, Apart
  <2>2. repo'.tags[t] = Nothing /\ RepoTypes'
    BY <1>4 DEF FrontInv, RepoShape, TruthInv, RepoTypes
  <2>3. repo'.tags[t] # r.m
    BY <1>2, <2>2, FrontAssumption, ZenonT(30)
  <2>4. job[w].errs = <<>> => \A x \in FrontTags : x \in job[w].todo \/ \E s \in seen[w] : s.tags[x] # r.m
    BY <1>1, ServingFacts, ZenonT(30) DEF Underway
  <2>5. job'[w].errs = <<>> =>
          \A x \in FrontTags : x \in job'[w].todo \/ \E s \in seen[w] \cup {repo'} : s.tags[x] # r.m
    BY <2>1, <2>3, <2>4, ZenonT(30)
  <2>6. QED
    BY <1>1, <1>2, <2>1, <2>2, <2>5, TagsUntagged, ZenonT(30)
<1>5. "PathNotFound" \in ErrorNames /\ "StorageError" \in ErrorNames
  BY DEF ErrorNames
<1>6. w \in DOMAIN job /\ {"todo", "errs"} \subseteq DOMAIN job[w]
  BY DEF FrontInv, JobShape
<1>7. CASE UntagOne(w, t)
  BY <1>3, <1>4, <1>5, <1>6, <1>7, ZenonT(30) DEF UntagOne
<1>8. CASE UntagOneFails(w, t)
  BY <1>3, <1>5, <1>6, <1>8, ZenonT(30) DEF UntagOneFails
<1>9. QED
  BY <1>7, <1>8

LEMMA DeleteEnded ==
  ASSUME FrontInv, TruthInv, NEW w \in Workers, Watch, DeleteEnds(w)
  PROVE  TruthInv'
<1> DEFINE r == job[w].req
<1>1. /\ app' = app /\ repo' = repo /\ job[w].at = "untagAll" /\ Serving(w) /\ job[w].todo = {}
      /\ Answers(w, 202)
  BY DEF DeleteEnds, Keeps, At, Serving
<1>2. /\ r.route = "manifest" /\ r.method = "DELETE" /\ ~ByTag(r) /\ r.tag = NoTag
      /\ repo \in seen[w] /\ job[w].errs \in Seq(ErrorNames) /\ \E s \in seen[w] : r.m \notin s.revs
      /\ job[w].errs = <<>> => \A t \in FrontTags : \E s \in seen[w] : s.tags[t] # r.m
  BY <1>1, ServingFacts, ZenonT(30) DEF StepOf, Underway, ByTag, DeleteSteps
<1>3. 202 \in Described(r.route, r.method)
  BY <1>2, TableDelete
<1>4. Apart(w) /\ Ended(w, job[w].errs, 202)
  BY <1>1, EndFields, ZenonT(30) DEF FrontInv
<1>5. RepoTypes' /\ seen[w] \cup {repo'} = seen[w]
  BY <1>1, <1>2 DEF TruthInv, RepoTypes
<1>6. job'[w].req = r /\ job'[w].errs = job[w].errs /\ job'[w].status = 202 /\ job'[w].at = "done"
  BY <1>4, SMTT(30) DEF Ended
<1>7. Finished(app, job'[w], seen[w])
  <2>1. job'[w].status \in Nat /\ job'[w].status \notin 400..499
    BY <1>6
  <2>2. job'[w].status \in Described(job'[w].req.route, job'[w].req.method) \cup Besides(app, job'[w].req)
    BY <1>3, <1>6
  <2>3. ~ByTag(job'[w].req) /\ job'[w].req.method # "PUT" /\ job'[w].req.tag = NoTag
    BY <1>2, <1>6
  <2>4. /\ \E s \in seen[w] : job'[w].req.m \notin s.revs
        /\ job'[w].errs = <<>> => \A t \in FrontTags : \E s \in seen[w] : s.tags[t] # job'[w].req.m
    BY <1>2, <1>6
  <2>5. QED
    BY <2>1, <2>2, <2>3, <2>4, ZenonT(30) DEF Finished
<1>8. QED
  BY <1>1, <1>2, <1>4, <1>5, <1>6, <1>7, EndServed, ZenonT(30)

\* A status the dispatcher may refuse a request with.
Refusal(r, status) ==
    status \in {400, 401, 405, 500} /\ status \in Described(r.route, r.method) \cup Besides(app, r)

\* A request comes in.
LEMMA OneArrives ==
  ASSUME FrontInv, TruthInv, NEW w \in Workers, Watch, NEW r \in Requests[app], NEW at, NEW errs, NEW status,
         Arrived(w, r, at, errs, status), errs \in Seq(ErrorNames),
         (at = "done" /\ Refusal(r, status)) \/ (at = Handler(r) /\ errs = <<>>)
  PROVE  TruthInv'
<1>1. /\ app' = app /\ repo' = repo /\ ~Serving(w)
      /\ job' = [job EXCEPT ![w] = [IdleJob EXCEPT !.req = r, !.at = at, !.errs = errs, !.status = status]]
  BY DEF Arrived, Serving
<1>2. /\ Apart(w) /\ job'[w].req = r /\ job'[w].at = at /\ job'[w].errs = errs
      /\ job'[w].status = status /\ job'[w].did = {}
  BY <1>1 DEF FrontInv, JobShape, IdleJob, Apart
<1>3. Asked(r)
  BY FrontAssumption, ZenonT(30) DEF FrontInv, Asked
<1>4. ASSUME at = "done" PROVE JobInv(app, job'[w], {repo})
  <2>1. status \in {400, 401, 405, 500} /\ status \in Described(r.route, r.method) \cup Besides(app, r)
    BY <1>3, <1>4 DEF Asked, Handler, Refusal
  <2>2. status \in Nat /\ status \notin Succeeds /\ status \notin {200, 304, 404}
    <3>1. \A n \in {400, 401, 405, 500} : n \in Nat /\ n \notin 200..399 /\ n \notin {200, 304, 404}
      OBVIOUS
    <3>2. QED
      BY <2>1, <3>1 DEF Succeeds
  <2>3. Finished(app, job'[w], {repo})
    BY <1>2, <2>1, <2>2, ZenonT(30) DEF Finished
  <2>4. StepOf(r, "done")
    BY DEF StepOf, PutSteps, DeleteSteps
  <2>5. QED
    BY <1>2, <1>3, <1>4, <2>3, <2>4 DEF JobInv
<1>5. ASSUME at = Handler(r), errs = <<>> PROVE JobInv(app, job'[w], {repo})
  <2>1. /\ StepOf(r, at)
        /\ at \notin {"idle", "done", "get", "getDefault", "tag", "lookup", "untagAll"}
    BY <1>3, <1>5 DEF Asked, Handler, StepOf, PutSteps, DeleteSteps
  <2>2. Underway(job'[w], {repo})
    BY <1>2, <1>5, <2>1, ZenonT(30) DEF Underway
  <2>3. QED
    BY <1>2, <1>3, <2>1, <2>2 DEF JobInv
<1>6. ASSUME NEW v \in Workers
      PROVE  JobInv(app, job'[v], seen'[v]) /\ (job'[v].at \notin {"idle", "done"} => repo' \in seen'[v])
  <2>1. CASE v = w /\ job'[w] # job[w]
    <3>1. seen'[w] = {repo}
      BY <1>1, <2>1 DEF Watch, Serving
    <3>2. JobInv(app, job'[w], {repo})
      BY <1>4, <1>5
    <3>3. QED
      BY <1>1, <2>1, <3>1, <3>2
  <2>2. CASE ~Serving(v) /\ job'[v] = job[v]
    <3>1. seen'[v] = seen[v]
      BY <2>2 DEF Watch, Serving
    <3>2. QED
      BY <2>2, <3>1 DEF TruthInv, Serving
  <2>3. CASE v # w /\ Serving(v)
    <3>1. seen'[v] = seen[v] \cup {repo'} /\ job'[v] = job[v]
      BY <1>2, <2>3 DEF Watch, Serving, Apart
    <3>2. JobInv(app, job[v], seen'[v])
      BY <3>1, MoreSeen DEF TruthInv
    <3>3. QED
      BY <3>1, <3>2
  <2>4. QED
    BY <1>1, <1>2, <2>1, <2>2, <2>3 DEF Apart
<1>7. QED
  BY <1>1, <1>6 DEF TruthInv, RepoTypes, Serving

LEMMA OneRefused ==
  ASSUME FrontInv, TruthInv, NEW w \in Workers, Watch, NEW r \in Requests[app], NEW errs, NEW status,
         Arrived(w, r, "done", errs, status), errs \in Seq(ErrorNames), Refusal(r, status)
  PROVE  TruthInv'
BY OneArrives

LEMMA RequestArrived ==
  ASSUME FrontInv, TruthInv, NEW w \in Workers, Watch, NEW r \in Requests[app],
         dispatcher(w, r) \/ dispatcherFails(w, r)
  PROVE  TruthInv'
<1>1. /\ <<"UNAUTHORIZED">> \in Seq(ErrorNames) /\ ServeJSON(<<"UNAUTHORIZED">>) = 401
      /\ <<"ErrRepositoryNameInvalid">> \in Seq(ErrorNames) /\ ServeJSON(<<"ErrRepositoryNameInvalid">>) = 500
      /\ <<>> \in Seq(ErrorNames) /\ ServeJSON(<<>>) = 500
  BY Failures DEF Failure
<1>2. Asked(r)
  BY FrontAssumption DEF FrontInv, Asked
<1>3. (~authorized(r) => Refusal(r, 401)) /\ (app.accessController => Refusal(r, 400)) /\ Refusal(r, 500)
  BY DEF authorized, Besides, Refusal
<1>4. ~MethodAllowed(r) => Refusal(r, 405)
  BY <1>2, Table DEF MethodAllowed, Asked, Refusal
<1>5. CASE dispatcher(w, r)
  <2>1. \/ ~authorized(r) /\ Arrived(w, r, "done", <<"UNAUTHORIZED">>, 401)
        \/ Arrived(w, r, "done", <<"ErrRepositoryNameInvalid">>, 500)
        \/ ~MethodAllowed(r) /\ Arrived(w, r, "done", <<>>, 405)
        \/ Arrived(w, r, Handler(r), <<>>, 0)
    <3>1. \/ ~authorized(r) /\ Arrived(w, r, "done", <<"UNAUTHORIZED">>, ServeJSON(<<"UNAUTHORIZED">>))
          \/ Arrived(w, r, "done", <<"ErrRepositoryNameInvalid">>, ServeJSON(<<"ErrRepositoryNameInvalid">>))
          \/ ~MethodAllowed(r) /\ Arrived(w, r, "done", <<>>, 405)
          \/ Arrived(w, r, Handler(r), <<>>, 0)
      BY <1>5 DEF dispatcher
    <3>2. QED
      BY <1>1, <3>1
  <2>2. CASE ~authorized(r) /\ Arrived(w, r, "done", <<"UNAUTHORIZED">>, 401)
    <3>1. Arrived(w, r, "done", <<"UNAUTHORIZED">>, 401)
      BY <2>2
    <3>2. Refusal(r, 401)
      BY <1>3, <2>2
    <3>3. <<"UNAUTHORIZED">> \in Seq(ErrorNames)
      BY <1>1
    <3>4. QED
      BY <3>1, <3>2, <3>3, OneRefused, ZenonT(30)
  <2>3. CASE Arrived(w, r, "done", <<"ErrRepositoryNameInvalid">>, 500)
    <3>1. Arrived(w, r, "done", <<"ErrRepositoryNameInvalid">>, 500)
      BY <2>3
    <3>2. Refusal(r, 500)
      BY <1>3
    <3>3. <<"ErrRepositoryNameInvalid">> \in Seq(ErrorNames)
      BY <1>1
    <3>4. QED
      BY <3>1, <3>2, <3>3, OneRefused, ZenonT(30)
  <2>4. CASE ~MethodAllowed(r) /\ Arrived(w, r, "done", <<>>, 405)
    <3>1. Arrived(w, r, "done", <<>>, 405)
      BY <2>4
    <3>2. Refusal(r, 405)
      BY <1>4, <2>4
    <3>3. <<>> \in Seq(ErrorNames)
      BY <1>1
    <3>4. QED
      BY <3>1, <3>2, <3>3, OneRefused, ZenonT(30)
  <2>5. CASE Arrived(w, r, Handler(r), <<>>, 0)
    BY <1>1, <2>5, OneArrives, ZenonT(30)
  <2>6. QED
    BY <2>1, <2>2, <2>3, <2>4, <2>5
<1>6. CASE dispatcherFails(w, r)
  <2>1. \/ app.accessController /\ Arrived(w, r, "done", <<>>, 400)
        \/ Arrived(w, r, "done", <<>>, 500)
    BY <1>1, <1>6 DEF dispatcherFails
  <2>2. CASE app.accessController /\ Arrived(w, r, "done", <<>>, 400)
    <3>1. Arrived(w, r, "done", <<>>, 400)
      BY <2>2
    <3>2. Refusal(r, 400)
      BY <1>3, <2>2
    <3>3. <<>> \in Seq(ErrorNames)
      BY <1>1
    <3>4. QED
      BY <3>1, <3>2, <3>3, OneRefused, ZenonT(30)
  <2>3. CASE Arrived(w, r, "done", <<>>, 500)
    <3>1. Arrived(w, r, "done", <<>>, 500)
      BY <2>3
    <3>2. Refusal(r, 500)
      BY <1>3
    <3>3. <<>> \in Seq(ErrorNames)
      BY <1>1
    <3>4. QED
      BY <3>1, <3>2, <3>3, OneRefused, ZenonT(30)
  <2>4. QED
    BY <2>1, <2>2, <2>3
<1>7. QED
  BY <1>5, <1>6

LEMMA TruthInvStep == FrontInv /\ TruthInv /\ [FrontNext]_frontVars => TruthInv'
<1> SUFFICES ASSUME FrontInv, TruthInv, [FrontNext]_frontVars PROVE TruthInv'
  OBVIOUS
<1>1. ASSUME NEW w \in Workers, WorkerStep(w), Watch PROVE TruthInv'
  BY <1>1, RequestArrived, TagResolved, DigestResolved, ManifestGot, DefaultGot, ManifestRead, ManifestStored,
     ManifestTagged, ManifestUntagged, ManifestDeleted, TagsLookedUp, DeleteEnded, OneUntagged, BlobGot,
     BlobDeleted, ListingGot, CallFailed, ZenonT(30) DEF WorkerStep
<1>2. CASE UNCHANGED frontVars
  BY <1>2 DEF frontVars, TruthInv, RepoTypes, Serving
<1>3. QED
  BY <1>1, <1>2 DEF FrontNext

-----------------------------------------------------------------------------
\* The client is told of no error exactly when the status is a success, and of a refusal only
\* when the status is one of the client's errors.
LEMMA ToldOf ==
  ASSUME NEW j, j.status \in Nat, j.errs \in Seq(ErrorNames)
  PROVE  /\ HandleHTTPResponseError(j) = {} <=> j.status \in Succeeds
         /\ HandleHTTPResponseError(j) \cap {"DENIED", "UNSUPPORTED", "UNAUTHORIZED"} # {} => j.status \in 400..499
<1>1. CASE j.status \in 200..399
  <2>1. HandleHTTPResponseError(j) = {}
    BY <1>1 DEF HandleHTTPResponseError
  <2>2. QED
    BY <1>1, <2>1 DEF Succeeds
<1>2. CASE j.status \notin 200..399 /\ j.status \in 400..499
  <2>1. HandleHTTPResponseError(j) = challengeError(j) \cup parseHTTPErrorResponse(j)
    BY <1>2 DEF HandleHTTPResponseError
  <2>2. parseHTTPErrorResponse(j) # {}
    <3>1. CASE j.errs = <<>>
      BY <3>1 DEF parseHTTPErrorResponse
    <3>2. CASE j.errs # <<>>
      <4>1. 1 \in DOMAIN j.errs
        BY <3>2
      <4>2. ParseErrorCode(j.errs[1]) \in parseHTTPErrorResponse(j)
        BY <3>2, <4>1 DEF parseHTTPErrorResponse
      <4>3. QED
        BY <4>2
    <3>3. QED
      BY <3>1, <3>2
  <2>3. QED
    BY <1>2, <2>1, <2>2 DEF Succeeds
<1>3. CASE j.status \notin 200..399 /\ j.status \notin 400..499
  <2>1. HandleHTTPResponseError(j) = {"UnexpectedHTTPStatus"}
    BY <1>3 DEF HandleHTTPResponseError
  <2>2. QED
    BY <1>3, <2>1, ZenonT(30) DEF Succeeds
<1>4. QED
  BY <1>1, <1>2, <1>3, ZenonT(30)

\* What the invariant says of a request that has been answered.
LEMMA Answered ==
  ASSUME TruthInv, NEW w \in Workers, At(w, "done")
  PROVE  Finished(app, job[w], seen[w]) /\ job[w].status \in Nat /\ job[w].errs \in Seq(ErrorNames)
<1>1. JobInv(app, job[w], seen[w]) /\ job[w].at = "done"
  BY DEF TruthInv, At
<1>2. Finished(app, job[w], seen[w]) /\ job[w].errs \in Seq(ErrorNames)
  BY <1>1, ZenonT(30) DEF JobInv
<1>3. job[w].status \in Nat
  BY <1>2, ZenonT(30) DEF Finished
<1>4. QED
  BY <1>2, <1>3

LEMMA DescribedHolds == TruthInv => ResponseDescribed
<1> SUFFICES ASSUME TruthInv, NEW w \in Workers, At(w, "done")
             PROVE  job[w].status \in Described(Req(w).route, Req(w).method) \cup Undescribed(Req(w))
  BY DEF ResponseDescribed
<1>1. Finished(app, job[w], seen[w])
  BY Answered
<1>2. job[w].status \in Described(Req(w).route, Req(w).method) \cup Besides(app, Req(w))
  BY <1>1, ZenonT(30) DEF Finished, Req
<1>3. Besides(app, Req(w)) = Undescribed(Req(w))
  BY DEF Besides, Undescribed
<1>4. QED
  BY <1>2, <1>3

\* The sets of ManifestAtInstant, for a request r and the states S since it came.
Held(r, S) == {s.tags[r.tag] : s \in S}
FromList(r, S) == {b \in Held(r, S) \ {Nothing} : IsList(b) /\ MediaType[b] = "list" /\ "list" \notin r.accept}
Known(S) == UNION {s.revs : s \in S}
Always(S) == {m \in FrontManifests : \A s \in S : m \in s.revs}

LEMMA InstantSets ==
  ASSUME NEW r, NEW S, NEW s \in S
  PROVE  /\ s.tags[r.tag] \in Held(r, S)
         /\ Replaced(r, s.tags[r.tag]) => s.tags[r.tag] \in FromList(r, S)
         /\ \A m \in s.revs : m \in Known(S)
         /\ \A m : m \notin s.revs => m \notin Always(S)
<1>1. s.tags[r.tag] \in Held(r, S)
  BY DEF Held
<1>2. Replaced(r, s.tags[r.tag]) => s.tags[r.tag] \in FromList(r, S)
  BY <1>1 DEF Replaced, FromList
<1>3. \A m \in s.revs : m \in Known(S)
  BY DEF Known
<1>4. \A m : m \notin s.revs => m \notin Always(S)
  BY DEF Always
<1>5. QED
  BY <1>1, <1>2, <1>3, <1>4

LEMMA ServedThen ==
  ASSUME NEW r, NEW m, NEW S, Served(r, m, S)
  PROVE  /\ m \in Known(S)
         /\ \/ m \in Held(r, S) /\ (MediaType[m] \in {"oci", "index"} => MediaType[m] \in r.accept)
            \/ \E b \in FromList(r, S) : m = DefaultPlatform[b]
<1>1. m \in Known(S)
  BY InstantSets, ZenonT(30) DEF Served
<1>2. PICK s \in S : \/ s.tags[r.tag] = m /\ (MediaType[m] \in {"oci", "index"} => MediaType[m] \in r.accept)
                     \/ Replaced(r, s.tags[r.tag]) /\ m = DefaultPlatform[s.tags[r.tag]]
  BY DEF Served
<1>3. s.tags[r.tag] \in Held(r, S) /\ (Replaced(r, s.tags[r.tag]) => s.tags[r.tag] \in FromList(r, S))
  BY InstantSets
<1>4. QED
  BY <1>1, <1>2, <1>3

LEMMA UnknownThen ==
  ASSUME NEW r, NEW S, Unknown(r, S)
  PROVE  \/ Nothing \in Held(r, S)
         \/ \E b \in Held(r, S) : b \notin Always(S)
         \/ \E b \in FromList(r, S) : DefaultPlatform[b] \notin Always(S)
         \/ \E b \in Held(r, S) : MediaType[b] \in {"oci", "index"} \ r.accept
<1>1. PICK s \in S : \/ s.tags[r.tag] = Nothing
                     \/ \E x \in S : s.tags[r.tag] \notin x.revs
                     \/ Replaced(r, s.tags[r.tag]) /\ \E x \in S : DefaultPlatform[s.tags[r.tag]] \notin x.revs
                     \/ MediaType[s.tags[r.tag]] \in {"oci", "index"} \ r.accept
  BY ZenonT(30) DEF Unknown
<1>2. s.tags[r.tag] \in Held(r, S) /\ (Replaced(r, s.tags[r.tag]) => s.tags[r.tag] \in FromList(r, S))
  BY InstantSets
<1>3. \A x \in S : \A m : m \notin x.revs => m \notin Always(S)
  BY InstantSets
<1>4. QED
  BY <1>1, <1>2, <1>3, ZenonT(30)

LEMMA HeldThen ==
  ASSUME NEW r, NEW S, \E s \in S : s.tags[r.tag] = r.etag
  PROVE  r.etag \in Held(r, S)
BY DEF Held

LEMMA InstantHolds == TruthInv => ManifestAtInstant
<1> SUFFICES ASSUME TruthInv, NEW w \in Workers, Done(w, "manifest", "GET"), job[w].req.tag # NoTag
             PROVE  /\ job[w].status = 200 =>
                          /\ job[w].digest \in Known(seen[w])
                          /\ \/ job[w].digest \in Held(job[w].req, seen[w])
                                /\ (MediaType[job[w].digest] \in {"oci", "index"}
                                    => MediaType[job[w].digest] \in job[w].req.accept)
                             \/ \E b \in FromList(job[w].req, seen[w]) : job[w].digest = DefaultPlatform[b]
                    /\ job[w].status = 304 => job[w].req.etag \in Held(job[w].req, seen[w])
                    /\ job[w].status = 404 =>
                          \/ Nothing \in Held(job[w].req, seen[w])
                          \/ \E b \in Held(job[w].req, seen[w]) : b \notin Always(seen[w])
                          \/ \E b \in FromList(job[w].req, seen[w]) : DefaultPlatform[b] \notin Always(seen[w])
                          \/ \E b \in Held(job[w].req, seen[w]) : MediaType[b] \in {"oci", "index"} \ job[w].req.accept
  BY ZenonT(30) DEF ManifestAtInstant, Held, FromList, Known, Always, Req
<1>1. Finished(app, job[w], seen[w]) /\ ByTag(job[w].req)
  BY Answered, ZenonT(30) DEF Done, Handles, ByTag, Req
<1>2. /\ job[w].status = 200 => Served(job[w].req, job[w].digest, seen[w])
      /\ job[w].status = 304 => \E s \in seen[w] : s.tags[job[w].req.tag] = job[w].req.etag
      /\ job[w].status = 404 => Unknown(job[w].req, seen[w])
  BY <1>1, ZenonT(30) DEF Finished
<1>3. job[w].status = 200 =>
        /\ job[w].digest \in Known(seen[w])
        /\ \/ job[w].digest \in Held(job[w].req, seen[w])
              /\ (MediaType[job[w].digest] \in {"oci", "index"} => MediaType[job[w].digest] \in job[w].req.accept)
           \/ \E b \in FromList(job[w].req, seen[w]) : job[w].digest = DefaultPlatform[b]
  <2> HAVE job[w].status = 200
  <2>1. Served(job[w].req, job[w].digest, seen[w])
    BY <1>2
  <2>2. QED
    BY <2>1, ServedThen
<1>4. job[w].status = 304 => job[w].req.etag \in Held(job[w].req, seen[w])
  <2> HAVE job[w].status = 304
  <2>1. \E s \in seen[w] : s.tags[job[w].req.tag] = job[w].req.etag
    BY <1>2
  <2>2. QED
    BY <2>1, HeldThen
<1>5. job[w].status = 404 =>
        \/ Nothing \in Held(job[w].req, seen[w])
        \/ \E b \in Held(job[w].req, seen[w]) : b \notin Always(seen[w])
        \/ \E b \in FromList(job[w].req, seen[w]) : DefaultPlatform[b] \notin Always(seen[w])
        \/ \E b \in Held(job[w].req, seen[w]) : MediaType[b] \in {"oci", "index"} \ job[w].req.accept
  <2> HAVE job[w].status = 404
  <2>1. Unknown(job[w].req, seen[w])
    BY <1>2
  <2>2. QED
    BY <2>1, UnknownThen
<1>6. QED
  BY <1>3, <1>4, <1>5, ZenonT(30)

LEMMA TruthHolds == TruthInv => ClientToldTruth
<1> SUFFICES ASSUME TruthInv, NEW w \in Workers, At(w, "done")
             PROVE  LET r == Req(w)
                        did == job[w].did
                    IN /\ Done(w, "manifest", "PUT") =>
                             IF Told(w) = {} THEN /\ \E s \in seen[w] : r.m \in s.revs
                                                  /\ r.tag # NoTag => \E s \in seen[w] : s.tags[r.tag] = r.m
                             ELSE "tag" \notin did
                       /\ Done(w, "manifest", "DELETE") /\ Told(w) = {} =>
                             IF r.tag # NoTag THEN \E s \in seen[w] : s.tags[r.tag] = Nothing
                             ELSE /\ \E s \in seen[w] : r.m \notin s.revs
                                  /\ job[w].errs = <<>> =>
                                        \A t \in FrontTags : \E s \in seen[w] : s.tags[t] # r.m
                       /\ Told(w) \cap {"DENIED", "UNSUPPORTED", "UNAUTHORIZED"} # {} => did = {}
  BY ZenonT(30) DEF ClientToldTruth
<1>1. Finished(app, job[w], seen[w])
  BY Answered
<1>2. /\ Told(w) = {} <=> job[w].status \in Succeeds
      /\ Told(w) \cap {"DENIED", "UNSUPPORTED", "UNAUTHORIZED"} # {} => job[w].status \in 400..499
  BY Answered, ToldOf, ZenonT(30) DEF Told
<1>3. Done(w, "manifest", "PUT") =>
        IF Told(w) = {} THEN /\ \E s \in seen[w] : Req(w).m \in s.revs
                             /\ Req(w).tag # NoTag => \E s \in seen[w] : s.tags[Req(w).tag] = Req(w).m
        ELSE "tag" \notin job[w].did
  <2>1. Req(w).method = "PUT" =>
          IF job[w].status \in Succeeds
            THEN /\ \E s \in seen[w] : Req(w).m \in s.revs
                 /\ Req(w).tag # NoTag => \E s \in seen[w] : s.tags[Req(w).tag] = Req(w).m
            ELSE "tag" \notin job[w].did
    BY <1>1, ZenonT(30) DEF Finished, Req
  <2>2. QED
    BY <1>2, <2>1, ZenonT(30) DEF Done, Handles
<1>4. Done(w, "manifest", "DELETE") /\ Told(w) = {} =>
        IF Req(w).tag # NoTag THEN \E s \in seen[w] : s.tags[Req(w).tag] = Nothing
        ELSE /\ \E s \in seen[w] : Req(w).m \notin s.revs
             /\ job[w].errs = <<>> => \A t \in FrontTags : \E s \in seen[w] : s.tags[t] # Req(w).m
  <2>1. Req(w).method = "DELETE" /\ Req(w).route = "manifest" /\ job[w].status \in Succeeds =>
          IF Req(w).tag # NoTag THEN \E s \in seen[w] : s.tags[Req(w).tag] = Nothing
          ELSE /\ \E s \in seen[w] : Req(w).m \notin s.revs
               /\ job[w].errs = <<>> => \A t \in FrontTags : \E s \in seen[w] : s.tags[t] # Req(w).m
    BY <1>1, ZenonT(30) DEF Finished, Req
  <2>2. QED
    BY <1>2, <2>1, SMTT(30) DEF Done, Handles
<1>5. Told(w) \cap {"DENIED", "UNSUPPORTED", "UNAUTHORIZED"} # {} => job[w].did = {}
  BY <1>1, <1>2, ZenonT(30) DEF Finished
<1>6. QED
  BY <1>3, <1>4, <1>5, ZenonT(30)

\* Whatever fails, and however the requests in progress interleave, the status of every answer is
\* one the table of the API has for its route and method, or one of the few undescribed ones.
THEOREM FrontResponses == FrontSpec => []ResponseDescribed
BY FrontInvInit, FrontInvStep, TruthInvInit, TruthInvStep, DescribedHolds, PTL DEF FrontSpec

\* A manifest asked for by tag is answered as some state of the repository since the request came
\* would have it, although GetManifest reads the tag, the manifest and the image of a list in
\* separate calls, between which other requests put, move and delete.
THEOREM FrontInstants == FrontSpec => []ManifestAtInstant
BY FrontInvInit, FrontInvStep, TruthInvInit, TruthInvStep, InstantHolds, PTL DEF FrontSpec

\* What the client is told of a PUT or DELETE of a manifest is what happened, although the handler
\* does it in several calls and may fail between them.
THEOREM FrontTruth == FrontSpec => []ClientToldTruth
BY FrontInvInit, FrontInvStep, TruthInvInit, TruthInvStep, TruthHolds, PTL DEF FrontSpec
=============================================================================
