----------------------------- MODULE ClientPull -----------------------------
(***************************************************************************)
(* The calls of the registry client, internal/client/repository.go, that   *)
(* list, look up, fetch, store and remove manifests and tags, made while   *)
(* others change the registry it talks to.                                 *)
(*                                                                         *)
(* Names of tags and of repositories are numbers, in lexical order; a      *)
(* manifest is its digest.  The remote registry answers each request as    *)
(* one step.  What it may do that the client must cope with: answer a      *)
(* listing in pages joined by Link headers, answer a HEAD without the      *)
(* Docker-Content-Digest header, fail.                                     *)
(***************************************************************************)
EXTENDS Naturals, Sequences, SequencesExt, FiniteSets

CONSTANTS MaxName,     \* tags and repositories are named 1..MaxName
          Manifest,    \* digests of manifests
          NoManifest,  \* a tag that is not there
          StartTags,   \* what a tag may point at to begin with
          PageSizes,   \* how many names the remote lists at most, 0: all
          MaxPulls,    \* calls the client makes
          MaxMoves,    \* changes made by others
          MaxPullFaults

VARIABLES remote,      \* [tags, manifests, repos] of the remote registry
          paging,      \* names it lists at most in one answer
          headDigest,  \* its answers to HEAD carry the digest
          etags,       \* the client's manifests.etags
          pull,        \* the call in progress
          span,        \* the states of the remote since the call began
          pulled,      \* the last call and what it returned
          pullsLeft, movesLeft, pullFaults

pullVars == <<remote, paging, headDigest, etags, pull, span, pulled, pullsLeft,
              movesLeft, pullFaults>>

Name == 1..MaxName

NoPull == [kind |-> "none", name |-> 0, man |-> NoManifest, at |-> "none",
           got |-> <<>>, last |-> 0]

NoResult == [kind |-> "none", name |-> 0, man |-> NoManifest, result |-> "none",
             got |-> <<>>, span |-> {}]

PullInit ==
    /\ remote \in [tags : [Name -> StartTags], manifests : {Manifest},
                   repos : {Name, {1}}]
    /\ paging \in PageSizes
    /\ headDigest \in BOOLEAN
    /\ etags = [n \in Name |-> NoManifest]
    /\ pull = NoPull
    /\ span = {}
    /\ pulled = NoResult
    /\ pullsLeft = MaxPulls
    /\ movesLeft = MaxMoves
    /\ pullFaults = MaxPullFaults

(***************************************************************************)
(* The remote registry.                                                    *)
(***************************************************************************)
Tagged(r)  == {n \in Name : r.tags[n] # NoManifest}
Holds(r, n) == r.tags[n] \in r.manifests

WithTag(r, n, m) == [r EXCEPT !.tags[n] = m, !.manifests = @ \cup {m}]

WithoutTag(r, n) == [r EXCEPT !.tags[n] = NoManifest]

\* Deleting a manifest by its digest also removes the tags that point at it.
WithoutManifest(r, m) ==
    [r EXCEPT !.manifests = @ \ {m},
              !.tags = [n \in Name |-> IF @[n] = m THEN NoManifest ELSE @[n]]]

\* Others change what the call in progress looks at; changes between two
\* calls show as changes at the beginning of the second.
OthersMove ==
    /\ pull # NoPull
    /\ movesLeft > 0
    /\ movesLeft' = movesLeft - 1
    /\ IF pull.kind = "repositories"
         THEN \E n \in Name : remote' = [remote EXCEPT !.repos = @ \cup {n}]
         ELSE \/ \E n \in Name, m \in Manifest : remote' = WithTag(remote, n, m)
              \/ \E n \in Name : remote' = WithoutTag(remote, n)
              \/ \E m \in Manifest : remote' = WithoutManifest(remote, m)
    /\ remote' # remote
    /\ span' = span \cup {remote'}
    /\ UNCHANGED <<paging, headDigest, etags, pull, pulled, pullsLeft, pullFaults>>

\* The names of a listing after `last', at most `most' of them.
PageOf(names, last, most) ==
    LET rest == SelectSeq(SetToSortSeq(names, <), LAMBDA n : n > last)
    IN  IF most = 0 THEN rest ELSE SubSeq(rest, 1, IF most < Len(rest) THEN most ELSE Len(rest))

Listed(kind, r) == IF kind = "all" THEN Tagged(r) ELSE r.repos

(***************************************************************************)
(* The client.  A call begins, makes its requests, and returns.            *)
(***************************************************************************)
Begin(kind, name, man, at) ==
    /\ pull = NoPull
    /\ pullsLeft > 0
    /\ pullsLeft' = pullsLeft - 1
    /\ pull' = [NoPull EXCEPT !.kind = kind, !.name = name, !.man = man, !.at = at]
    /\ span' = {remote}
    /\ pulled' = NoResult
    /\ UNCHANGED <<remote, paging, headDigest, movesLeft, pullFaults>>

\* The call returns; `during' are the states of the remote it met.
Returns(result, man, got, during) ==
    /\ pulled' = [kind |-> pull.kind, name |-> pull.name, man |-> man,
                  result |-> result, got |-> got, span |-> during]
    /\ pull' = NoPull

Fails ==
    /\ pull # NoPull
    /\ pullFaults > 0
    /\ pullFaults' = pullFaults - 1
    /\ Returns("failed", NoManifest, pull.got, span)
    /\ span' = {}
    /\ UNCHANGED <<remote, paging, headDigest, etags, pullsLeft, movesLeft>>

Quiet == UNCHANGED <<paging, headDigest, pullsLeft, movesLeft, pullFaults>>

\* tags.All and registry.Repositories, the latter called until io.EOF with
\* room for one name more than the remote's page or for two names.
BeginAll          == Begin("all", 0, NoManifest, "page") /\ UNCHANGED etags
BeginRepositories == Begin("repositories", 0, NoManifest, "page") /\ UNCHANGED etags

Room == IF pull.kind = "repositories" /\ paging \notin {1, 2} THEN 2 ELSE paging

\* A wrong loop that stops at the first page.
NextPage_IgnoresLink ==
    /\ pull.at = "page"
    /\ LET page == PageOf(Listed(pull.kind, remote), pull.last, Room)
       IN  Returns("ok", NoManifest, pull.got \o page, span)
    /\ span' = {}
    /\ Quiet
    /\ UNCHANGED <<remote, etags>>

\* No Link: the listing is over.  Link: the next request goes on after the
\* last name of this page.
NextPage ==
    /\ pull.at = "page"
    /\ LET names == Listed(pull.kind, remote)
           page == PageOf(names, pull.last, Room)
           got  == pull.got \o page
           more == page # PageOf(names, pull.last, 0)
           full == page # <<>> /\ Len(page) = Room
       IN  \/ /\ ~more
              /\ Returns("ok", NoManifest, got, span)
              /\ span' = {}
           \/ /\ more \/ full
              /\ pull' = [pull EXCEPT !.got = got, !.last = Last(page)]
              /\ UNCHANGED <<pulled, span>>
    /\ Quiet
    /\ UNCHANGED <<remote, etags>>

\* tags.Get: HEAD, and when that fails or has no digest, GET.
BeginTagGet(n) == Begin("tagGet", n, NoManifest, "head") /\ UNCHANGED etags

TagHead ==
    /\ pull.kind = "tagGet"
    /\ pull.at = "head"
    /\ IF Holds(remote, pull.name) /\ headDigest
         THEN /\ Returns("ok", remote.tags[pull.name], <<>>, span)
              /\ span' = {}
         ELSE /\ pull' = [pull EXCEPT !.at = "get"]
              /\ UNCHANGED <<pulled, span>>
    /\ Quiet
    /\ UNCHANGED <<remote, etags>>

TagGet ==
    /\ pull.kind = "tagGet"
    /\ pull.at = "get"
    /\ IF Holds(remote, pull.name)
         THEN Returns("ok", remote.tags[pull.name], <<>>, span)
         ELSE Returns("unknown", NoManifest, <<>>, span)
    /\ span' = {}
    /\ Quiet
    /\ UNCHANGED <<remote, etags>>

\* manifests.Get by tag.  AddEtagToTag leaves its etag in the service, where
\* later calls find it.
BeginManifestGet(n, etag) ==
    /\ Begin("manifestGet", n, NoManifest, "get")
    /\ etags' = IF etag = NoManifest THEN etags ELSE [etags EXCEPT ![n] = etag]

\* The remote compares If-None-Match with the digest before it looks for the
\* manifest.
ManifestGet ==
    /\ pull.kind = "manifestGet"
    /\ LET n == pull.name
       IN  \/ /\ etags[n] # NoManifest
              /\ etags[n] = remote.tags[n]
              /\ Returns("notModified", NoManifest, <<>>, span)
           \/ /\ etags[n] = NoManifest \/ etags[n] # remote.tags[n]
              /\ IF Holds(remote, n) THEN Returns("ok", remote.tags[n], <<>>, span)
                                     ELSE Returns("unknown", NoManifest, <<>>, span)
    /\ span' = {}
    /\ Quiet
    /\ UNCHANGED <<remote, etags>>

\* manifests.Exists, HEAD by digest: only a 404 means no.
BeginExists(m) == Begin("exists", 0, m, "head") /\ UNCHANGED etags

Exists ==
    /\ pull.kind = "exists"
    /\ Returns(IF pull.man \in remote.manifests THEN "ok" ELSE "unknown",
               pull.man, <<>>, span)
    /\ span' = {}
    /\ Quiet
    /\ UNCHANGED <<remote, etags>>

\* manifests.Put: under a tag, or (name 0) under its own digest.
BeginPut(n, m) == Begin("put", n, m, "put") /\ UNCHANGED etags

PutManifest ==
    /\ pull.kind = "put"
    /\ remote' = IF pull.name = 0 THEN [remote EXCEPT !.manifests = @ \cup {pull.man}]
                                  ELSE WithTag(remote, pull.name, pull.man)
    /\ Returns("ok", pull.man, <<>>, span \cup {remote'})
    /\ span' = {}
    /\ Quiet
    /\ UNCHANGED etags

\* manifests.Delete and tags.Untag: the remote answers 404 for what it lacks.
BeginDelete(m) == Begin("delete", 0, m, "delete") /\ UNCHANGED etags
BeginUntag(n)  == Begin("untag", n, NoManifest, "delete") /\ UNCHANGED etags

Delete ==
    /\ pull.kind \in {"delete", "untag"}
    /\ LET there == IF pull.kind = "delete" THEN pull.man \in remote.manifests
                                            ELSE pull.name \in Tagged(remote)
       IN  /\ remote' = IF pull.kind = "delete" THEN WithoutManifest(remote, pull.man)
                                                ELSE WithoutTag(remote, pull.name)
           /\ Returns(IF there THEN "ok" ELSE "unknown", pull.man, <<>>, span \cup {remote'})
    /\ span' = {}
    /\ Quiet
    /\ UNCHANGED etags

PullNext ==
    \/ OthersMove
    \/ Fails
    \/ BeginAll \/ BeginRepositories
    \/ NextPage
    \/ \E n \in Name :
          \/ BeginTagGet(n)
          \/ \E m \in Manifest \cup {NoManifest} : BeginManifestGet(n, m)
          \/ BeginUntag(n)
    \/ \E m \in Manifest :
          \/ BeginExists(m)
          \/ BeginDelete(m)
          \/ \E n \in {0} \cup Name : BeginPut(n, m)
    \/ TagHead \/ TagGet \/ ManifestGet \/ Exists \/ PutManifest \/ Delete

PullSpec == PullInit /\ [][PullNext]_pullVars

(***************************************************************************)
(* Properties                                                              *)
(***************************************************************************)

\* A listing that ends without an error names each name once, every name
\* that was there from the first request to the last, and no name that was
\* never there meanwhile (tags.All and Repositories follow the Link headers
\* while others add and remove names).
ListingExact ==
    pulled.kind \in {"all", "repositories"} /\ pulled.result = "ok" =>
        LET got == Range(pulled.got)
        IN  /\ IsInjective(pulled.got)
            /\ \A n \in got : \E s \in pulled.span : n \in Listed(pulled.kind, s)
            /\ \A n \in Name :
                  (\A s \in pulled.span : n \in Listed(pulled.kind, s)) => n \in got

\* What a call reports of one tag or manifest was so on the remote at some
\* instant of the call, although tags.Get asks twice and an etag given to an
\* earlier call is still sent: found there, not found there, not modified
\* there, stored or removed there.
AnswerAtInstant ==
    LET n == pulled.name
        m == pulled.man
    IN  \E s \in pulled.span \cup {remote} :
          CASE pulled.result = "failed" -> TRUE
            [] pulled.kind \in {"tagGet", "manifestGet"} /\ pulled.result = "ok" ->
                  s.tags[n] = m /\ m \in s.manifests
            [] pulled.kind \in {"tagGet", "manifestGet"} /\ pulled.result = "unknown" ->
                  ~Holds(s, n)
            [] pulled.result = "notModified" -> s.tags[n] = etags[n]
            [] pulled.kind = "exists" ->
                  (m \in s.manifests) <=> (pulled.result = "ok")
            [] pulled.kind = "put" ->
                  m \in s.manifests /\ (n # 0 => s.tags[n] = m)
            [] pulled.kind = "delete" -> m \notin s.manifests
            [] pulled.kind = "untag"  -> n \notin Tagged(s)
            [] OTHER -> TRUE

\* What the pull calls of the client report is so on the remote.
PullTrue == ListingExact /\ AnswerAtInstant
=============================================================================
