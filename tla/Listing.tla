------------------------------ MODULE Listing ------------------------------
(***************************************************************************)
(* The paginated listings of the API over Walk: repositories (_catalog)    *)
(* and the tags of a repository.  A client follows the Link headers while  *)
(* repositories or tags are added and removed.                             *)
(***************************************************************************)
EXTENDS DriverWalk

CONSTANTS Repos, Tags, ListKinds, PageSizes, MaxChanges

\* page: the client's listing: page size (0: none asked), last entry, what it got, whether it
\* goes on, is complete, failed or the handler panicked; steady: what was there throughout.
VARIABLES listKind, listWhat, items, page, steady, changes
listVars == <<listKind, listWhat, items, page, steady, changes>>

\* "link" below the directory of each item.  An item is removed with its directory.
Link == <<5, 5>>
Stored(it) == IF listWhat = "catalog" THEN it \o <<Manifests, Link>> ELSE it \o <<Link>>
Tree ==
    LET files == {Stored(it) : it \in items}
    IN [files |-> files,
        dirs |-> IF listKind \in ObjectKinds THEN {} ELSE {<<>>} \cup UNION {Ancestors(p) : p \in files}]

\* registry.Repositories and tagStore.List: the entries found, whether there may be more, and
\* what went wrong.  The hint is the _manifests of the last repository, or the last tag.
Repositories(n, last) ==
    Walk(listKind, Tree, <<>>, IF last = <<>> THEN <<>> ELSE last \o <<Manifests>>,
         [what |-> "catalog", last |-> last, limit |-> n])
TagList(n, last) == Walk(listKind, Tree, <<>>, last, [what |-> "tags", last |-> last, limit |-> n])

\* GetCatalog and GetTags.  A page that was not asked to be limited is a page of all tags, and
\* of the default size for repositories, which is more than there are.
Listed(acc) ==
    /\ page' = [page EXCEPT !.got = @ \o acc.got,
                            !.last = IF acc.got = <<>> THEN @ ELSE Last(acc.got),
                            !.at = IF acc.panicked THEN "panicked"
                                   ELSE IF acc.stopped THEN "more" ELSE "done"]
    /\ UNCHANGED <<listKind, listWhat, items, steady, changes>>
Unlimited == Cardinality(Repos \cup Tags) + 1
Limit(n) == IF n = 0 THEN Unlimited ELSE n

GetCatalog == /\ page.at = "more" /\ listWhat = "catalog"
              /\ Listed(Repositories(Limit(page.n), page.last))
GetTags == /\ page.at = "more" /\ listWhat = "tags"
           /\ Listed(TagList(Limit(page.n), page.last))

Universe == IF listWhat = "catalog" THEN Repos ELSE Tags
Change(S) == /\ changes < MaxChanges /\ page.at = "more"
             /\ items' = S /\ steady' = steady \cap S /\ changes' = changes + 1
             /\ UNCHANGED <<listKind, listWhat, page>>
Appear(it) == it \notin items /\ Change(items \cup {it})
Vanish(it) == it \in items /\ Change(items \ {it})

ListInit ==
    /\ listKind \in ListKinds
    /\ listWhat \in {"catalog", "tags"}
    /\ items \in SUBSET Universe
    /\ page \in {[n |-> n, last |-> <<>>, got |-> <<>>, at |-> "more"] : n \in PageSizes}
    /\ steady = items
    /\ changes = 0

ListNext == GetCatalog \/ GetTags \/ \E it \in Universe : Appear(it) \/ Vanish(it)
ListSpec == ListInit /\ [][ListNext]_listVars

-----------------------------------------------------------------------------
ListTypeOK ==
    /\ items \subseteq Universe /\ steady \subseteq items
    /\ ToSet(page.got) \subseteq Universe
    /\ page.at \in {"more", "done", "panicked"} /\ changes \in 0..MaxChanges

Clash(S) == \E p, q \in S : \E i \in DOMAIN p \cap DOMAIN q : IsStrictPrefix(p[i], q[i])
Digits(S) == \E p \in S, i \in 2..3 : i \in DOMAIN p /\ p[i][1] < 4

\* Following the links to the end yields, in the order of lessPath and without repetition, only
\* entries there were, and every entry that was there all the time, whatever was added or removed
\* between two pages.  Excepted: S3 with names of which one begins another; a catalog with a
\* nested repository whose name begins with a digit, which is met before the _manifests above it.
ListedAll ==
    ~(listKind = "s3" /\ Clash(items \cup ToSet(page.got))) =>
        /\ ~(listWhat = "catalog" /\ Digits(items \cup ToSet(page.got))) =>
               /\ page.at # "panicked"
               /\ \A i, j \in DOMAIN page.got : i < j => lessPath(page.got[i], page.got[j])
        /\ page.at = "done" /\ ~Digits(items \cup ToSet(page.got)) => steady \subseteq ToSet(page.got)

\* Repositories stops the walk when its slice is full, and never writes past the end of it.
CatalogFits == page.at # "panicked"
=============================================================================
