----------------------------- MODULE DriverOps -----------------------------
(***************************************************************************)
(* A storage driver behind the checks of the base package, changed by      *)
(* PutContent, Move and Delete, whose calls of the backend may fail.       *)
(***************************************************************************)
EXTENDS DriverWalk

CONSTANTS Paths, TreeKinds, MaxFailures

\* tree: [files, dirs, faults]; did: the last operation, its paths, its answer, what it showed,
\* and the files before it.
VARIABLES treeKind, tree, did
treeVars == <<treeKind, tree, did>>

\* PathRegexp; the root is a path for Stat, List and Walk only.
ValidPath(op, p) == p # <<>> \/ op \in {"Stat", "List", "Walk"}

isDirHere(t, p) == p \in t.dirs
withFile(t, p) == [t EXCEPT !.files = @ \cup {p}]
withDirs(t, p) == [t EXCEPT !.dirs = @ \cup Ancestors(p)]
without(t, S) == [t EXCEPT !.files = @ \ S, !.dirs = @ \ S]

\* Several objects removed one by one, in order; a failure leaves the rest.
RECURSIVE deleteEach(_, _)
deleteEach(t, keys) ==
    IF keys = <<>> THEN Ok(t)
    ELSE Then(Call(t, without(t, {Head(keys)})), LAMBDA u : deleteEach(u, Tail(keys)))

\* A wrong Delete that removes every key that begins with the path.
S3Delete_Prefix(t, p) ==
    LET listed == {q \in t.files : IsPrefix(String(p), String(q))}
    IN IF listed = {} THEN Fail(t) ELSE Call(t, without(t, listed))

S3Delete(t, p) ==
    LET listed == {q \in t.files : IsPrefix(String(p), String(q))}
    IN IF listed = {} THEN Fail(t) ELSE Call(t, without(t, Subtree(listed, p)))
GCSDelete(t, p) ==
    LET keys == Reverse(Sorted(Below(t.files, p)))
    IN IF keys # <<>> THEN deleteEach(t, keys) ELSE IF p \in t.files THEN Call(t, without(t, {p})) ELSE Fail(t)
AzureDelete(t, p) ==
    IF p \in t.files THEN Call(t, without(t, {p}))
    ELSE LET keys == Sorted(Below(t.files, p)) IN IF keys = <<>> THEN Fail(t) ELSE deleteEach(t, keys)
MemDelete(t, p) == IF MemStat(t, p) = "none" THEN Fail(t) ELSE Ok(without(t, Subtree(t.files \cup t.dirs, p)))
FSDelete(t, p) == IF FSStat(t, p) = "none" THEN Fail(t) ELSE Ok(without(t, Subtree(t.files \cup t.dirs, p)))

\* A copy and a removal.  S3 copies what Stat says is there.
copied(t, p, q) == IF p \in t.files THEN Call(t, withFile(t, q)) ELSE Fail(t)
S3Move(t, p, q) == IF S3Stat(t, p) = "none" THEN Fail(t) ELSE Then(copied(t, p, q), LAMBDA u : S3Delete(u, p))
\* A source that could not be removed is left behind.
GCSMove(t, p, q) ==
    Then(copied(t, p, q), LAMBDA u : {[o EXCEPT !.ok = TRUE] : o \in Call(u, without(u, {p}))})
\* The copy may be pending; it fails, or polling it gives up and aborts it (maxRetries >= 1).
AzureMove(t, p, q) ==
    Then(copied(t, p, q) \cup (IF p \in t.files /\ t.faults > 0 THEN Fail([t EXCEPT !.faults = @ - 1]) ELSE {}),
         LAMBDA u : Call(u, without(u, {p})))
\* The directories of the destination are made before the source is looked up.
MemMove(t, p, q) ==
    LET u == withDirs(t, q)
    IN IF Ancestors(q) \cap t.files # {} THEN Fail(t)
       ELSE IF p \notin t.files THEN Fail(u) ELSE Ok(withFile(without(u, {p}), q))
FSMove(t, p, q) ==
    IF p \notin t.files \/ Ancestors(q) \cap t.files # {} \/ isDirHere(t, q) THEN Fail(t)
    ELSE Ok(withFile(without(withDirs(t, q), {p}), q))

\* One call for S3 and Google.  Azure looks at the blob, removes it if it is there (blobs that
\* it writes are append blobs), creates it and appends the content.  The filesystem driver writes
\* a temporary file and renames it; the temporary file is gone either way.
S3Put(t, p) == Call(t, withFile(t, p))
GCSPut(t, p) == Call(t, withFile(t, p))
AzurePut(t, p) ==
    Then(Call(t, t), LAMBDA u :
    Then(IF p \in u.files THEN Call(u, without(u, {p})) ELSE Ok(u), LAMBDA v :
    Then(Call(v, withFile(v, p)), LAMBDA x : Call(x, x))))
MemPut(t, p) ==
    IF isDirHere(t, p) \/ Ancestors(p) \cap t.files # {} THEN Fail(t) ELSE Ok(withFile(withDirs(t, p), p))
FSPut(t, p) ==
    IF Ancestors(p) \cap t.files # {} THEN Fail(t)
    ELSE LET u == withDirs(t, p) IN IF isDirHere(t, p) THEN Fail(u) ELSE Call(u, withFile(u, p))

PutOutcomes(t, p) ==
    CASE treeKind = "s3" -> S3Put(t, p) [] treeKind = "gcs" -> GCSPut(t, p)
      [] treeKind = "azure" -> AzurePut(t, p) [] treeKind = "mem" -> MemPut(t, p) [] OTHER -> FSPut(t, p)
DeleteOutcomes(t, p) ==
    CASE treeKind = "s3" -> S3Delete(t, p) [] treeKind = "gcs" -> GCSDelete(t, p)
      [] treeKind = "azure" -> AzureDelete(t, p) [] treeKind = "mem" -> MemDelete(t, p) [] OTHER -> FSDelete(t, p)
MoveOutcomes(t, p, q) ==
    CASE treeKind = "s3" -> S3Move(t, p, q) [] treeKind = "gcs" -> GCSMove(t, p, q)
      [] treeKind = "azure" -> AzureMove(t, p, q) [] treeKind = "mem" -> MemMove(t, p, q) [] OTHER -> FSMove(t, p, q)

-----------------------------------------------------------------------------
EmptyTree(k) == [files |-> {}, dirs |-> IF k \in ObjectKinds THEN {} ELSE {<<>>}, faults |-> MaxFailures]
Idle == [op |-> "none", src |-> <<>>, dst |-> <<>>, ok |-> TRUE, seen |-> <<>>, before |-> {}]
TreeInit ==
    /\ treeKind \in TreeKinds
    /\ tree = EmptyTree(treeKind)
    /\ did = Idle

Did(op, p, q, outcomes) ==
    /\ did = Idle
    /\ \E o \in IF ValidPath(op, p) /\ ValidPath(op, q) THEN outcomes ELSE Fail(tree) :
           /\ tree' = o.d
           /\ did' = [Idle EXCEPT !.op = op, !.src = p, !.dst = q, !.ok = o.ok, !.before = tree.files]
    /\ UNCHANGED treeKind
Saw(op, p, q, seen) ==
    /\ did = Idle
    /\ did' = [Idle EXCEPT !.op = op, !.src = p, !.dst = q, !.seen = seen, !.before = tree.files]
    /\ UNCHANGED <<treeKind, tree>>

\* The registry never stores a file above or below another.
Fits(p) == Below(tree.files, p) = {} /\ Ancestors(p) \cap tree.files = {}
PutContent(p) == Fits(p) /\ Did("PutContent", p, p, PutOutcomes(tree, p))
Move(p, q) == p # q /\ Fits(q) /\ ~Under(p, q) /\ Below(tree.files, p) = {} /\ Did("Move", p, q, MoveOutcomes(tree, p, q))
Delete(p) == Did("Delete", p, p, DeleteOutcomes(tree, p))
StatAndList(p) == Saw("List", p, p, [stat |-> Stat(treeKind, tree, p), list |-> List(treeKind, tree, p).paths])
WalkAfter(hint, skip) == Saw("Walk", hint, skip, Walk(treeKind, tree, <<>>, hint, [what |-> "all", skip |-> skip]).got)
\* The caller takes the answer.
Answered == did # Idle /\ did' = Idle /\ UNCHANGED <<treeKind, tree>>

TreeNext ==
    \/ \E p \in Paths : PutContent(p) \/ StatAndList(p)
    \/ \E p \in Paths \cup {<<>>} : Delete(p)
    \/ \E p, q \in Paths : Move(p, q)
    \/ \E hint, skip \in Paths \cup {<<>>} : WalkAfter(hint, skip)
    \/ Answered

TreeSpec == TreeInit /\ [][TreeNext]_treeVars

-----------------------------------------------------------------------------
TreeTypeOK ==
    /\ treeKind \in TreeKinds
    /\ tree.files \subseteq Paths /\ tree.dirs \subseteq UNION {Ancestors(p) : p \in Paths}
    /\ tree.faults \in 0..MaxFailures

\* An operation that answers success did what its name says and nothing else, in every driver,
\* and one that fails touched only the paths it was given: a failed Move keeps the file at the
\* source or at the destination, a failed Delete removes nothing outside the path ("/a" is not
\* "/ab"), and the root is never removed.  A Move of the Google driver may leave the source.
OpsExact ==
    LET f == tree.files
        b == did.before
        p == did.src
        q == did.dst
    IN /\ did.op = "PutContent" =>
              f \cup {p} = b \cup {p} /\ (did.ok => p \in f)
       /\ did.op = "Move" =>
              /\ did.ok => f = (b \ {p}) \cup {q} \/ (treeKind = "gcs" /\ f = b \cup {q})
              /\ f \ {p, q} = b \ {p, q}
              /\ p \in b => {p, q} \cap f # {}
       /\ did.op = "Delete" =>
              /\ did.ok => f = b \ Subtree(b, p)
              /\ b \ Subtree(b, p) \subseteq f /\ f \subseteq b
              /\ p = <<>> => f = b

\* Stat and List show the tree of files the same way in every driver.  A directory without files
\* shows only in the drivers that have directories.  S3 may say that "/a" is a directory when
\* there is only "/ab".
ViewsAgree ==
    did.op = "List" =>
        LET p == did.src
            f == tree.files
        IN /\ did.seen.stat = "file" <=> p \in f
           /\ Below(f, p) # {} => did.seen.stat = "dir"
           /\ did.seen.stat = "dir" =>
                  \/ p \in tree.dirs \/ Below(f, p) # {}
                  \/ treeKind = "s3" /\ \E q \in f : Parent(p) \in Ancestors(q) /\ IsStrictPrefix(Last(p), q[Len(p)])
           /\ \A q \in f : Under(p, q) => SubSeq(q, 1, Len(p) + 1) \in did.seen.list
           /\ \A c \in did.seen.list : Parent(c) = p /\ c \in f \cup tree.dirs \cup UNION {Ancestors(q) : q \in f}

\* A walk meets every file and every directory above one exactly once, a directory before what it
\* holds, nothing under the skipped directory and, with a hint, what comes after it in the
\* driver's order.  S3 also passes over what merely begins with the skipped path.
WalkExact ==
    did.op = "Walk" =>
        LET hint == did.src
            skip == did.dst
            got == did.seen
            f == tree.files
            after(p) == hint = <<>> \/ IF treeKind = "s3" THEN Before(String(hint), String(p)) ELSE lessPath(hint, p)
            skipping == skip # <<>> /\ skip \in ToSet(got)
            hidden(p) == skipping /\ IF treeKind = "s3" THEN IsStrictPrefix(String(skip), String(p)) ELSE Under(skip, p)
        IN /\ \A i, j \in DOMAIN got : i < j => got[i] # got[j] /\ ~Under(got[j], got[i])
           /\ \A q \in f : after(q) /\ ~hidden(q) => q \in ToSet(got)
           /\ hint = <<>> => \A q \in f \cap ToSet(got) : Ancestors(q) \subseteq ToSet(got) \cup {<<>>}
           /\ \A p \in ToSet(got) : /\ p \in f \cup tree.dirs \cup UNION {Ancestors(q) : q \in f}
                                    /\ ~(skipping /\ Under(skip, p))
                                    /\ p \in f => after(p)

\* What the drivers show of a tree is the tree (Stat, List and Walk of the five drivers).
ViewsExact == ViewsAgree /\ WalkExact
=============================================================================
