----------------------------- MODULE DriverTree -----------------------------
(***************************************************************************)
(* Paths, and the tree of files that five storage drivers show: S3, Google *)
(* and Azure keep objects under string keys and infer directories, the     *)
(* filesystem and the in-memory driver keep directories.                   *)
(*                                                                         *)
(* A name is a sequence of letters, a letter is its rank in the order of   *)
(* characters: 1 stands for "-" or ".", Slash for "/", 3 for a digit, 4    *)
(* for "_", 5 and more for letters.  A path is a sequence of names, and    *)
(* <<>> is the root.                                                       *)
(***************************************************************************)
EXTENDS Backend, FiniteSets

Slash == 2
String(p) == FoldLeft(LAMBDA s, n : s \o <<Slash>> \o n, <<>>, p)

Before(s, t) ==
    \/ IsStrictPrefix(s, t)
    \/ \E i \in DOMAIN s \cap DOMAIN t : s[i] < t[i] /\ SubSeq(s, 1, i - 1) = SubSeq(t, 1, i - 1)

\* The order of WalkFallback and lessPath: the separator sorts before every character.
Separated(s) == [i \in DOMAIN s |-> IF s[i] = Slash THEN 0 ELSE s[i]]
lessPath(p, q) == Before(Separated(String(p)), Separated(String(q)))

Under(p, q) == IsStrictPrefix(p, q)
Parent(p) == Front(p)
Ancestors(p) == {SubSeq(p, 1, n) : n \in 0..(Len(p) - 1)}
Below(files, p) == {q \in files : Under(p, q)}
Subtree(files, p) == {q \in files : IsPrefix(p, q)}
DirectDescendants(files, p) == {SubSeq(q, 1, Len(p) + 1) : q \in Below(files, p)}

ObjectKinds == {"s3", "gcs", "azure"}

\* t: the files and the directories that exist as such.  Stat of S3 asks for keys that begin with the path, without a "/" after it.
S3Stat(t, p) == IF p \in t.files THEN "file"
                ELSE IF \E q \in t.files : IsPrefix(String(p), String(q)) THEN "dir" ELSE "none"

GCSStat(t, p) == IF p \in t.files THEN "file" ELSE IF Below(t.files, p) # {} THEN "dir" ELSE "none"
AzureStat(t, p) == IF p \in t.files THEN "file" ELSE IF Below(t.files, p) # {} THEN "dir" ELSE "none"
MemStat(t, p) == IF p \in t.files THEN "file" ELSE IF p \in t.dirs THEN "dir" ELSE "none"
FSStat(t, p) == IF p \in t.files THEN "file" ELSE IF p \in t.dirs THEN "dir" ELSE "none"
Stat(k, t, p) == CASE k = "s3" -> S3Stat(t, p) [] k = "gcs" -> GCSStat(t, p) [] k = "azure" -> AzureStat(t, p)
                   [] k = "mem" -> MemStat(t, p) [] OTHER -> FSStat(t, p)

\* An answer is a set of paths, or none: PathNotFoundError, or the error for a file.
Found(paths) == [found |-> TRUE, paths |-> paths]
NotThere == [found |-> FALSE, paths |-> {}]
orMissing(p, paths) == IF paths = {} /\ p # <<>> THEN NotThere ELSE Found(paths)
S3List(t, p) == orMissing(p, DirectDescendants(t.files, p))
GCSList(t, p) == orMissing(p, DirectDescendants(t.files, p))
AzureList(t, p) == orMissing(p, DirectDescendants(t.files, p))
MemList(t, p) == IF p \in t.dirs THEN Found(DirectDescendants(t.files \cup t.dirs, p)) ELSE NotThere
FSList(t, p) == IF p \in t.dirs THEN Found(DirectDescendants(t.files \cup t.dirs, p)) ELSE NotThere
List(k, t, p) == CASE k = "s3" -> S3List(t, p) [] k = "gcs" -> GCSList(t, p) [] k = "azure" -> AzureList(t, p)
                   [] k = "mem" -> MemList(t, p) [] OTHER -> FSList(t, p)

Sorted(paths) == SetToSortSeq(paths, LAMBDA p, q : Before(String(p), String(q)))
=============================================================================
