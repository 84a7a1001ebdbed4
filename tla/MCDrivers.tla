----------------------------- MODULE MCDrivers -----------------------------
(***************************************************************************)
(* The storage drivers for TLC: one behaviour is an upload through a       *)
(* writer, operations on a tree, a paginated listing, or the reads of a    *)
(* blob.                                                                   *)
(***************************************************************************)
EXTENDS FileWriters, DriverOps, Listing, Readers

CONSTANT Parts

VARIABLE part

\* "a", "a-", "aa" and "1".
nameA == <<5>>
nameADash == <<5, 1>>
nameAA == <<5, 5>>
nameOne == <<3>>
MCPaths == {<<nameA>>, <<nameADash, nameA>>, <<nameAA>>, <<nameA, nameA>>, <<nameAA, nameA>>}
MCRepos == {<<nameA>>, <<nameA, nameAA>>, <<nameADash>>, <<nameAA>>, <<nameA, nameOne>>, <<nameAA, nameA>>}
MCTags == {<<nameA>>, <<nameADash>>, <<nameAA>>, <<nameOne>>}

DriversInit ==
    /\ part \in Parts
    /\ WriterInit /\ TreeInit /\ ListInit /\ ReadInit
    /\ part # "writer" => kind = "mem"
    /\ part # "tree" => treeKind = "mem"
    /\ part # "list" => listKind = "fs" /\ listWhat = "tags" /\ items = {} /\ page.n = 1
    /\ part # "read" => readerKind = "fs"

DriversNext ==
    \/ part = "writer" /\ WriterNext /\ UNCHANGED <<part, treeVars, listVars, readVars>>
    \/ part = "tree" /\ TreeNext /\ UNCHANGED <<part, writerVars, listVars, readVars>>
    \/ part = "list" /\ ListNext /\ UNCHANGED <<part, writerVars, treeVars, readVars>>
    \/ part = "read" /\ ReadNext /\ UNCHANGED <<part, writerVars, treeVars, listVars>>

DriversSpec == DriversInit /\ [][DriversNext]_<<part, writerVars, treeVars, listVars, readVars>>
=============================================================================
