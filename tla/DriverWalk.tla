----------------------------- MODULE DriverWalk -----------------------------
(***************************************************************************)
(* Walk: WalkFallback of the driver package, which the drivers for files,  *)
(* memory, Google and Azure use, and the listing of S3.  The caller's      *)
(* function answers "go", "skip" (ErrSkipDir) or "stop" (ErrFilledBuffer). *)
(***************************************************************************)
EXTENDS DriverTree

\* What a walk's function collected; whether it asked to stop; and whether it wrote past the
\* end of the slice it fills.
Nothing == [got |-> <<>>, stopped |-> FALSE, panicked |-> FALSE]
Manifests == <<4, 5>>   \* "_manifests"
Underscore(name) == name[1] = 4

\* w: the parameters of the function.  handleRepository within Repositories: a repository ends
\* with ErrSkipDir, so a full slice is noticed at the next directory.
isNewRepository(w, p) == Last(p) = Manifests /\ (w.last = <<>> \/ lessPath(w.last, Front(p)))
handleRepository(w, acc, p) ==
    [got |-> IF isNewRepository(w, p) THEN Append(acc.got, Front(p)) ELSE acc.got,
     panicked |-> acc.panicked \/ (isNewRepository(w, p) /\ Len(acc.got) = w.limit),
     verdict |-> IF Underscore(Last(p)) THEN "skip" ELSE IF Len(acc.got) = w.limit THEN "stop" ELSE "go"]

\* handleTag within List
handleTag(w, acc, p) ==
    IF Len(p) = 1 /\ (w.last = <<>> \/ lessPath(w.last, p))
    THEN [got |-> Append(acc.got, p), panicked |-> FALSE,
          verdict |-> IF Len(acc.got) + 1 = w.limit THEN "stop" ELSE "skip"]
    ELSE [got |-> acc.got, panicked |-> FALSE, verdict |-> "skip"]

\* A function that takes everything and skips one directory.
takeAll(w, acc, p) == [got |-> Append(acc.got, p), panicked |-> FALSE, verdict |-> IF p = w.skip THEN "skip" ELSE "go"]

Visited(acc, v) ==
    [verdict |-> v.verdict,
     acc |-> [got |-> v.got, panicked |-> v.panicked, stopped |-> acc.stopped \/ v.verdict = "stop"]]
Visit(w, acc, p) ==
    Visited(acc, CASE w.what = "catalog" -> handleRepository(w, acc, p)
                   [] w.what = "tags" -> handleTag(w, acc, p)
                   [] OTHER -> takeAll(w, acc, p))

-----------------------------------------------------------------------------
\* Children after the hint, in order; one that is gone by now is passed over.  The result says
\* what the function collected and whether the walk goes on.
RECURSIVE doWalkFallback(_, _, _, _, _, _)
descend(k, t, child, hint, w, v) ==
    IF v.verdict = "stop" THEN [acc |-> v.acc, on |-> FALSE]
    ELSE IF v.verdict = "go" /\ Stat(k, t, child) = "dir" THEN doWalkFallback(k, t, child, hint, w, v.acc)
    ELSE [acc |-> v.acc, on |-> TRUE]
doWalkFallback(k, t, from, hint, w, acc) ==
    FoldLeft(LAMBDA r, child :
                 IF ~r.on \/ (hint # <<>> /\ ~Before(String(hint), String(child))) \/ Stat(k, t, child) = "none" THEN r
                 ELSE descend(k, t, child, hint, w, Visit(w, r.acc, child)),
             [acc |-> acc, on |-> TRUE], Sorted(List(k, t, from).paths))

\* From the hint up to from, each time after the child just done.  Only an error ends the loop.
RECURSIVE walkUp(_, _, _, _, _, _, _)
walkUp(k, t, from, base, hint, w, acc) ==
    IF base = from THEN doWalkFallback(k, t, base, hint, w, acc).acc
    ELSE walkUp(k, t, from, Parent(base), base, w, doWalkFallback(k, t, base, hint, w, acc).acc)

\* A wrong walk that begins at the hint and does not climb back to from.
WalkFallback_NoClimb(k, t, from, hint, w) ==
    IF hint # <<>> /\ IsPrefix(from, hint)
    THEN doWalkFallback(k, t, Parent(hint), hint, w, Nothing).acc
    ELSE doWalkFallback(k, t, from, <<>>, w, Nothing).acc

\* No hint is <<>>.  A hint outside from only says whether there is anything to walk.
WalkFallback(k, t, from, hint, w) ==
    IF hint # <<>> /\ IsPrefix(from, hint) THEN walkUp(k, t, from, hint, hint, w, Nothing)
    ELSE IF hint = <<>> \/ lessPath(hint, from) THEN doWalkFallback(k, t, from, <<>>, w, Nothing).acc
    ELSE Nothing

-----------------------------------------------------------------------------
\* A wrong difference that takes a directory for known when its name begins the last one's.
directoryDiff_Prefix(prev, current) ==
    SetToSortSeq({d \in Ancestors(current) : d # <<>> /\ ~IsPrefix(String(d), String(prev))},
                 LAMBDA p, q : Len(p) < Len(q))

\* The directories above current that are not above (or equal to) prev, outermost first.
directoryDiff(prev, current) ==
    SetToSortSeq({d \in Ancestors(current) : d # <<>> /\ ~IsPrefix(d, prev)}, LAMBDA p, q : Len(p) < Len(q))

\* The keys after the hint, each after the directories that the last one did not show.
addEntry(e, key, dirs) ==
    [prevDir |-> IF dirs = <<>> THEN e.prevDir ELSE Last(dirs), seq |-> e.seq \o dirs \o <<key>>]
S3Entries(t, from, hint) ==
    FoldLeft(LAMBDA e, key : addEntry(e, key, directoryDiff(e.prevDir, key)), [prevDir |-> from, seq |-> <<>>],
             Sorted({q \in Below(t.files, from) : hint = <<>> \/ Before(String(hint), String(q))})).seq

\* Entries that begin with the skipped path, as a string, are skipped.
pastEntry(r, p, v) == [acc |-> v.acc, skip |-> IF v.verdict = "skip" THEN p ELSE r.skip]
S3Walk(t, from, hint, w) ==
    FoldLeft(LAMBDA r, p :
                 IF r.acc.stopped \/ (r.skip # <<>> /\ IsPrefix(String(r.skip), String(p))) THEN r
                 ELSE pastEntry(r, p, Visit(w, r.acc, p)),
             [acc |-> Nothing, skip |-> <<>>], S3Entries(t, from, hint)).acc

Walk(k, t, from, hint, w) == IF k = "s3" THEN S3Walk(t, from, hint, w) ELSE WalkFallback(k, t, from, hint, w)
=============================================================================
