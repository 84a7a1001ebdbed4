----------------------------- MODULE GCSWriter -----------------------------
(***************************************************************************)
(* The writer of the Google Cloud Storage driver (driver/gcs/gcs.go): a    *)
(* resumable session takes multiples of minChunkSize, and Close keeps the  *)
(* rest, the session and its offset in an object of its own type.          *)
(***************************************************************************)
EXTENDS Backend

CONSTANTS GCSMinChunk, GCSChunkSize

\* obj: [type, bytes, offset, uri] or Absent; session: the bytes persisted; the writer's
\* buffer, offset, size, and whether it has a session.
GCSNew(faults) ==
    [obj |-> Absent, session |-> <<>>, buf |-> <<>>, offset |-> 0, size |-> 0,
     uri |-> FALSE, closed |-> TRUE, faults |-> faults]

putContent(d, type, uri) ==
    Call(d, [d EXCEPT !.obj = [type |-> type, bytes |-> d.buf, offset |-> d.offset, uri |-> uri]])

newSession(d) ==
    Ok([d EXCEPT !.session = <<>>, !.uri = TRUE])
        \cup (IF d.faults = 0 THEN {} ELSE Fail([d EXCEPT !.faults = @ - 1]))

\* The service ignores bytes it has, refuses a gap, and may persist a part of a chunk.
Persisted(d, chunk) == IF d.offset + Len(chunk) <= Len(d.session) THEN d.session
                       ELSE Take(d.session, d.offset) \o chunk

putChunk(d, chunk) ==
    IF d.offset > Len(d.session) THEN Fail(d)
    ELSE LET all == [d EXCEPT !.session = Persisted(d, chunk)]
             part == [d EXCEPT !.session = Persisted(d, Take(chunk, GCSMinChunk)), !.faults = @ - 1]
         IN Call(d, all) \cup (IF d.faults > 0 THEN Ok(part) ELSE {})

\* n is what the session has from the offset on; more than the buffer holds is a panic.
writeChunk(d) ==
    LET chunk == Take(d.buf, Len(d.buf) - (Len(d.buf) % GCSMinChunk))
        put(e) == Then(putChunk(e, chunk), LAMBDA f :
                       LET n == Len(f.session) - f.offset
                       IN IF n > Len(f.buf) THEN Fail(f)
                          ELSE Ok([f EXCEPT !.offset = @ + n, !.buf = Drop(@, n),
                                            !.size = IF f.offset + n > @ THEN f.offset + n ELSE @]))
    IN IF chunk = <<>> THEN Ok(d) ELSE Then(IF d.uri THEN Ok(d) ELSE newSession(d), put)

RECURSIVE fill(_, _)
fill(d, p) ==
    IF p = <<>> THEN Ok(d)
    ELSE LET n == Least(Len(p), GCSChunkSize - Len(d.buf))
             e == [d EXCEPT !.buf = @ \o Take(p, n)]
         IN Then(IF Len(e.buf) = GCSChunkSize THEN writeChunk(e) ELSE Ok(e),
                 LAMBDA f : fill(f, Drop(p, n)))

sized(outcomes) == {[o EXCEPT !.d.size = o.d.offset + Len(o.d.buf)] : o \in outcomes}
GCSWrite(d, p) == IF d.closed THEN Fail(d) ELSE sized(fill(d, p))

GCSClose(d) ==
    IF d.closed THEN Ok(d)
    ELSE Then(writeChunk([d EXCEPT !.closed = TRUE]), LAMBDA e :
              LET f == [e EXCEPT !.buf = Take(@, GCSMinChunk)]
              IN Then(putContent(f, "session", f.uri), LAMBDA g :
                      Ok([g EXCEPT !.size = g.offset + Len(g.buf), !.buf = <<>>])))

\* The last chunk names the total size and turns the session into the object.
commitChunk(d) ==
    IF d.offset > Len(d.session) \/ d.offset + Len(d.buf) < Len(d.session) THEN Fail(d)
    ELSE Call(d, [d EXCEPT !.obj = [type |-> "blob", bytes |-> Persisted(d, d.buf), offset |-> 0, uri |-> FALSE]])

GCSCommit(d) ==
    IF d.closed THEN Fail(d)
    ELSE LET e == [d EXCEPT !.closed = TRUE]
         IN Then(IF e.uri THEN commitChunk(e) ELSE putContent(e, "blob", FALSE),
                 LAMBDA f : Ok([f EXCEPT !.size = f.offset + Len(f.buf), !.buf = <<>>]))

GCSCancel(d) == Call(d, [d EXCEPT !.obj = Absent, !.closed = TRUE])

\* init, in append mode.  Only a chunk of the object's bytes is read.
init(d) ==
    IF d.obj = Absent THEN Fail(d)
    ELSE LET e == [d EXCEPT !.buf = Take(d.obj.bytes, GCSChunkSize), !.offset = d.obj.offset,
                            !.uri = d.obj.uri, !.closed = FALSE]
             f == [e EXCEPT !.size = e.offset + Len(e.buf)]
         IN IF f.uri THEN Ok(f) ELSE newSession(f)

GCSWriter_(d, appendMode) ==
    IF appendMode THEN init(d)
    ELSE Ok([d EXCEPT !.buf = <<>>, !.offset = 0, !.size = 0, !.uri = FALSE, !.closed = FALSE])

\* GetContent and Reader: an object of the session's type is not there for a reader.
GCSContent(d) == IF d.obj = Absent \/ d.obj.type = "session" THEN Absent ELSE d.obj.bytes
GCSFile(d) == Take(d.session, d.offset) \o d.buf
=============================================================================
