----------------------------- MODULE BlobUpload -----------------------------
(***************************************************************************)
(* One upload session: the handlers of blobupload.go, the blobWriter that  *)
(* each request opens on the session's files, and the file writer of the   *)
(* filesystem driver below it.                                             *)
(*                                                                         *)
(* Content is a sequence of bytes and the digest of content is the content *)
(* itself.  The session's directory holds startedat, the data file and the *)
(* saved hash states, one per offset.  Every request opens its own writer, *)
(* which buffers what it writes and appends from the end the file had when *)
(* it was opened.  A writer keeps its open file when the path is moved or  *)
(* deleted.  One step is one driver call.                                  *)
(***************************************************************************)
EXTENDS Naturals, Sequences

CONSTANTS Proc,    \* requests that may be served at the same time
          Byte,
          MaxLen,  \* bound: bytes in the upload
          None,    \* no such file
          Uses     \* the ways a session is used

Content == UNION {[1..n -> Byte] : n \in 0..MaxLen}

\* serial: requests come one at a time.  intended: the content every request is about, or None:
\* any content.  purge: the session gets old enough for PurgeUploads.
ASSUME UploadAssumption ==
    /\ Proc # {}
    /\ MaxLen \in Nat
    /\ None \notin Content
    /\ Uses \subseteq [serial : BOOLEAN, intended : Content \cup {None},
                       crash : BOOLEAN, cancel : BOOLEAN, purge : BOOLEAN]

VARIABLES use,         \* how the session is used
          created,     \* the session's uuid has been drawn
          started,     \* the startedat file exists
          file,        \* the data file, or None
          hashStates,  \* [0..MaxLen -> Content \cup {None}]
          tokens,      \* offsets in upload states (_state) handed to the client
          data,        \* blob store: [Content -> Content \cup {None}], by digest
          pc,          \* next driver call of each request
          w            \* the request and its blobWriter

uploadVars == <<created, started, file, hashStates>>
vars == <<use, created, started, file, hashStates, tokens, data, pc, w>>

Kinds == {"post", "get", "patch", "put", "delete"}
Places == {"upload", "blob", "gone"}

\* cut: refused, or the client disconnected.  target: where the file the writer has open
\* is now; blob: under which digest, when it is in the blob store.  size: fileWriter.Size.
\* buf: not flushed yet.  written and hashed: the digester.
NoWriter == [kind |-> "get", off |-> 0, chunk |-> <<>>, dgst |-> <<>>, cut |-> FALSE,
             target |-> "gone", blob |-> <<>>, size |-> 0, buf |-> <<>>, written |-> 0, hashed |-> <<>>,
             closed |-> FALSE]

Steps == {"idle", "open", "write", "cancel", "commit", "commit.store", "validate", "move.stat",
          "move", "link", "remove", "cancel.store", "cancel.remove", "store", "flush", "again"}

\* The session directory, the tokens and the writers have their types; a writer never has more
\* buffered than it took.
TypeOK ==
    /\ created \in BOOLEAN /\ started \in BOOLEAN
    /\ file \in Content \cup {None}
    /\ hashStates \in [0..MaxLen -> Content \cup {None}]
    /\ tokens \subseteq 0..MaxLen
    /\ data \in [Content -> Content \cup {None}]
    /\ pc \in [Proc -> Steps]
    /\ \A p \in Proc :
        /\ w[p].kind \in Kinds
        /\ w[p].target \in Places /\ w[p].blob \in Content
        /\ w[p].size \in 0..MaxLen /\ w[p].written \in 0..MaxLen
        /\ Len(w[p].buf) <= w[p].size
        /\ w[p].hashed \in Content

NoHashStates == [n \in 0..MaxLen |-> None]

Init ==
    /\ use \in Uses
    /\ created = FALSE /\ started = FALSE
    /\ file = None
    /\ hashStates = NoHashStates
    /\ tokens = {}
    /\ data = [d \in Content |-> None]
    /\ pc = [p \in Proc |-> "idle"]
    /\ w = [p \in Proc |-> NoWriter]
-----------------------------------------------------------------------------
Goto(p, s) == pc' = [pc EXCEPT ![p] = s]
Finish(p) == Goto(p, "idle") /\ w' = [w EXCEPT ![p] = NoWriter]

\* The upload's file is deleted while writers have it open.
Dropped ==
    [q \in Proc |-> IF w[q].target = "upload" THEN [w[q] EXCEPT !.target = "gone"] ELSE w[q]]

\* The upload's file becomes the data of d.  What was there is replaced, and lives on only
\* for the writers that have it open.
Moved(d) ==
    [q \in Proc |-> IF w[q].target = "upload" THEN [w[q] EXCEPT !.target = "blob", !.blob = d]
                    ELSE IF w[q].target = "blob" /\ w[q].blob = d
                    THEN [w[q] EXCEPT !.target = "gone", !.blob = <<>>] ELSE w[q]]

\* buf written at offset pos of a file.
WriteAt(content, pos, buf) ==
    [i \in 1..(IF Len(content) > pos + Len(buf) THEN Len(content) ELSE pos + Len(buf)) |->
        IF i \in (pos + 1)..(pos + Len(buf)) THEN buf[i - pos] ELSE content[i]]

\* bufio.Writer.Flush: the buffered bytes end at the writer's size.
FlushTo(u) ==
    LET pos == u.size - Len(u.buf) IN
    /\ file' = IF u.target = "upload" THEN WriteAt(file, pos, u.buf) ELSE file
    /\ data' = IF u.target = "blob"
               THEN [data EXCEPT ![u.blob] = WriteAt(@, pos, u.buf)] ELSE data

\* resumeDigest: the digester is brought to the writer's offset from a saved state.
\* Without one it is reset and, unless nothing is missing, not available.
Resumed(u) ==
    IF u.size = u.written THEN u
    ELSE IF u.size > 0 /\ hashStates[u.size] # None
    THEN [u EXCEPT !.hashed = hashStates[u.size], !.written = u.size]
    ELSE [u EXCEPT !.hashed = <<>>]
Available(u) == Resumed(u).written >= u.size

\* Mutant: the state is filed under the size of the file.
StoreHashState_AtSize(p) == hashStates' = [hashStates EXCEPT ![w[p].size] = w[p].hashed]

\* storeHashState: the state is filed under the bytes this writer hashed.
StoreHashState(p) == hashStates' = [hashStates EXCEPT ![w[p].written] = w[p].hashed]
-----------------------------------------------------------------------------
\* POST: Create writes startedat; the data file is opened next.
StartBlobUpload(p) ==
    /\ pc[p] = "idle"
    /\ ~created
    /\ created' = TRUE /\ started' = TRUE
    /\ w' = [w EXCEPT ![p] = [NoWriter EXCEPT !.kind = "post"]]
    /\ Goto(p, "open")
    /\ UNCHANGED <<file, hashStates, tokens, data>>

\* GET, PATCH, PUT, DELETE: Resume finds startedat.  All but GET bring back an
\* upload state the registry signed.
ResumeBlobUpload(p, kind, off, chunk, dgst) ==
    /\ pc[p] = "idle"
    /\ started
    /\ w' = [w EXCEPT ![p] = [NoWriter EXCEPT !.kind = kind, !.off = off, !.chunk = chunk,
                                             !.dgst = dgst]]
    /\ Goto(p, "open")
    /\ UNCHANGED <<uploadVars, tokens, data>>

\* newBlobUpload opens the data file, creating it if need be; then the offset of the
\* upload state is compared with the size.
Open(p) ==
    LET content == IF file = None THEN <<>> ELSE file
        size == IF w[p].kind = "post" THEN 0 ELSE Len(content) IN
    /\ pc[p] = "open"
    /\ file' = IF w[p].kind = "post" THEN <<>> ELSE content
    /\ IF w[p].kind \in {"post", "get"} \/ size = w[p].off
       THEN /\ w' = [w EXCEPT ![p].target = "upload", ![p].size = size]
            /\ Goto(p, CASE w[p].kind \in {"post", "get"} -> "store"
                         [] w[p].kind \in {"patch", "put"} -> "write"
                         [] w[p].kind = "delete" -> "cancel")
       ELSE Finish(p)
    /\ UNCHANGED <<created, started, hashStates, tokens, data>>

\* copyFullPayload: n bytes of the body arrive and are buffered and hashed; fewer than
\* the whole body when the client disconnects, and then the request ends.
Write(p, n) ==
    LET u == Resumed(w[p])
        got == SubSeq(u.chunk, 1, n) IN
    /\ pc[p] = "write"
    /\ n \in 0..Len(u.chunk)
    /\ u.size + n <= MaxLen
    /\ w' = [w EXCEPT ![p] = [u EXCEPT !.size = u.size + n, !.buf = got, !.written = u.written + n,
                                       !.hashed = u.hashed \o got, !.cut = (n < Len(u.chunk))]]
    /\ Goto(p, IF n = Len(u.chunk) /\ u.kind = "put" THEN "commit" ELSE "store")
    /\ UNCHANGED <<uploadVars, tokens, data>>

\* The handler refuses the request before it reads the body: a wrong Content-Type or
\* Content-Range, no digest.
Refuse(p) ==
    /\ pc[p] = "write"
    /\ w' = [w EXCEPT ![p].cut = TRUE]
    /\ Goto(p, "store")
    /\ UNCHANGED <<uploadVars, tokens, data>>

\* The buffer is full: it reaches the file before the writer is closed.
FlushEarly(p) ==
    /\ pc[p] \in {"store", "commit"}
    /\ w[p].buf # <<>> /\ ~w[p].closed
    /\ FlushTo(w[p])
    /\ w' = [w EXCEPT ![p].buf = <<>>]
    /\ UNCHANGED <<created, started, hashStates, tokens, pc>>
-----------------------------------------------------------------------------
\* blobWriter.Close: the hash state is saved, then the file is flushed and closed.
CloseStore(p) ==
    /\ pc[p] = "store"
    /\ StoreHashState(p)
    /\ Goto(p, "flush")
    /\ UNCHANGED <<created, started, file, tokens, data, w>>

\* Mutant: the answer is sent and the buffer never reaches the file.
CloseFlush_NoFlush(p) ==
    /\ pc[p] = "flush"
    /\ \/ w[p].kind \in {"post", "get", "patch"} /\ ~w[p].cut /\ tokens' = tokens \cup {w[p].size}
       \/ UNCHANGED tokens
    /\ Finish(p)
    /\ UNCHANGED <<uploadVars, data>>

\* The client learns the new offset unless it is gone.
CloseFlush(p) ==
    /\ pc[p] = "flush"
    /\ IF w[p].closed THEN UNCHANGED <<file, data>> ELSE FlushTo(w[p])
    /\ \/ w[p].kind \in {"post", "get", "patch"} /\ ~w[p].cut /\ tokens' = tokens \cup {w[p].size}
       \/ UNCHANGED tokens
    /\ IF w[p].kind \in {"post", "get"} \/ (w[p].kind = "patch" /\ w[p].cut)
       THEN Finish(p)
       ELSE /\ w' = [w EXCEPT ![p].closed = TRUE, ![p].buf = <<>>]
            /\ Goto(p, "again")
    /\ UNCHANGED <<created, started, hashStates>>

\* closeResources closes once more, which saves the hash state once more.
CloseAgain(p) ==
    /\ pc[p] = "again"
    /\ StoreHashState(p)
    /\ Finish(p)
    /\ UNCHANGED <<created, started, file, tokens, data>>
-----------------------------------------------------------------------------
\* blobWriter.Commit: flush, close, validate, move, link, remove the session.
CommitFlush(p) ==
    /\ pc[p] = "commit"
    /\ FlushTo(w[p])
    /\ w' = [w EXCEPT ![p].buf = <<>>, ![p].closed = TRUE]
    /\ Goto(p, "commit.store")
    /\ UNCHANGED <<created, started, hashStates, tokens>>

CommitStore(p) ==
    /\ pc[p] = "commit.store"
    /\ StoreHashState(p)
    /\ Goto(p, "validate")
    /\ UNCHANGED <<created, started, file, tokens, data, w>>

\* validateBlob: the size on disk must be the writer's; then the digester decides if it
\* is available or if this writer wrote everything, and else the file is read.
OnDisk == IF file = None THEN <<>> ELSE file
SizeOK(u) == file = None \/ u.size = 0 \/ u.size = Len(OnDisk)
DigestOK(u) ==
    LET v == Resumed(u) IN
    \/ Available(u) /\ v.hashed = u.dgst
    \/ ~Available(u) /\ v.written = Len(OnDisk) /\ v.hashed = u.dgst
    \/ ~Available(u) /\ OnDisk = u.dgst

\* Mutant: only the size is checked.
Validate_SizeOnly(p) ==
    /\ pc[p] = "validate"
    /\ w' = [w EXCEPT ![p] = Resumed(w[p])]
    /\ Goto(p, IF SizeOK(w[p]) THEN "move.stat" ELSE "store")
    /\ UNCHANGED <<uploadVars, tokens, data>>

Validate(p) ==
    /\ pc[p] = "validate"
    /\ w' = [w EXCEPT ![p] = Resumed(w[p])]
    /\ Goto(p, IF SizeOK(w[p]) /\ DigestOK(w[p]) THEN "move.stat" ELSE "store")
    /\ UNCHANGED <<uploadVars, tokens, data>>

\* A failed Commit is followed by Cancel, which gives up because the file is closed
\* already, and by Close.
MoveStat(p) ==
    /\ pc[p] = "move.stat"
    /\ Goto(p, IF data[w[p].dgst] # None THEN "link" ELSE "move")
    /\ UNCHANGED <<uploadVars, tokens, data, w>>

\* The stat of the upload's own path, and the move.
Move(p) ==
    /\ pc[p] = "move"
    /\ CASE file # None ->
              /\ data' = [data EXCEPT ![w[p].dgst] = file]
              /\ w' = Moved(w[p].dgst)
              /\ file' = None
              /\ Goto(p, "link")
         [] file = None /\ w[p].dgst = <<>> ->
              /\ data' = [data EXCEPT ![<<>>] = <<>>]
              /\ w' = Moved(<<>>)
              /\ Goto(p, "link")
              /\ UNCHANGED file
         [] OTHER ->
              /\ Goto(p, "store")
              /\ UNCHANGED <<data, w, file>>
    /\ UNCHANGED <<created, started, hashStates, tokens>>

Link(p) ==
    /\ pc[p] = "link"
    /\ Goto(p, "remove")
    /\ UNCHANGED <<uploadVars, tokens, data, w>>

\* driver.Delete of the session's directory.
DeleteDir ==
    /\ started' = FALSE
    /\ file' = None
    /\ hashStates' = NoHashStates
    /\ UNCHANGED created

RemoveResources(p) ==
    /\ pc[p] = "remove"
    /\ DeleteDir
    /\ w' = [Dropped EXCEPT ![p] = NoWriter]
    /\ Goto(p, "idle")
    /\ UNCHANGED <<tokens, data>>
-----------------------------------------------------------------------------
\* DELETE: the data file is removed, the hash state saved by Close, the directory
\* removed; then the handler closes the writer again, twice.
CancelFile(p) ==
    /\ pc[p] = "cancel"
    /\ IF file = None
       THEN /\ w' = [w EXCEPT ![p].closed = TRUE]
            /\ Goto(p, "store")
       ELSE /\ w' = [Dropped EXCEPT ![p].closed = TRUE]
            /\ Goto(p, "cancel.store")
    /\ file' = None
    /\ UNCHANGED <<created, started, hashStates, tokens, data>>

CancelStore(p) ==
    /\ pc[p] = "cancel.store"
    /\ StoreHashState(p)
    /\ Goto(p, "cancel.remove")
    /\ UNCHANGED <<created, started, file, tokens, data, w>>

CancelRemove(p) ==
    /\ pc[p] = "cancel.remove"
    /\ DeleteDir
    /\ w' = Dropped
    /\ Goto(p, "store")
    /\ UNCHANGED <<tokens, data>>
-----------------------------------------------------------------------------
\* PurgeUploads removes sessions whose startedat file is old; one without the file is
\* taken to have started in the future.
PurgeUploads ==
    /\ use.purge /\ started /\ tokens # {}
    /\ DeleteDir
    /\ w' = Dropped
    /\ UNCHANGED <<tokens, data, pc>>

\* The server dies: buffers and digesters are lost.
Crash ==
    /\ use.crash
    /\ pc' = [p \in Proc |-> "idle"]
    /\ w' = [p \in Proc |-> NoWriter]
    /\ UNCHANGED <<uploadVars, tokens, data>>

\* What a client may send: any bytes, or at every offset bytes of the same content.
Sent(off, chunk) ==
    use.intended # None /\ chunk # <<>> =>
        /\ off + Len(chunk) <= Len(use.intended)
        /\ chunk = SubSeq(use.intended, off + 1, off + Len(chunk))

NewRequest(p) ==
    /\ use.serial => \A q \in Proc : pc[q] = "idle"
    /\ \/ StartBlobUpload(p)
       \/ tokens # {} /\ ResumeBlobUpload(p, "get", 0, <<>>, <<>>)
       \/ \E off \in tokens :
           \/ \E chunk \in Content :
               /\ Sent(off, chunk)
               /\ \/ ResumeBlobUpload(p, "patch", off, chunk, <<>>)
                  \/ \E dgst \in (IF use.intended = None THEN Content ELSE {use.intended}) :
                       ResumeBlobUpload(p, "put", off, chunk, dgst)
           \/ use.cancel /\ ResumeBlobUpload(p, "delete", off, <<>>, <<>>)

RequestStep(p) ==
    \/ Open(p)
    \/ \E n \in 0..MaxLen : Write(p, n)
    \/ Refuse(p) \/ FlushEarly(p) \/ CloseStore(p) \/ CloseFlush(p) \/ CloseAgain(p)
    \/ CommitFlush(p) \/ CommitStore(p) \/ Validate(p) \/ MoveStat(p) \/ Move(p) \/ Link(p)
    \/ RemoveResources(p)
    \/ CancelFile(p) \/ CancelStore(p) \/ CancelRemove(p)

Next ==
    /\ (\E p \in Proc : NewRequest(p) \/ RequestStep(p)) \/ PurgeUploads \/ Crash
    /\ UNCHANGED use

Spec == Init /\ [][Next]_vars
-----------------------------------------------------------------------------
(***************************************************************************)
(* validateBlob "checks the data against the digest, returning an error if *)
(* it does not match": the data under a digest in the blob store is the    *)
(* content that has this digest.                                           *)
(***************************************************************************)
ContentMatchesDigest == \A d \in Content : data[d] \in {d, None}

(***************************************************************************)
(* When requests come one at a time and the server does not crash, a hash  *)
(* state saved under the size of the file is the hash of the file, so that *)
(* a later request may continue from it without reading the file.          *)
(***************************************************************************)
HashStateFits ==
    use.serial /\ ~use.crash /\ (\A p \in Proc : pc[p] = "idle") /\ file \notin {None, <<>>}
        => hashStates[Len(file)] \in {file, None}

(***************************************************************************)
(* An offset the client was told is an offset the file has reached on      *)
(* disk, and stays so whatever requests overlap and crash, until the       *)
(* upload is moved or dropped.                                             *)
(***************************************************************************)
AckedPersisted ==
    started /\ file # None /\ (\A d \in Content : data[d] = None)
        => \A off \in tokens : off <= Len(file)

(***************************************************************************)
(* moveBlob: a zero-length file is never moved "into a nonzero-length blob *)
(* location".                                                              *)
(***************************************************************************)
NoEmptyBlob == \A d \in Content \ {<<>>} : data[d] # <<>>
=============================================================================
