------------------------- MODULE BlobUpload_proofs -------------------------
(***************************************************************************)
(* What an upload session keeps, for every set of requests, every alphabet *)
(* and every length: an offset the client was told stays on disk; a saved  *)
(* hash state fits the file; and what is committed has its digest.         *)
(***************************************************************************)
EXTENDS BlobUpload, TLAPS, SequenceTheorems

Writer == [kind : Kinds, off : Nat, chunk : Content, dgst : Content, cut : BOOLEAN,
           target : Places, blob : Content, size : 0..MaxLen, buf : Content,
           written : 0..MaxLen, hashed : Content, closed : BOOLEAN]

Types ==
    /\ use \in Uses /\ created \in BOOLEAN /\ started \in BOOLEAN
    /\ file \in Content \cup {None}
    /\ hashStates \in [0..MaxLen -> Content \cup {None}]
    /\ tokens \subseteq 0..MaxLen
    /\ data \in [Content -> Content \cup {None}]
    /\ pc \in [Proc -> Steps]
    /\ w \in [Proc -> Writer]

Begun == {"open", "write", "cancel"}
Closed == {"commit.store", "validate", "move.stat", "move", "link", "remove",
           "cancel.store", "cancel.remove", "again"}

\* A writer's bytes: what it buffered is the end of what it took, and what it hashed is no
\* longer than that.
WriterOK(s, u) ==
    /\ s = "idle" => u = NoWriter
    /\ s \in Begun => u.buf = <<>> /\ u.written = 0 /\ u.hashed = <<>> /\ ~u.closed
    /\ s = "open" => u.target = "gone"
    /\ s \in Closed => u.closed
    /\ u.closed => u.buf = <<>>
    /\ Len(u.buf) <= u.size /\ u.written <= u.size /\ Len(u.hashed) <= u.written

\* A writer starts to write inside the file it has open, or at its end.
PlaceOK(u, f, blobs) ==
    /\ u.target = "upload" => f # None /\ u.size <= Len(f) + Len(u.buf)
    /\ u.target = "blob" => blobs[u.blob] # None /\ u.size <= Len(blobs[u.blob]) + Len(u.buf)

StatesOK == \A n \in 0..MaxLen : hashStates[n] # None => Len(hashStates[n]) <= n

Deleting == {"cancel", "cancel.store", "cancel.remove"}

\* Only the first request is a POST; every other one brings back an offset.
OrderOK ==
    /\ ~created => /\ ~started /\ file = None /\ tokens = {} /\ hashStates = NoHashStates
                   /\ \A p \in Proc : pc[p] = "idle"
    /\ \A p \in Proc : pc[p] # "idle" /\ w[p].kind # "post" => tokens # {}
    /\ \A p, q \in Proc : pc[p] # "idle" /\ w[p].kind = "post" /\ pc[q] # "idle" /\ w[q].kind = "post"
                             => p = q
    /\ \A p \in Proc : pc[p] = "open" /\ w[p].kind = "post" => tokens = {} /\ file = None
    /\ \A p \in Proc : pc[p] \in Deleting \/ (pc[p] = "open" /\ w[p].kind = "delete") => use.cancel
    /\ use.serial => \A p, q \in Proc : pc[p] # "idle" /\ pc[q] # "idle" => p = q

NoData == \A d \in Content : data[d] = None
Dropping == {"cancel.store", "cancel.remove"}
OneAtATime == use.serial /\ ~use.crash
\* Without DELETE any requests may overlap and crash.
AckUse == ~use.cancel \/ OneAtATime

\* The file a client was told about is there, and all who write have it open.
AckedOK ==
    AckUse /\ started /\ NoData =>
        /\ tokens # {} => file # None \/ \E p \in Proc : pc[p] \in Dropping
        /\ file # None => \A off \in tokens : off <= Len(file)
        /\ \A p \in Proc : pc[p] \notin {"idle", "open"} \cup Dropping => w[p].target = "upload"

\* No hash state lies beyond v, and the one that ends where v ends is that of v.
HashFits(states, v) ==
    \A n \in 0..MaxLen : states[n] # None => n <= Len(v) /\ (n = Len(v) => states[n] = v)

Alone(p) == \A q \in Proc : q # p => pc[q] = "idle"

\* The only request, in step s with writer u: the file and its buffer are what it has taken,
\* and the hash states fit that.
Solo(s, u) ==
    /\ s \notin {"idle", "open"} /\ file # None => u.target = "upload"
    /\ u.target = "upload" => /\ u.size = Len(file) + Len(u.buf)
                              /\ u.written = u.size => u.hashed = file \o u.buf
    /\ u.target = "blob" => s \in {"link", "remove"}
    /\ file # None => HashFits(hashStates, file \o u.buf)
    /\ s = "open" /\ file = None => hashStates = NoHashStates
    /\ started /\ file = None => s \in {"open", "link", "remove"} \cup Dropping
    /\ s \in {"move.stat", "move"} /\ file # None => file = u.dgst

SerialOK ==
    OneAtATime => /\ ContentMatchesDigest
                  /\ \A p \in Proc : Alone(p) => Solo(pc[p], w[p])

UploadInv ==
    /\ Types
    /\ \A p \in Proc : WriterOK(pc[p], w[p]) /\ PlaceOK(w[p], file, data)
    /\ StatesOK /\ OrderOK /\ AckedOK /\ SerialOK
-----------------------------------------------------------------------------
\* Content is the bounded sequences of bytes.
LEMMA ContentSeq ==
    ASSUME NEW s
    PROVE  s \in Content <=> s \in Seq(Byte) /\ Len(s) <= MaxLen
<1>1. ASSUME s \in Content PROVE s \in Seq(Byte) /\ Len(s) <= MaxLen
  <2>1. PICK n \in 0..MaxLen : s \in [1..n -> Byte]
    BY <1>1 DEF Content
  <2>2. n \in Nat
    BY UploadAssumption, <2>1
  <2>3. s \in Seq(Byte) /\ Len(s) = n
    BY <2>1, <2>2
  <2> QED
    BY <2>1, <2>3, UploadAssumption
<1>2. ASSUME s \in Seq(Byte), Len(s) <= MaxLen PROVE s \in Content
  <2>1. Len(s) \in 0..MaxLen /\ s \in [1..Len(s) -> Byte]
    BY <1>2, UploadAssumption
  <2> QED
    BY <2>1 DEF Content
<1> QED
  BY <1>1, <1>2

\* The empty content, and content is never the mark of a missing file.
LEMMA EmptyContent == <<>> \in Content /\ Len(<<>>) = 0 /\ None \notin Content
<1>1. <<>> \in Seq(Byte)
  BY EmptySeq
<1>2. Len(<<>>) = 0
  BY EmptySeq
<1>3. Len(<<>>) <= MaxLen
  BY <1>2, UploadAssumption
<1>4. <<>> \in Content
  BY <1>1, <1>3, ContentSeq, ZenonT(30)
<1> QED
  BY <1>2, <1>4, UploadAssumption

\* Length of content.
LEMMA ContentLen ==
    ASSUME NEW s \in Content
    PROVE  s \in Seq(Byte) /\ Len(s) \in 0..MaxLen /\ Len(s) \in Nat /\ s # None
           /\ (Len(s) = 0 <=> s = <<>>)
<1>1. s \in Seq(Byte) /\ Len(s) <= MaxLen
  BY ContentSeq
<1>2. Len(s) \in Nat /\ Len(s) \in 0..MaxLen /\ (Len(s) = 0 <=> s = <<>>)
  BY <1>1, UploadAssumption, EmptySeq
<1>3. s # None
  BY EmptyContent
<1> QED
  BY <1>1, <1>2, <1>3

\* Appending content.
LEMMA ContentCat ==
    ASSUME NEW s \in Content, NEW t \in Content
    PROVE  /\ s \o t \in Seq(Byte) /\ Len(s \o t) = Len(s) + Len(t)
           /\ Len(s) + Len(t) <= MaxLen => s \o t \in Content
           /\ t = <<>> => s \o t = s
<1>1. s \in Seq(Byte) /\ t \in Seq(Byte)
  BY ContentSeq
<1>2. s \o t \in Seq(Byte) /\ Len(s \o t) = Len(s) + Len(t)
  BY <1>1
<1>3. t = <<>> => s \o t = s
  BY <1>1
<1> QED
  BY <1>2, <1>3, ContentSeq, ZenonT(30)

\* What arrives of a body.
LEMMA ContentPrefix ==
    ASSUME NEW s \in Content, NEW n \in 0..Len(s)
    PROVE  SubSeq(s, 1, n) \in Content /\ Len(SubSeq(s, 1, n)) = n /\ n \in Nat
<1>1. s \in Seq(Byte) /\ Len(s) <= MaxLen /\ Len(s) \in Nat
  BY ContentSeq, ContentLen
<1>2. n \in Nat /\ n <= MaxLen
  BY <1>1, UploadAssumption
<1>3. SubSeq(s, 1, n) \in Seq(Byte) /\ Len(SubSeq(s, 1, n)) = n
  BY <1>1, <1>2
<1> QED
  BY <1>2, <1>3, ContentSeq, ZenonT(30)

\* A write that starts inside a file or at its end keeps the file's length or extends it;
\* at the end it appends.
LEMMA WriteAtContent ==
    ASSUME NEW c \in Content, NEW pos \in Nat, NEW buf \in Content,
           pos <= Len(c), pos + Len(buf) <= MaxLen
    PROVE  /\ WriteAt(c, pos, buf) \in Content
           /\ Len(WriteAt(c, pos, buf)) >= Len(c)
           /\ Len(WriteAt(c, pos, buf)) >= pos + Len(buf)
           /\ pos = Len(c) => WriteAt(c, pos, buf) = c \o buf
<1> DEFINE n == IF Len(c) > pos + Len(buf) THEN Len(c) ELSE pos + Len(buf)
<1>1. /\ c \in Seq(Byte) /\ buf \in Seq(Byte) /\ Len(c) \in Nat /\ Len(buf) \in Nat
      /\ Len(c) <= MaxLen /\ MaxLen \in Nat
  BY ContentLen, UploadAssumption
<1>2. n \in Nat /\ n >= Len(c) /\ n >= pos + Len(buf) /\ n <= MaxLen
  BY <1>1
<1>3. WriteAt(c, pos, buf) = [i \in 1..n |-> IF i \in (pos + 1)..(pos + Len(buf))
                                             THEN buf[i - pos] ELSE c[i]]
  BY DEF WriteAt
<1>4. ASSUME NEW i \in 1..n
      PROVE (IF i \in (pos + 1)..(pos + Len(buf)) THEN buf[i - pos] ELSE c[i]) \in Byte
  <2>1. CASE i \in (pos + 1)..(pos + Len(buf))
    <3>1. i - pos \in 1..Len(buf)
      BY <1>1, <2>1
    <3> QED
      BY <1>1, <2>1, <3>1
  <2>2. CASE i \notin (pos + 1)..(pos + Len(buf))
    <3>1. i \in 1..Len(c)
      BY <1>1, <2>2
    <3> QED
      BY <1>1, <2>2, <3>1
  <2> QED
    BY <2>1, <2>2
<1> HIDE DEF n
<1>5. WriteAt(c, pos, buf) \in [1..n -> Byte]
  BY <1>3, <1>4
<1>6. WriteAt(c, pos, buf) \in Seq(Byte) /\ Len(WriteAt(c, pos, buf)) = n
  BY <1>2, <1>5
<1>7. ASSUME pos = Len(c) PROVE WriteAt(c, pos, buf) = c \o buf
  <2>1. c \o buf \in Seq(Byte) /\ Len(c \o buf) = Len(c) + Len(buf)
    BY <1>1
  <2>2. n = Len(c) + Len(buf)
    BY <1>1, <1>7 DEF n
  <2>3. ASSUME NEW i \in 1..n PROVE WriteAt(c, pos, buf)[i] = (c \o buf)[i]
    <3>1. WriteAt(c, pos, buf)[i] = IF i \in (pos + 1)..(pos + Len(buf)) THEN buf[i - pos] ELSE c[i]
      BY <1>3, <2>3
    <3>2. (c \o buf)[i] = IF i <= Len(c) THEN c[i] ELSE buf[i - Len(c)]
      BY <1>1, <2>2, <2>3
    <3>3. i \in (pos + 1)..(pos + Len(buf)) <=> ~(i <= Len(c))
      BY <1>1, <1>7, <2>2, <2>3
    <3> QED
      BY <3>1, <3>2, <3>3, <1>7
  <2> QED
    BY <1>6, <2>1, <2>2, <2>3, SeqEqual, ZenonT(30)
<1> QED
  BY <1>2, <1>6, <1>7, ContentSeq
-----------------------------------------------------------------------------
\* A request that is not running has the empty writer.
LEMMA NoWriterIs ==
    /\ NoWriter \in Writer
    /\ NoWriter.target = "gone" /\ NoWriter.buf = <<>> /\ NoWriter.size = 0
    /\ NoWriter.written = 0 /\ NoWriter.hashed = <<>> /\ ~NoWriter.closed /\ NoWriter.kind = "get"
    /\ WriterOK("idle", NoWriter)
<1>1. 0 \in 0..MaxLen /\ 0 \in Nat /\ <<>> \in Content /\ Len(<<>>) = 0
  BY UploadAssumption, EmptyContent
<1>2. NoWriter \in Writer
  BY <1>1 DEF NoWriter, Writer, Kinds, Places
<1>3. /\ NoWriter.target = "gone" /\ NoWriter.buf = <<>> /\ NoWriter.size = 0
      /\ NoWriter.written = 0 /\ NoWriter.hashed = <<>> /\ ~NoWriter.closed /\ NoWriter.kind = "get"
  BY DEF NoWriter
<1> QED
  BY <1>1, <1>2, <1>3 DEF WriterOK, Begun, Closed

\* The fields of a writer.
LEMMA WriterFields ==
    ASSUME NEW u \in Writer
    PROVE  /\ u.kind \in Kinds /\ u.off \in Nat /\ u.chunk \in Content /\ u.dgst \in Content
           /\ u.cut \in BOOLEAN /\ u.target \in Places /\ u.blob \in Content
           /\ u.size \in 0..MaxLen /\ u.size \in Nat /\ u.buf \in Content /\ Len(u.buf) \in Nat
           /\ u.written \in 0..MaxLen /\ u.written \in Nat
           /\ u.hashed \in Content /\ Len(u.hashed) \in Nat /\ u.closed \in BOOLEAN
<1>1. /\ u.kind \in Kinds /\ u.off \in Nat /\ u.chunk \in Content /\ u.dgst \in Content
      /\ u.cut \in BOOLEAN /\ u.target \in Places /\ u.blob \in Content
      /\ u.size \in 0..MaxLen /\ u.buf \in Content
      /\ u.written \in 0..MaxLen /\ u.hashed \in Content /\ u.closed \in BOOLEAN
  BY DEF Writer
<1>2. u.size \in Nat /\ u.written \in Nat
  BY <1>1, UploadAssumption
<1> QED
  BY <1>1, <1>2, ContentLen

\* The order of requests survives a step of one of them.
LEMMA OrderStep ==
    ASSUME OrderOK, Types, NEW p \in Proc, pc[p] # "idle", use' = use, created' = created,
           w' \in [Proc -> Writer], pc' = [pc EXCEPT ![p] = pc'[p]],
           tokens \subseteq tokens', pc[p] = "open" => tokens' = tokens,
           \A q \in Proc : w'[q].kind = w[q].kind \/ pc'[q] = "idle",
           pc'[p] # "open",
           pc'[p] \in Deleting => pc[p] \in Deleting \/ (pc[p] = "open" /\ w[p].kind = "delete")
    PROVE  OrderOK'
<1>1. created
  BY DEF OrderOK
<1>2. \A q \in Proc : q # p => pc'[q] = pc[q]
  BY DEF Types
<1>3. \A q \in Proc : pc'[q] # "idle" => pc[q] # "idle" /\ w'[q].kind = w[q].kind
  BY <1>2
<1>4. \A q \in Proc : pc'[q] # "idle" /\ w'[q].kind # "post" => tokens' # {}
  BY <1>3 DEF OrderOK
<1>5. \A q, r \in Proc : pc'[q] # "idle" /\ w'[q].kind = "post" /\ pc'[r] # "idle" /\ w'[r].kind = "post"
                             => q = r
  BY <1>3 DEF OrderOK
<1>6. ASSUME NEW q \in Proc, pc'[q] = "open", w'[q].kind = "post" PROVE tokens' = {} /\ file' = None
  <2>1. q # p /\ pc[q] = "open" /\ w[q].kind = "post" /\ tokens = {}
    BY <1>2, <1>3, <1>6 DEF OrderOK
  <2>2. w[p].kind # "post"
    BY <2>1 DEF OrderOK
  <2> QED
    BY <2>1, <2>2 DEF OrderOK
<1>7. \A q \in Proc : pc'[q] \in Deleting \/ (pc'[q] = "open" /\ w'[q].kind = "delete") => use'.cancel
  BY <1>2, <1>3 DEF OrderOK
<1>8. use'.serial => \A q, r \in Proc : pc'[q] # "idle" /\ pc'[r] # "idle" => q = r
  BY <1>3 DEF OrderOK
<1> QED
  BY <1>1, <1>4, <1>5, <1>6, <1>7, <1>8 DEF OrderOK

\* The acknowledged offsets survive a step of a request that keeps what it has open, and that
\* only answers with an offset the file has reached.
LEMMA AckedStep ==
    ASSUME UploadInv, NEW p \in Proc, pc[p] \notin {"idle", "open"} \cup Dropping,
           use' = use, started' = started, NoData' => NoData,
           pc' = [pc EXCEPT ![p] = pc'[p]], pc'[p] \notin {"open"} \cup Dropping,
           w[p].target = "upload" =>
               /\ file' # None /\ Len(file) \in Nat /\ Len(file') \in Nat /\ Len(file) <= Len(file')
               /\ \A off \in tokens' : off \in tokens \/ off <= Len(file'),
           \A q \in Proc : w'[q].target = w[q].target \/ pc'[q] = "idle"
    PROVE  AckedOK'
<1> SUFFICES ASSUME AckUse, started, NoData PROVE AckedOK'
  BY DEF AckedOK, AckUse, OneAtATime
<1>1. w[p].target = "upload" /\ file # None
  BY ZenonT(30) DEF UploadInv, AckedOK, PlaceOK
<1>2. \A off \in tokens : off <= Len(file) /\ off \in Nat
  BY <1>1, UploadAssumption DEF UploadInv, AckedOK, Types
<1>3. \A off \in tokens' : off <= Len(file')
  BY <1>1, <1>2
<1>4. \A q \in Proc : pc'[q] \notin {"idle", "open"} \cup Dropping => w'[q].target = "upload"
  <2>1. \A q \in Proc : q # p => pc'[q] = pc[q]
    BY DEF UploadInv, Types
  <2> QED
    BY <1>1, <2>1 DEF UploadInv, AckedOK
<1> QED
  BY <1>1, <1>3, <1>4 DEF AckedOK

\* One request at a time: the others are idle.
LEMMA OthersIdle ==
    ASSUME UploadInv, NEW p \in Proc, pc[p] # "idle", use.serial
    PROVE  Alone(p) /\ \A q \in Proc : q # p => w[q] = NoWriter
<1>1. \A q \in Proc : q # p => pc[q] = "idle"
  BY DEF UploadInv, OrderOK
<1> QED
  BY <1>1 DEF UploadInv, WriterOK, Alone

\* It is enough to follow the only request.
LEMMA SerialStep ==
    ASSUME UploadInv, NEW p \in Proc, pc[p] # "idle", use' = use,
           pc' = [pc EXCEPT ![p] = pc'[p]],
           pc'[p] = "idle" => w'[p] = NoWriter,
           \A q \in Proc : q # p => w'[q] = w[q] \/ w[q].target # "gone",
           OneAtATime => ContentMatchesDigest' /\ Solo(pc[p], w[p])'
    PROVE  SerialOK'
<1> SUFFICES ASSUME OneAtATime PROVE SerialOK'
  BY DEF SerialOK, OneAtATime
<1>1. \A q \in Proc : q # p => pc[q] = "idle" /\ w[q] = NoWriter
  BY OthersIdle DEF OneAtATime, Alone
<1>2. \A q \in Proc : q # p => pc'[q] = "idle" /\ w'[q] = NoWriter
  BY <1>1, NoWriterIs DEF UploadInv, Types
<1>3. ASSUME NEW q \in Proc, Alone(q)' PROVE Solo(pc[q], w[q])'
  <2>1. CASE q = p
    BY <2>1
  <2>2. CASE q # p
    <3>1. pc'[p] = pc'[q] /\ w'[p] = w'[q]
      BY <1>2, <1>3, <2>2 DEF Alone
    <3> QED
      BY <3>1 DEF Solo, HashFits
  <2> QED
    BY <2>1, <2>2
<1> QED
  BY <1>3 DEF SerialOK
-----------------------------------------------------------------------------
\* Arithmetic of a writer's position.
LEMMA Fits ==
    ASSUME NEW size \in Nat, NEW len \in Nat, NEW buf \in Nat, size <= len + buf
    PROVE  size - buf <= len /\ \A longer \in Nat : len <= longer => size <= longer + buf
OBVIOUS

\* A flush only extends files, up to the writer's size; at the end of the file it appends.
LEMMA FlushOK ==
    ASSUME UploadInv, NEW p \in Proc, FlushTo(w[p])
    PROVE  /\ file' \in Content \cup {None} /\ data' \in [Content -> Content \cup {None}]
           /\ file' = None <=> file = None
           /\ file # None => Len(file) \in Nat /\ Len(file') \in Nat /\ Len(file) <= Len(file')
           /\ \A d \in Content :
                 /\ data'[d] = None <=> data[d] = None
                 /\ data[d] # None => Len(data[d]) \in Nat /\ Len(data'[d]) \in Nat
                                      /\ Len(data[d]) <= Len(data'[d])
           /\ w[p].target = "upload" => w[p].size <= Len(file') /\ data' = data
           /\ w[p].target = "upload" /\ w[p].size = Len(file) + Len(w[p].buf)
                 => file' = file \o w[p].buf
           /\ w[p].target = "blob" => w[p].size <= Len(data'[w[p].blob]) /\ file' = file
           /\ w[p].target = "gone" => file' = file /\ data' = data
<1> DEFINE u == w[p]
<1> DEFINE pos == u.size - Len(u.buf)
<1>1. u \in Writer /\ WriterOK(pc[p], u) /\ PlaceOK(u, file, data)
  BY DEF UploadInv, Types
<1>2. /\ u.size \in Nat /\ u.size <= MaxLen /\ u.buf \in Content /\ Len(u.buf) \in Nat
      /\ Len(u.buf) <= u.size /\ u.target \in Places /\ u.blob \in Content
  BY <1>1, WriterFields, UploadAssumption DEF WriterOK
<1>3. pos \in Nat /\ pos + Len(u.buf) = u.size
  BY <1>2
<1>4. /\ file' = IF u.target = "upload" THEN WriteAt(file, pos, u.buf) ELSE file
      /\ data' = IF u.target = "blob" THEN [data EXCEPT ![u.blob] = WriteAt(data[u.blob], pos, u.buf)]
                                      ELSE data
  BY DEF FlushTo
<1>5. file \in Content \cup {None} /\ data \in [Content -> Content \cup {None}]
  BY DEF UploadInv, Types
<1>6. ASSUME u.target = "upload"
      PROVE  /\ file \in Content /\ file' \in Content /\ Len(file) <= Len(file')
             /\ u.size <= Len(file') /\ data' = data
             /\ u.size = Len(file) + Len(u.buf) => file' = file \o u.buf
  <2>1. file \in Content /\ u.size <= Len(file) + Len(u.buf) /\ Len(file) \in Nat
    BY <1>1, <1>5, <1>6, ContentLen DEF PlaceOK
  <2>2. pos <= Len(file) /\ (u.size = Len(file) + Len(u.buf) => pos = Len(file))
    BY <1>2, <2>1
  <2>3. file' = WriteAt(file, pos, u.buf) /\ data' = data
    BY <1>4, <1>6
  <2> HIDE DEF pos, u
  <2>4. /\ WriteAt(file, pos, u.buf) \in Content
        /\ Len(WriteAt(file, pos, u.buf)) >= Len(file)
        /\ Len(WriteAt(file, pos, u.buf)) >= pos + Len(u.buf)
        /\ pos = Len(file) => WriteAt(file, pos, u.buf) = file \o u.buf
    BY <1>2, <1>3, <2>1, <2>2, WriteAtContent, ZenonT(30)
  <2>5. Len(file') \in Nat
    BY <2>3, <2>4, ContentLen
  <2> QED
    BY <1>2, <1>3, <2>1, <2>2, <2>3, <2>4, <2>5
<1>7. ASSUME u.target = "blob"
      PROVE  /\ data[u.blob] \in Content /\ data'[u.blob] \in Content
             /\ Len(data[u.blob]) <= Len(data'[u.blob]) /\ u.size <= Len(data'[u.blob])
             /\ data' = [data EXCEPT ![u.blob] = data'[u.blob]] /\ file' = file
  <2>1. /\ data[u.blob] \in Content /\ u.size <= Len(data[u.blob]) + Len(u.buf)
        /\ Len(data[u.blob]) \in Nat
    BY <1>1, <1>2, <1>5, <1>7, ContentLen, ZenonT(30) DEF PlaceOK
  <2>2. pos <= Len(data[u.blob])
    BY <1>2, <2>1, Fits, ZenonT(30)
  <2>3. data' = [data EXCEPT ![u.blob] = WriteAt(data[u.blob], pos, u.buf)] /\ file' = file
    BY <1>4, <1>7
  <2> HIDE DEF pos, u
  <2>4. data'[u.blob] = WriteAt(data[u.blob], pos, u.buf)
    BY <1>2, <1>5, <2>3
  <2>5. /\ WriteAt(data[u.blob], pos, u.buf) \in Content
        /\ Len(WriteAt(data[u.blob], pos, u.buf)) >= Len(data[u.blob])
        /\ Len(WriteAt(data[u.blob], pos, u.buf)) >= pos + Len(u.buf)
    BY <1>2, <1>3, <2>1, <2>2, WriteAtContent
  <2>6. Len(data'[u.blob]) \in Nat
    BY <2>4, <2>5, ContentLen
  <2> QED
    BY <1>2, <1>3, <2>1, <2>3, <2>4, <2>5, <2>6, ZenonT(30)
<1>8. u.target = "gone" => file' = file /\ data' = data
  BY <1>4
<1> HIDE DEF u, pos
<1>9. \A c \in Content : Len(c) \in Nat /\ c # None
  BY ContentLen
<1>10. CASE u.target = "upload"
  BY <1>5, <1>6, <1>9, <1>10 DEF u
<1>11. CASE u.target = "blob"
  <2>1. data' \in [Content -> Content \cup {None}]
    BY <1>2, <1>5, <1>7, <1>11
  <2>2. ASSUME NEW d \in Content
        PROVE  /\ data'[d] = None <=> data[d] = None
               /\ data[d] # None => Len(data[d]) \in Nat /\ Len(data'[d]) \in Nat
                                      /\ Len(data[d]) <= Len(data'[d])
    <3>1. CASE d = u.blob
      BY <1>7, <1>9, <1>11, <3>1
    <3>2. CASE d # u.blob
      BY <1>5, <1>7, <1>9, <1>11, <3>2
    <3> QED
      BY <3>1, <3>2
  <2> QED
    BY <1>5, <1>7, <1>9, <1>11, <2>1, <2>2 DEF u
<1>12. CASE u.target = "gone"
  BY <1>5, <1>8, <1>9, <1>12 DEF u
<1> QED
  BY <1>2, <1>10, <1>11, <1>12 DEF Places

\* The writers of the other requests still start inside their files after a flush.
LEMMA FlushPlaces ==
    ASSUME UploadInv, NEW p \in Proc, FlushTo(w[p])
    PROVE  /\ \A q \in Proc : PlaceOK(w[q], file', data')
           /\ w[p].target = "upload" => w[p].size <= Len(file')
           /\ w[p].target = "blob" => w[p].size <= Len(data'[w[p].blob])
           /\ NoData' => NoData
<1>1. ASSUME NEW q \in Proc PROVE PlaceOK(w[q], file', data')
  <2>1. /\ PlaceOK(w[q], file, data) /\ w[q].size \in Nat /\ Len(w[q].buf) \in Nat
        /\ w[q].blob \in Content
    BY WriterFields DEF UploadInv, Types
  <2>2. w[q].target = "upload" => file' # None /\ w[q].size <= Len(file') + Len(w[q].buf)
    BY <2>1, FlushOK DEF PlaceOK
  <2>3. w[q].target = "blob" => /\ data'[w[q].blob] # None
                                /\ w[q].size <= Len(data'[w[q].blob]) + Len(w[q].buf)
    <3> SUFFICES ASSUME w[q].target = "blob"
                 PROVE  /\ data'[w[q].blob] # None
                        /\ w[q].size <= Len(data'[w[q].blob]) + Len(w[q].buf)
      BY ZenonT(30)
    <3>1. data[w[q].blob] # None /\ w[q].size <= Len(data[w[q].blob]) + Len(w[q].buf)
      BY <2>1, ZenonT(30) DEF PlaceOK
    <3>2. /\ data'[w[q].blob] # None /\ Len(data[w[q].blob]) \in Nat /\ Len(data'[w[q].blob]) \in Nat
          /\ Len(data[w[q].blob]) <= Len(data'[w[q].blob])
      BY <2>1, <3>1, FlushOK
    <3> QED
      BY <2>1, <3>1, <3>2, Fits, ZenonT(30)
  <2> QED
    BY <2>2, <2>3, ZenonT(30) DEF PlaceOK
<1>2. NoData' => NoData
  BY FlushOK DEF NoData
<1> QED
  BY <1>1, <1>2, FlushOK

\* One request at a time: the request that runs is the only one.
LEMMA SoloNow ==
    ASSUME UploadInv, NEW p \in Proc, pc[p] # "idle", OneAtATime
    PROVE  Solo(pc[p], w[p]) /\ ContentMatchesDigest
BY OthersIdle DEF UploadInv, SerialOK, OneAtATime

\* A saved hash state is no longer than its offset, and fits what the only writer has.
LEMMA StoreOK ==
    ASSUME UploadInv, NEW p \in Proc, StoreHashState(p)
    PROVE  /\ hashStates' \in [0..MaxLen -> Content \cup {None}]
           /\ \A n \in 0..MaxLen : hashStates'[n] # None => Len(hashStates'[n]) <= n
           /\ pc[p] \notin {"idle", "open"} /\ OneAtATime /\ file # None
                 => HashFits(hashStates', file \o w[p].buf)
<1>1. /\ w[p].written \in 0..MaxLen /\ w[p].hashed \in Content /\ Len(w[p].hashed) <= w[p].written
      /\ w[p].written <= w[p].size /\ w[p].size \in Nat /\ w[p].written \in Nat
      /\ w[p].buf \in Content /\ Len(w[p].buf) \in Nat
  BY WriterFields DEF UploadInv, Types, WriterOK
<1>2. hashStates \in [0..MaxLen -> Content \cup {None}]
  BY DEF UploadInv, Types
<1>3. hashStates' = [hashStates EXCEPT ![w[p].written] = w[p].hashed]
  BY DEF StoreHashState
<1>4. hashStates' \in [0..MaxLen -> Content \cup {None}]
  BY <1>1, <1>2, <1>3
<1>5. \A n \in 0..MaxLen : hashStates'[n] = IF n = w[p].written THEN w[p].hashed ELSE hashStates[n]
  BY <1>2, <1>3
<1>6. \A n \in 0..MaxLen : hashStates'[n] # None => Len(hashStates'[n]) <= n
  BY <1>1, <1>5 DEF UploadInv, StatesOK
<1>7. ASSUME pc[p] \notin {"idle", "open"}, OneAtATime, file # None
      PROVE  HashFits(hashStates', file \o w[p].buf)
  <2>1. Solo(pc[p], w[p])
    BY <1>7, SoloNow
  <2>2. /\ HashFits(hashStates, file \o w[p].buf)
        /\ w[p].size = Len(file) + Len(w[p].buf)
        /\ w[p].written = w[p].size => w[p].hashed = file \o w[p].buf
    BY <1>7, <2>1 DEF Solo
  <2>3. file \in Content
    BY <1>7 DEF UploadInv, Types
  <2>4. Len(file \o w[p].buf) = w[p].size
    BY <1>1, <2>2, <2>3, ContentCat
  <2> DEFINE v == file \o w[p].buf
  <2> HIDE DEF v
  <2>5. /\ HashFits(hashStates, v) /\ Len(v) = w[p].size
        /\ w[p].written = w[p].size => w[p].hashed = v
    BY <2>2, <2>4 DEF v
  <2>6. HashFits(hashStates', v)
    BY <1>1, <1>5, <2>5 DEF HashFits
  <2> QED
    BY <2>6 DEF v
<1> QED
  BY <1>4, <1>6, <1>7

\* Close and Commit save the hash state; the request goes on.
StoreStep(p, from, to) ==
    /\ pc[p] = from
    /\ StoreHashState(p)
    /\ pc' = [pc EXCEPT ![p] = to]
    /\ UNCHANGED <<use, created, started, file, tokens, data, w>>

\* Saving the hash state keeps the invariant.
LEMMA StoreHashStep ==
    ASSUME UploadInv, NEW p \in Proc, NEW from, NEW to, StoreStep(p, from, to),
           <<from, to>> \in {<<"store", "flush">>, <<"commit.store", "validate">>,
                            <<"cancel.store", "cancel.remove">>}
    PROVE  UploadInv'
<1>1. /\ pc[p] = from /\ pc' = [pc EXCEPT ![p] = to] /\ StoreHashState(p)
      /\ UNCHANGED <<use, created, started, file, tokens, data, w>>
  BY DEF StoreStep
<1>2. /\ from \notin {"idle", "open"} /\ to \in Steps /\ to \notin {"idle", "open"}
      /\ (from \in Closed) <=> (to \in Closed)
      /\ from \in Dropping <=> to \in Dropping
      /\ from \in Deleting <=> to \in Deleting
      /\ from \notin {"link", "remove"} /\ to \notin Begun /\ to \notin {"move.stat", "move"}
  BY DEF Steps, Closed, Dropping, Deleting, Begun
<1>3. pc'[p] = to /\ \A q \in Proc : q # p => pc'[q] = pc[q]
  BY <1>1 DEF UploadInv, Types
<1>4. Types'
  BY <1>1, <1>2, StoreOK DEF UploadInv, Types
<1>5. StatesOK'
  BY <1>1, StoreOK DEF StatesOK
<1>6. ASSUME NEW q \in Proc PROVE WriterOK(pc'[q], w'[q]) /\ PlaceOK(w'[q], file', data')
  <2>1. WriterOK(pc[q], w[q]) /\ PlaceOK(w[q], file, data)
    BY DEF UploadInv
  <2>2. CASE q = p
    BY <1>1, <1>2, <1>3, <2>1, <2>2 DEF WriterOK
  <2>3. CASE q # p
    BY <1>1, <1>3, <2>1, <2>3
  <2> QED
    BY <2>2, <2>3
<1>7. OrderOK'
  BY <1>1, <1>2, <1>3, OrderStep, ZenonT(30) DEF UploadInv, Types
<1>8. AckedOK'
  <2>1. \A q \in Proc : (pc'[q] \in Dropping) <=> (pc[q] \in Dropping)
    BY <1>1, <1>2, <1>3
  <2>2. \A q \in Proc : (pc'[q] \in {"idle", "open"}) <=> (pc[q] \in {"idle", "open"})
    BY <1>1, <1>2, <1>3
  <2> SUFFICES ASSUME AckUse, started, NoData
               PROVE  /\ tokens # {} => file # None \/ \E q \in Proc : pc'[q] \in Dropping
                      /\ file # None => \A off \in tokens : off <= Len(file)
                      /\ \A q \in Proc : pc'[q] \notin {"idle", "open"} \cup Dropping
                                            => w[q].target = "upload"
    BY <1>1 DEF AckedOK, AckUse, OneAtATime, NoData
  <2> QED
    BY <2>1, <2>2 DEF UploadInv, AckedOK
<1>9. ASSUME OneAtATime PROVE ContentMatchesDigest' /\ Solo(pc[p], w[p])'
  <2>1. Solo(pc[p], w[p]) /\ ContentMatchesDigest
    BY <1>1, <1>2, <1>9, SoloNow
  <2>2. file # None => HashFits(hashStates', file \o w[p].buf)
    BY <1>1, <1>2, <1>9, StoreOK
  <2> QED
    BY <1>1, <1>2, <1>3, <2>1, <2>2 DEF Solo, ContentMatchesDigest
<1>10. SerialOK'
  BY <1>1, <1>2, <1>3, <1>9, SerialStep, ZenonT(30) DEF UploadInv, Types
<1> QED
  BY <1>4, <1>5, <1>6, <1>7, <1>8, <1>10 DEF UploadInv
-----------------------------------------------------------------------------
\* A step that changes nothing but the request itself keeps the invariant when the request's
\* writer stays in order.
LEMMA LocalStep ==
    ASSUME UploadInv, NEW p \in Proc, NEW to \in Steps,
           pc[p] \notin {"idle", "open"} \cup Dropping, pc' = [pc EXCEPT ![p] = to],
           to \notin {"idle", "open"} \cup Dropping, to \notin Deleting,
           w' \in [Proc -> Writer], \A q \in Proc : q # p => w'[q] = w[q],
           w'[p].kind = w[p].kind, w'[p].target = w[p].target,
           WriterOK(to, w'[p]), PlaceOK(w'[p], file, data),
           OneAtATime => Solo(to, w'[p]),
           UNCHANGED <<use, created, started, file, hashStates, tokens, data>>
    PROVE  UploadInv'
<1>1. pc'[p] = to /\ \A q \in Proc : q # p => pc'[q] = pc[q]
  BY DEF UploadInv, Types
<1>2. Types'
  BY ZenonT(30) DEF UploadInv, Types
<1>3. StatesOK'
  BY DEF UploadInv, StatesOK
<1>4. ASSUME NEW q \in Proc PROVE WriterOK(pc'[q], w'[q]) /\ PlaceOK(w'[q], file', data')
  <2>1. CASE q = p
    BY <1>1, <2>1
  <2>2. CASE q # p
    BY <1>1, <2>2 DEF UploadInv
  <2> QED
    BY <2>1, <2>2
<1>5. OrderOK'
  <2>1. \A q \in Proc : w'[q].kind = w[q].kind \/ pc'[q] = "idle"
    OBVIOUS
  <2>2. OrderOK /\ Types /\ pc' = [pc EXCEPT ![p] = pc'[p]]
    BY <1>1, ZenonT(30) DEF UploadInv
  <2>3. /\ pc[p] # "idle" /\ pc[p] # "open" /\ pc'[p] # "open" /\ pc'[p] \notin Deleting
        /\ use' = use /\ created' = created /\ tokens \subseteq tokens'
    BY <1>1
  <2> QED
    BY <2>1, <2>2, <2>3, OrderStep, ZenonT(30)
<1>6. AckedOK'
  <2>1. \A q \in Proc : w'[q].target = w[q].target \/ pc'[q] = "idle"
    OBVIOUS
  <2>2. w[p].target = "upload" => file # None /\ Len(file) \in Nat
    BY ContentLen DEF UploadInv, PlaceOK, Types
  <2>3. w[p].target = "upload" =>
            /\ file' # None /\ Len(file) \in Nat /\ Len(file') \in Nat /\ Len(file) <= Len(file')
            /\ \A off \in tokens' : off \in tokens \/ off <= Len(file')
    BY <2>2
  <2>4. pc'[p] \notin {"open"} \cup Dropping /\ pc' = [pc EXCEPT ![p] = pc'[p]]
    BY <1>1, ZenonT(30)
  <2>5. NoData' => NoData
    BY DEF NoData
  <2> QED
    BY <2>1, <2>3, <2>4, <2>5, AckedStep, ZenonT(30)
<1>7. ASSUME OneAtATime PROVE ContentMatchesDigest' /\ Solo(pc[p], w[p])'
  <2>1. ContentMatchesDigest'
    BY <1>7, SoloNow DEF ContentMatchesDigest
  <2>2. Solo(to, w'[p])
    BY <1>7
  <2>3. Solo(pc[p], w[p])'
    BY <1>1, <2>2, ZenonT(30) DEF Solo
  <2> QED
    BY <2>1, <2>3
<1>8. SerialOK'
  BY <1>1, <1>7, SerialStep, ZenonT(30) DEF UploadInv, Types
<1> QED
  BY <1>2, <1>3, <1>4, <1>5, <1>6, <1>8 DEF UploadInv

\* The request goes on to its next step, and at most its answer changes.
GotoStep(p, from, to) ==
    /\ pc[p] = from
    /\ pc' = [pc EXCEPT ![p] = to]
    /\ w' = w \/ w' = [w EXCEPT ![p].cut = TRUE]
    /\ UNCHANGED <<use, created, started, file, hashStates, tokens, data>>

\* Such a step keeps the invariant.
LEMMA GotoStepOK ==
    ASSUME UploadInv, NEW p \in Proc, NEW from, NEW to, GotoStep(p, from, to),
           <<from, to>> \in {<<"write", "store">>, <<"move.stat", "link">>, <<"move.stat", "move">>,
                            <<"move", "store">>, <<"link", "remove">>}
    PROVE  UploadInv'
<1>1. /\ pc[p] = from /\ pc' = [pc EXCEPT ![p] = to]
      /\ w' = w \/ w' = [w EXCEPT ![p].cut = TRUE]
      /\ UNCHANGED <<use, created, started, file, hashStates, tokens, data>>
  BY DEF GotoStep
<1>2. /\ from \notin {"idle", "open"} /\ to \in Steps /\ to \notin {"idle", "open"}
      /\ to \in Closed => from \in Closed
      /\ from \notin Dropping /\ to \notin Dropping
      /\ to \notin Deleting /\ to \notin Begun
      /\ from \in {"link", "remove"} => to \in {"link", "remove"}
      /\ to \in {"move.stat", "move"} => from \in {"move.stat", "move"}
  BY DEF Steps, Closed, Dropping, Deleting, Begun
<1>3. pc'[p] = to /\ \A q \in Proc : q # p => pc'[q] = pc[q]
  BY <1>1 DEF UploadInv, Types
<1>4. w \in [Proc -> Writer]
  BY DEF UploadInv, Types
<1>5. w' \in [Proc -> Writer] /\ \A q \in Proc : q # p => w'[q] = w[q]
  <2>1. CASE w' = w
    BY <1>4, <2>1
  <2>2. CASE w' = [w EXCEPT ![p].cut = TRUE]
    <3>1. [w[p] EXCEPT !.cut = TRUE] \in Writer
      BY <1>4, ZenonT(30) DEF Writer
    <3> QED
      BY <1>4, <2>2, <3>1
  <2> QED
    BY <1>1, <2>1, <2>2
<1>6. /\ w'[p].kind = w[p].kind /\ w'[p].dgst = w[p].dgst /\ w'[p].target = w[p].target
      /\ w'[p].blob = w[p].blob /\ w'[p].size = w[p].size /\ w'[p].buf = w[p].buf
      /\ w'[p].written = w[p].written /\ w'[p].hashed = w[p].hashed /\ w'[p].closed = w[p].closed
  <2>1. CASE w' = w
    BY <2>1
  <2>2. CASE w' = [w EXCEPT ![p].cut = TRUE]
    <3>1. w'[p] = [w[p] EXCEPT !.cut = TRUE]
      BY <1>4, <2>2
    <3> QED
      BY <1>4, <3>1 DEF Writer
  <2> QED
    BY <1>1, <2>1, <2>2
<1>7. WriterOK(pc[p], w[p]) /\ PlaceOK(w[p], file, data)
  BY DEF UploadInv
<1>8. WriterOK(to, w'[p]) /\ PlaceOK(w'[p], file, data)
  BY <1>1, <1>2, <1>6, <1>7, ZenonT(30) DEF WriterOK, PlaceOK
<1>9. ASSUME OneAtATime PROVE Solo(to, w'[p])
  <2>1. Solo(from, w[p])
    BY <1>1, <1>2, <1>9, SoloNow
  <2>2. /\ file # None => w'[p].target = "upload"
        /\ w'[p].target = "upload" => /\ w'[p].size = Len(file) + Len(w'[p].buf)
                                      /\ w'[p].written = w'[p].size => w'[p].hashed = file \o w'[p].buf
        /\ file # None => HashFits(hashStates, file \o w'[p].buf)
    <3>1. from \notin {"idle", "open"}
      BY <1>2
    <3> QED
      BY <3>1, <1>6, <2>1, ZenonT(30) DEF Solo
  <2>3. w'[p].target = "blob" => to \in {"link", "remove"}
    BY <1>2, <1>6, <2>1 DEF Solo
  <2>4. started /\ file = None => to \in {"link", "remove"}
    BY <1>2, <2>1 DEF Solo
  <2>5. to \in {"move.stat", "move"} /\ file # None => file = w'[p].dgst
    BY <1>2, <1>6, <2>1 DEF Solo
  <2> QED
    BY <1>2, <2>2, <2>3, <2>4, <2>5 DEF Solo
<1> QED
  BY <1>1, <1>2, <1>5, <1>6, <1>8, <1>9, LocalStep, ZenonT(30)
-----------------------------------------------------------------------------
\* The writer with its buffer flushed.
Emptied(u, v) ==
    /\ v.kind = u.kind /\ v.dgst = u.dgst /\ v.target = u.target /\ v.blob = u.blob
    /\ v.size = u.size /\ v.buf = <<>> /\ v.written = u.written /\ v.hashed = u.hashed
    /\ u.closed => v.closed

\* A request flushes its writer, closed already or not, and ends or goes on.
FlushStep(p, to) ==
    /\ pc[p] \in {"store", "commit", "flush"}
    /\ FlushTo(w[p]) \/ (w[p].closed /\ UNCHANGED <<file, data>>)
    /\ pc' = [pc EXCEPT ![p] = to]
    /\ w' \in [Proc -> Writer] /\ \A q \in Proc : q # p => w'[q] = w[q]
    /\ \/ to = "idle" /\ w'[p] = NoWriter
       \/ to = pc[p] /\ Emptied(w[p], w'[p])
       \/ to \in {"again", "commit.store"} /\ Emptied(w[p], w'[p]) /\ w'[p].closed
    /\ tokens' = tokens \/ (pc[p] = "flush" /\ tokens' = tokens \cup {w[p].size})
    /\ UNCHANGED <<use, created, started, hashStates>>

\* What a flush does, also of a writer that is closed already.
LEMMA FlushedOK ==
    ASSUME UploadInv, NEW p \in Proc, pc[p] \in {"store", "commit", "flush"},
           FlushTo(w[p]) \/ (w[p].closed /\ UNCHANGED <<file, data>>)
    PROVE  /\ file' \in Content \cup {None} /\ data' \in [Content -> Content \cup {None}]
           /\ file' = None <=> file = None
           /\ \A q \in Proc : PlaceOK(w[q], file', data')
           /\ w[p].target = "upload" => /\ Len(file) \in Nat /\ Len(file') \in Nat
                                        /\ Len(file) <= Len(file') /\ w[p].size <= Len(file')
           /\ w[p].target = "blob" => w[p].size <= Len(data'[w[p].blob])
           /\ NoData' => NoData
           /\ OneAtATime => data' = data /\ (file # None => file' = file \o w[p].buf)
<1>1. w[p] \in Writer /\ WriterOK(pc[p], w[p]) /\ PlaceOK(w[p], file, data)
  BY DEF UploadInv, Types
<1>2. /\ w[p].size \in Nat /\ w[p].buf \in Content /\ w[p].target \in Places /\ w[p].blob \in Content
  BY <1>1, WriterFields
<1>3. file \in Content \cup {None} /\ data \in [Content -> Content \cup {None}]
  BY DEF UploadInv, Types
<1>4. ASSUME OneAtATime
      PROVE  /\ w[p].target # "blob"
             /\ file # None => w[p].target = "upload" /\ w[p].size = Len(file) + Len(w[p].buf)
  BY <1>4, SoloNow DEF Solo
<1>5. CASE FlushTo(w[p])
  <2>1. OneAtATime => data' = data /\ (file # None => file' = file \o w[p].buf)
    BY <1>2, <1>4, <1>5, FlushOK DEF Places
  <2>2. w[p].target = "upload" => file # None
    BY <1>1 DEF PlaceOK
  <2> QED
    BY <1>5, <2>1, <2>2, FlushOK, FlushPlaces
<1>6. CASE w[p].closed /\ UNCHANGED <<file, data>>
  <2>1. w[p].buf = <<>> /\ Len(w[p].buf) = 0
    BY <1>1, <1>6, EmptyContent DEF WriterOK
  <2>2. w[p].target = "upload" => file \in Content /\ Len(file) \in Nat /\ w[p].size <= Len(file)
    BY <1>1, <1>2, <1>3, <2>1, ContentLen DEF PlaceOK
  <2>3. w[p].target = "blob" => w[p].size <= Len(data[w[p].blob])
    <3>1. w[p].target = "blob" => data[w[p].blob] \in Content
      BY <1>1, <1>2, <1>3 DEF PlaceOK
    <3>2. w[p].target = "blob" => Len(data[w[p].blob]) \in Nat
      BY <3>1, ContentLen
    <3> QED
      BY <1>1, <2>1, <3>2 DEF PlaceOK
  <2>4. file # None => file \o w[p].buf = file
    BY <1>2, <1>3, <2>1, ContentCat
  <2>5. \A q \in Proc : PlaceOK(w[q], file', data')
    BY <1>6 DEF UploadInv
  <2>6. NoData' => NoData
    BY <1>6 DEF NoData
  <2> QED
    BY <1>3, <1>6, <2>2, <2>3, <2>4, <2>5, <2>6
<1> QED
  BY <1>5, <1>6

\* Flushing keeps the invariant.
LEMMA FlushStepOK ==
    ASSUME UploadInv, NEW p \in Proc, NEW to, FlushStep(p, to)
    PROVE  UploadInv'
<1>1. /\ pc[p] \in {"store", "commit", "flush"}
      /\ FlushTo(w[p]) \/ (w[p].closed /\ UNCHANGED <<file, data>>)
      /\ pc' = [pc EXCEPT ![p] = to]
      /\ w' \in [Proc -> Writer] /\ \A q \in Proc : q # p => w'[q] = w[q]
      /\ tokens' = tokens \/ (pc[p] = "flush" /\ tokens' = tokens \cup {w[p].size})
      /\ UNCHANGED <<use, created, started, hashStates>>
  BY DEF FlushStep
<1>2. \/ to = "idle" /\ w'[p] = NoWriter
      \/ to = pc[p] /\ Emptied(w[p], w'[p])
      \/ to \in {"again", "commit.store"} /\ Emptied(w[p], w'[p]) /\ w'[p].closed
  BY DEF FlushStep
<1>3. /\ pc[p] \notin {"idle", "open"} \cup Dropping /\ pc[p] \notin Begun /\ pc[p] \notin Closed
      /\ to \in Steps /\ to \notin {"open"} \cup Dropping
      /\ to \notin Deleting /\ to \notin {"move.stat", "move"} /\ to \notin Begun
      /\ pc[p] \notin {"link", "remove"}
  BY <1>1, <1>2 DEF Steps, Closed, Dropping, Deleting, Begun
<1>4. pc'[p] = to /\ \A q \in Proc : q # p => pc'[q] = pc[q]
  BY <1>1 DEF UploadInv, Types
<1>5. /\ file' \in Content \cup {None} /\ data' \in [Content -> Content \cup {None}]
      /\ file' = None <=> file = None
      /\ \A q \in Proc : PlaceOK(w[q], file', data')
      /\ w[p].target = "upload" => /\ Len(file) \in Nat /\ Len(file') \in Nat
                                   /\ Len(file) <= Len(file') /\ w[p].size <= Len(file')
      /\ w[p].target = "blob" => w[p].size <= Len(data'[w[p].blob])
      /\ NoData' => NoData
      /\ OneAtATime => data' = data /\ (file # None => file' = file \o w[p].buf)
  BY <1>1, FlushedOK, ZenonT(30)
<1>6. w[p] \in Writer /\ WriterOK(pc[p], w[p]) /\ w[p].size \in 0..MaxLen /\ w[p].size \in Nat
  BY WriterFields DEF UploadInv, Types
<1>7. Types'
  BY <1>1, <1>3, <1>5, <1>6, ZenonT(30) DEF UploadInv, Types
<1>8. StatesOK'
  BY <1>1, ZenonT(30) DEF UploadInv, StatesOK
<1>9. ASSUME NEW q \in Proc PROVE WriterOK(pc'[q], w'[q]) /\ PlaceOK(w'[q], file', data')
  <2>1. WriterOK(pc[q], w[q]) /\ PlaceOK(w[q], file', data')
    BY <1>5 DEF UploadInv
  <2>2. CASE q # p
    BY <1>1, <1>4, <2>1, <2>2
  <2>3. CASE q = p /\ to = "idle"
    <3>1. w'[q] = NoWriter /\ pc'[q] = "idle"
      BY <1>1, <1>2, <1>4, <2>3
    <3> QED
      BY <3>1, NoWriterIs DEF PlaceOK
  <2>4. CASE q = p /\ to # "idle"
    <3>1. Emptied(w[p], w'[p]) /\ (to \in Closed => w'[p].closed)
      BY <1>2, <1>3, <2>4 DEF Closed
    <3>2. WriterOK(to, w'[p])
      BY <1>3, <1>6, <2>4, <3>1, EmptyContent DEF WriterOK, Emptied
    <3>3. PlaceOK(w'[p], file', data')
      <4>1. w'[p].target = "upload" => file' # None /\ w'[p].size <= Len(file') + Len(w'[p].buf)
        <5>1. w'[p].target = w[p].target /\ w'[p].size = w[p].size /\ Len(w'[p].buf) = 0
          BY <3>1, EmptyContent, ZenonT(30) DEF Emptied
        <5>2. w[p].target = "upload" => file' # None /\ w[p].size <= Len(file') /\ Len(file') \in Nat
          BY <1>5, <2>1, <2>4, ZenonT(30) DEF PlaceOK
        <5> QED
          BY <1>6, <5>1, <5>2
      <4>2. w'[p].target = "blob" => data'[w'[p].blob] # None
        BY <2>1, <2>4, <3>1 DEF PlaceOK, Emptied
      <4>3. w'[p].target = "blob" => w'[p].size <= Len(data'[w'[p].blob]) + Len(w'[p].buf)
        <5>1. w'[p].target = "blob" => data'[w'[p].blob] \in Content
          BY <1>5, <1>6, <3>1, <4>2, WriterFields, ZenonT(30) DEF Emptied
        <5>2. w'[p].target = "blob" => Len(data'[w'[p].blob]) \in Nat
          BY <5>1, ContentLen
        <5> QED
          BY <1>5, <3>1, <5>2, EmptyContent DEF Emptied
      <4> QED
        BY <4>1, <4>2, <4>3, ZenonT(30) DEF PlaceOK
    <3> QED
      BY <1>4, <2>4, <3>2, <3>3
  <2> QED
    BY <2>2, <2>3, <2>4
<1>10. OrderOK'
  <2>1. \A q \in Proc : w'[q].kind = w[q].kind \/ pc'[q] = "idle"
    BY <1>1, <1>2, <1>4, ZenonT(30) DEF Emptied
  <2>2. tokens \subseteq tokens' /\ use' = use /\ created' = created /\ pc' = [pc EXCEPT ![p] = pc'[p]]
    BY <1>1, <1>4, ZenonT(30)
  <2>3. OrderOK /\ Types /\ pc[p] # "idle" /\ pc[p] # "open" /\ pc'[p] # "open" /\ pc'[p] \notin Deleting
    BY <1>3, <1>4 DEF UploadInv
  <2> QED
    BY <1>1, <2>1, <2>2, <2>3, OrderStep, ZenonT(30)
<1>11. AckedOK'
  <2>1. \A q \in Proc : w'[q].target = w[q].target \/ pc'[q] = "idle"
    BY <1>1, <1>2, <1>4 DEF Emptied
  <2>2. w[p].target = "upload" =>
            /\ file' # None /\ Len(file) \in Nat /\ Len(file') \in Nat /\ Len(file) <= Len(file')
            /\ \A off \in tokens' : off \in tokens \/ off <= Len(file')
    BY <1>1, <1>5, ZenonT(30) DEF UploadInv, PlaceOK
  <2>3. pc[p] \notin {"idle", "open"} \cup Dropping /\ pc'[p] \notin {"open"} \cup Dropping
    BY <1>3, <1>4
  <2>4. use' = use /\ started' = started /\ pc' = [pc EXCEPT ![p] = pc'[p]] /\ (NoData' => NoData)
    BY <1>1, <1>4, <1>5, ZenonT(30)
  <2> QED
    BY <2>1, <2>2, <2>3, <2>4, AckedStep
<1>12. ASSUME OneAtATime PROVE ContentMatchesDigest' /\ Solo(pc[p], w[p])'
  <2>1. Solo(pc[p], w[p]) /\ ContentMatchesDigest
    BY <1>3, <1>12, SoloNow
  <2>2. ContentMatchesDigest'
    BY <1>5, <1>12, <2>1 DEF ContentMatchesDigest
  <2>3. w'[p].buf = <<>>
    BY <1>2, NoWriterIs DEF Emptied
  <2>4. file' # None => file' \in Content /\ file' = file \o w[p].buf /\ file' \o w'[p].buf = file'
    BY <1>5, <1>12, <2>3, EmptyContent, ContentCat
  <2>5. file' # None => /\ w[p].target = "upload" /\ HashFits(hashStates, file')
                        /\ w[p].size = Len(file')
                        /\ w[p].written = w[p].size => w[p].hashed = file'
    <3> SUFFICES ASSUME file' # None
                 PROVE  /\ w[p].target = "upload" /\ HashFits(hashStates, file')
                        /\ w[p].size = Len(file')
                        /\ w[p].written = w[p].size => w[p].hashed = file'
      OBVIOUS
    <3>1. /\ w[p].target = "upload" /\ HashFits(hashStates, file \o w[p].buf)
          /\ w[p].size = Len(file) + Len(w[p].buf)
          /\ w[p].written = w[p].size => w[p].hashed = file \o w[p].buf
      BY <1>3, <1>5, <2>1, ZenonT(30) DEF Solo
    <3>2. Len(file \o w[p].buf) = Len(file) + Len(w[p].buf)
      BY <1>5, <1>6, ContentCat, WriterFields, ZenonT(30) DEF UploadInv, Types
    <3> QED
      BY <2>4, <3>1, <3>2, ZenonT(30)
  <2>6. ~(started' /\ file' = None)
    BY <1>1, <1>3, <1>5, <2>1, ZenonT(30) DEF Solo
  <2>7. w'[p].target = "upload" =>
            /\ file' # None /\ w'[p].size = w[p].size
            /\ w'[p].written = w[p].written /\ w'[p].hashed = w[p].hashed
    BY <1>2, <1>9, NoWriterIs, ZenonT(30) DEF Emptied, PlaceOK
  <2>8. w'[p].target # "blob"
    BY <1>2, <1>3, <2>1, NoWriterIs, ZenonT(30) DEF Emptied, Solo
  <2>9. pc'[p] \notin {"idle", "open"} /\ file' # None => w'[p].target = "upload"
    BY <1>2, <1>4, <2>5, ZenonT(30) DEF Emptied
  <2>10. file' # None => HashFits(hashStates', file' \o w'[p].buf)
    BY <1>1, <2>4, <2>5, ZenonT(30)
  <2>11. w'[p].target = "upload" => /\ w'[p].size = Len(file') + Len(w'[p].buf)
                                    /\ w'[p].written = w'[p].size => w'[p].hashed = file' \o w'[p].buf
    <3>1. file' # None => Len(file') \in Nat /\ Len(w'[p].buf) = 0
      BY <1>5, <2>3, EmptyContent, ContentLen
    <3> QED
      BY <2>4, <2>5, <2>7, <3>1
  <2> QED
    BY <1>3, <1>4, <2>2, <2>6, <2>8, <2>9, <2>10, <2>11 DEF Solo
<1>13. SerialOK'
  BY <1>1, <1>2, <1>3, <1>4, <1>12, SerialStep, ZenonT(30) DEF UploadInv, Types
<1> QED
  BY <1>7, <1>8, <1>9, <1>10, <1>11, <1>13 DEF UploadInv
-----------------------------------------------------------------------------
\* The last Close of a request saves the hash state and ends it.
LEMMA CloseAgainOK ==
    ASSUME UploadInv, NEW p \in Proc, CloseAgain(p), UNCHANGED use
    PROVE  UploadInv'
<1>1. /\ pc[p] = "again" /\ StoreHashState(p) /\ pc' = [pc EXCEPT ![p] = "idle"]
      /\ w' = [w EXCEPT ![p] = NoWriter]
      /\ UNCHANGED <<use, created, started, file, tokens, data>>
  BY DEF CloseAgain, Finish, Goto
<1>2. pc'[p] = "idle" /\ \A q \in Proc : q # p => pc'[q] = pc[q]
  BY <1>1 DEF UploadInv, Types
<1>3. w'[p] = NoWriter /\ \A q \in Proc : q # p => w'[q] = w[q]
  BY <1>1 DEF UploadInv, Types
<1>4. w' \in [Proc -> Writer]
  BY <1>1, NoWriterIs DEF UploadInv, Types
<1>5. Types'
  BY <1>1, <1>4, StoreOK DEF UploadInv, Types, Steps
<1>6. StatesOK'
  BY <1>1, StoreOK DEF StatesOK
<1>7. ASSUME NEW q \in Proc PROVE WriterOK(pc'[q], w'[q]) /\ PlaceOK(w'[q], file', data')
  <2>1. CASE q = p
    BY <1>2, <1>3, <2>1, NoWriterIs, ZenonT(30) DEF PlaceOK
  <2>2. CASE q # p
    BY <1>1, <1>2, <1>3, <2>2 DEF UploadInv
  <2> QED
    BY <2>1, <2>2
<1>8. OrderOK'
  <2>1. \A q \in Proc : w'[q].kind = w[q].kind \/ pc'[q] = "idle"
    BY <1>2, <1>3
  <2> QED
    BY <1>1, <1>2, <1>4, <2>1, OrderStep, ZenonT(30) DEF UploadInv, Deleting
<1>9. AckedOK'
  <2>1. \A q \in Proc : w'[q].target = w[q].target \/ pc'[q] = "idle"
    BY <1>2, <1>3
  <2>2. w[p].target = "upload" => file # None /\ Len(file) \in Nat
    BY ContentLen, ZenonT(30) DEF UploadInv, PlaceOK, Types
  <2>3. w[p].target = "upload" =>
            /\ file' # None /\ Len(file) \in Nat /\ Len(file') \in Nat /\ Len(file) <= Len(file')
            /\ \A off \in tokens' : off \in tokens \/ off <= Len(file')
    BY <1>1, <2>2
  <2>4. pc[p] \notin {"idle", "open"} \cup Dropping /\ pc'[p] \notin {"open"} \cup Dropping
    BY <1>1, <1>2 DEF Dropping
  <2>5. use' = use /\ started' = started /\ pc' = [pc EXCEPT ![p] = pc'[p]] /\ (NoData' => NoData)
    BY <1>1, <1>2, ZenonT(30) DEF NoData
  <2> QED
    BY <2>1, <2>3, <2>4, <2>5, AckedStep
<1>10. ASSUME OneAtATime PROVE ContentMatchesDigest' /\ Solo(pc[p], w[p])'
  <2>1. Solo("again", w[p]) /\ ContentMatchesDigest
    BY <1>1, <1>10, SoloNow
  <2>2. w[p].buf = <<>>
    BY <1>1 DEF UploadInv, WriterOK, Closed
  <2>3. file # None => HashFits(hashStates', file \o <<>>)
    BY <1>1, <1>10, <2>2, StoreOK, ZenonT(30)
  <2>4. ~(started /\ file = None)
    BY <2>1 DEF Solo, Dropping
  <2>5. ContentMatchesDigest'
    BY <1>1, <2>1 DEF ContentMatchesDigest
  <2> QED
    BY <1>1, <1>2, <1>3, <2>3, <2>4, <2>5, NoWriterIs, ZenonT(30) DEF Solo
<1>11. SerialOK'
  BY <1>1, <1>2, <1>3, <1>10, SerialStep, ZenonT(30) DEF UploadInv, Types
<1> QED
  BY <1>5, <1>6, <1>7, <1>8, <1>9, <1>11 DEF UploadInv

\* A digester brought to the writer's offset has hashed the file, if it has hashed as much.
LEMMA ResumedOK ==
    ASSUME UploadInv, NEW p \in Proc, pc[p] \in {"write", "validate"}
    PROVE  LET u == Resumed(w[p]) IN
           /\ u \in Writer
           /\ u.kind = w[p].kind /\ u.chunk = w[p].chunk /\ u.dgst = w[p].dgst /\ u.cut = w[p].cut
           /\ u.target = w[p].target /\ u.blob = w[p].blob /\ u.size = w[p].size
           /\ u.buf = w[p].buf /\ u.buf = <<>> /\ u.closed = w[p].closed
           /\ u.written <= u.size /\ Len(u.hashed) <= u.written
           /\ OneAtATime /\ file # None /\ u.written = u.size => u.hashed = file
<1> DEFINE v == w[p]
<1> DEFINE u == Resumed(v)
<1>1. v \in Writer /\ WriterOK(pc[p], v)
  BY DEF UploadInv, Types
<1>2. /\ v.size \in 0..MaxLen /\ v.size \in Nat /\ v.written \in Nat /\ v.written \in 0..MaxLen
      /\ v.hashed \in Content /\ Len(v.hashed) <= v.written /\ v.written <= v.size
      /\ v.buf = <<>> /\ Len(v.buf) = 0
  BY <1>1, WriterFields, EmptyContent DEF WriterOK, Begun, Closed
<1>3. hashStates \in [0..MaxLen -> Content \cup {None}] /\ file \in Content \cup {None}
  BY DEF UploadInv, Types
<1>4. ASSUME OneAtATime, file # None
      PROVE  /\ v.size = Len(file) /\ Len(file) \in Nat
             /\ v.written = v.size => v.hashed = file
             /\ hashStates[v.size] # None => hashStates[v.size] = file
  <2>1. Solo(pc[p], v)
    BY <1>4, SoloNow
  <2>2. /\ v.size = Len(file) + Len(v.buf) /\ HashFits(hashStates, file \o v.buf)
        /\ v.written = v.size => v.hashed = file \o v.buf
    BY <1>4, <2>1 DEF Solo
  <2>3. file \o v.buf = file /\ Len(file) \in Nat
    BY <1>2, <1>3, <1>4, EmptyContent, ContentCat, ContentLen
  <2>4. v.size = Len(file) /\ HashFits(hashStates, file) /\ (v.written = v.size => v.hashed = file)
    BY <1>2, <2>2, <2>3
  <2> QED
    BY <1>2, <2>3, <2>4 DEF HashFits
<1>5. CASE v.size = v.written
  <2>1. u = v
    BY <1>5 DEF Resumed
  <2> QED
    BY <1>1, <1>2, <1>4, <1>5, <2>1
<1>6. CASE v.size # v.written /\ v.size > 0 /\ hashStates[v.size] # None
  <2>1. u = [v EXCEPT !.hashed = hashStates[v.size], !.written = v.size]
    BY <1>6 DEF Resumed
  <2>2. hashStates[v.size] \in Content /\ Len(hashStates[v.size]) <= v.size
    BY <1>2, <1>3, <1>6 DEF UploadInv, StatesOK
  <2> HIDE DEF v
  <2>3. u \in Writer
    BY <1>1, <1>2, <2>1, <2>2, ZenonT(30) DEF Writer
  <2>4. /\ u.kind = v.kind /\ u.chunk = v.chunk /\ u.dgst = v.dgst /\ u.cut = v.cut
        /\ u.target = v.target /\ u.blob = v.blob /\ u.size = v.size /\ u.buf = v.buf
        /\ u.closed = v.closed /\ u.written = v.size /\ u.hashed = hashStates[v.size]
    BY <1>1, <2>1 DEF Writer
  <2> HIDE DEF u
  <2>5. /\ u.written <= u.size /\ Len(u.hashed) <= u.written
        /\ OneAtATime /\ file # None /\ u.written = u.size => u.hashed = file
    <3>1. u.written <= u.size /\ Len(u.hashed) <= u.written
      BY <1>2, <2>2, <2>4
    <3>2. OneAtATime /\ file # None => u.hashed = file
      BY <1>4, <1>6, <2>4, ZenonT(30)
    <3> QED
      BY <3>1, <3>2
  <2> QED
    BY <1>2, <2>3, <2>4, <2>5, ZenonT(30) DEF u, v
<1>7. CASE v.size # v.written /\ ~(v.size > 0 /\ hashStates[v.size] # None)
  <2>1. u = [v EXCEPT !.hashed = <<>>]
    BY <1>7 DEF Resumed
  <2> HIDE DEF v
  <2>2. u \in Writer
    BY <1>1, <1>2, <2>1, EmptyContent DEF Writer
  <2>3. /\ u.kind = v.kind /\ u.chunk = v.chunk /\ u.dgst = v.dgst /\ u.cut = v.cut
        /\ u.target = v.target /\ u.blob = v.blob /\ u.size = v.size /\ u.buf = v.buf
        /\ u.closed = v.closed /\ u.written = v.written /\ u.hashed = <<>>
    BY <1>1, <2>1 DEF Writer
  <2> HIDE DEF u
  <2>4. /\ u.written <= u.size /\ Len(u.hashed) <= u.written /\ u.written # u.size
    <3>1. u.written = v.written /\ u.size = v.size /\ Len(u.hashed) = 0
      BY <2>3, EmptyContent, ZenonT(30)
    <3>2. v.written <= v.size /\ v.written \in Nat /\ v.written # v.size
      BY <1>2, <1>7, ZenonT(30)
    <3> QED
      BY <3>1, <3>2
  <2> QED
    BY <1>2, <2>2, <2>3, <2>4 DEF u, v
<1> QED
  BY <1>5, <1>6, <1>7, ZenonT(30)
-----------------------------------------------------------------------------
\* A writer with other bytes.
LEMMA WriterWith ==
    ASSUME NEW u \in Writer, NEW size \in 0..MaxLen, NEW buf \in Content, NEW written \in 0..MaxLen,
           NEW hashed \in Content, NEW cut \in BOOLEAN
    PROVE  [u EXCEPT !.size = size, !.buf = buf, !.written = written, !.hashed = hashed, !.cut = cut]
               \in Writer
BY ZenonT(30) DEF Writer

\* Bytes of the body keep the invariant.
LEMMA WriteOK ==
    ASSUME UploadInv, NEW p \in Proc, NEW n \in 0..MaxLen, Write(p, n), UNCHANGED use
    PROVE  UploadInv'
<1> DEFINE u == Resumed(w[p])
<1> DEFINE got == SubSeq(u.chunk, 1, n)
<1> DEFINE v == [u EXCEPT !.size = u.size + n, !.buf = got, !.written = u.written + n,
                         !.hashed = u.hashed \o got, !.cut = (n < Len(u.chunk))]
<1> DEFINE to == IF n = Len(u.chunk) /\ u.kind = "put" THEN "commit" ELSE "store"
<1>1. /\ pc[p] = "write" /\ n \in 0..Len(u.chunk) /\ u.size + n <= MaxLen
      /\ w' = [w EXCEPT ![p] = v] /\ pc' = [pc EXCEPT ![p] = to]
      /\ UNCHANGED <<use, created, started, file, hashStates, tokens, data>>
  BY DEF Write, Goto, uploadVars
<1>2. /\ u \in Writer /\ u.kind = w[p].kind /\ u.target = w[p].target /\ u.blob = w[p].blob
      /\ u.size = w[p].size /\ u.buf = w[p].buf /\ u.buf = <<>> /\ u.closed = w[p].closed
      /\ u.written <= u.size /\ Len(u.hashed) <= u.written
      /\ OneAtATime /\ file # None /\ u.written = u.size => u.hashed = file
  BY <1>1, ResumedOK
<1>3. /\ pc[p] \notin {"idle", "open"} \cup Dropping
      /\ to \in {"commit", "store"} /\ to \in Steps /\ to \notin {"idle", "open"} \cup Dropping
      /\ to \notin Deleting /\ to \notin Begun /\ to \notin Closed
      /\ to \notin {"link", "remove", "move.stat", "move"}
  BY <1>1 DEF Steps, Dropping, Deleting, Begun, Closed
<1>4. WriterOK("write", w[p]) /\ PlaceOK(w[p], file, data) /\ w \in [Proc -> Writer]
  BY <1>1 DEF UploadInv, Types
<1> HIDE DEF u, to
<1>5. /\ u.size \in Nat /\ u.written \in Nat /\ u.hashed \in Content /\ Len(u.hashed) \in Nat
      /\ u.chunk \in Content /\ u.blob \in Content
  BY <1>2, WriterFields
<1>6. got \in Content /\ Len(got) = n /\ n \in Nat
  BY <1>1, <1>5, ContentPrefix
<1> HIDE DEF got
<1>7. u.hashed \o got \in Content /\ Len(u.hashed \o got) = Len(u.hashed) + n
  <2>1. Len(u.hashed) + Len(got) <= MaxLen
    BY <1>1, <1>2, <1>5, <1>6, UploadAssumption
  <2> QED
    BY <1>5, <1>6, <2>1, ContentCat, ZenonT(30)
<1>8. u.size + n \in 0..MaxLen /\ u.written + n \in 0..MaxLen /\ u.written + n <= u.size + n
  BY <1>1, <1>2, <1>5, <1>6, UploadAssumption, SMTT(30)
<1>9. v \in Writer
  <2>1. (n < Len(u.chunk)) \in BOOLEAN
    OBVIOUS
  <2> QED
    BY <1>2, <1>6, <1>7, <1>8, <2>1, WriterWith, ZenonT(30)
<1>10. /\ v.kind = u.kind /\ v.target = u.target /\ v.blob = u.blob /\ v.closed = u.closed
       /\ v.size = u.size + n /\ v.buf = got /\ v.written = u.written + n /\ v.hashed = u.hashed \o got
  BY <1>2 DEF Writer
<1> HIDE DEF v
<1>11. w'[p] = v /\ w' \in [Proc -> Writer] /\ \A q \in Proc : q # p => w'[q] = w[q]
  BY <1>1, <1>4, <1>9
<1>12. WriterOK(to, v)
  <2>1. ~v.closed
    BY <1>2, <1>4, <1>10 DEF WriterOK, Begun
  <2>2. Len(v.buf) <= v.size /\ v.written <= v.size /\ Len(v.hashed) <= v.written
    BY <1>2, <1>5, <1>6, <1>7, <1>8, <1>10
  <2> QED
    BY <1>3, <2>1, <2>2 DEF WriterOK
<1>13. PlaceOK(v, file, data)
  <2>1. v.target = "upload" => file # None /\ v.size <= Len(file) + Len(v.buf)
    <3>1. u.target = "upload" => file # None /\ u.size <= Len(file) + Len(u.buf)
      BY <1>2, <1>4 DEF PlaceOK
    <3>2. file # None => Len(file) \in Nat
      BY ContentLen DEF UploadInv, Types
    <3> QED
      BY <1>2, <1>5, <1>6, <1>10, <3>1, <3>2, EmptyContent
  <2>2. v.target = "blob" => data[v.blob] # None /\ v.size <= Len(data[v.blob]) + Len(v.buf)
    <3>1. u.target = "blob" => data[u.blob] # None /\ u.size <= Len(data[u.blob]) + Len(u.buf)
      BY <1>2, <1>4 DEF PlaceOK
    <3>2. data[u.blob] # None => data[u.blob] \in Content
      BY <1>5 DEF UploadInv, Types
    <3>3. data[u.blob] # None => Len(data[u.blob]) \in Nat
      BY <3>2, ContentLen
    <3> QED
      BY <1>2, <1>5, <1>6, <1>10, <3>1, <3>3, EmptyContent
  <2> QED
    BY <2>1, <2>2, ZenonT(30) DEF PlaceOK
<1>14. ASSUME OneAtATime PROVE Solo(to, v)
  <2>1. Solo("write", w[p])
    BY <1>1, <1>14, SoloNow
  <2>2. v.target # "blob" /\ ~(started /\ file = None)
    BY <1>2, <1>10, <2>1 DEF Solo, Dropping
  <2>3. ASSUME file # None
        PROVE  /\ v.target = "upload" /\ v.size = Len(file) + Len(v.buf)
               /\ v.written = v.size => v.hashed = file \o v.buf
               /\ HashFits(hashStates, file \o v.buf)
    <3>1. file \in Content /\ Len(file) \in Nat
      BY <2>3, ContentLen DEF UploadInv, Types
    <3>2. /\ u.target = "upload" /\ u.size = Len(file) + Len(w[p].buf) /\ w[p].buf = <<>>
          /\ HashFits(hashStates, file \o w[p].buf)
      BY <1>2, <2>1, <2>3 DEF Solo
    <3>3. file \o <<>> = file /\ Len(<<>>) = 0
      BY <3>1, EmptyContent, ContentCat
    <3>4. u.size = Len(file) /\ HashFits(hashStates, file)
      BY <3>1, <3>2, <3>3
    <3>5. v.size = Len(file) + Len(v.buf)
      BY <1>6, <1>10, <3>4, ZenonT(30)
    <3>6. v.written = v.size => v.hashed = file \o v.buf
      <4>1. v.written = v.size => u.written = u.size
        BY <1>5, <1>6, <1>10
      <4>2. v.written = v.size => u.hashed = file
        BY <1>2, <1>14, <2>3, <4>1
      <4> QED
        BY <1>10, <4>2, ZenonT(30)
    <3>7. Len(file \o got) = Len(file) + n /\ (n = 0 => file \o got = file)
      <4>1. n = 0 => got = <<>>
        BY <1>6, ContentLen
      <4> QED
        BY <1>6, <3>1, <4>1, ContentCat
    <3>8. HashFits(hashStates, file \o got)
      <4> DEFINE c == file \o got
      <4>1. Len(c) = Len(file) + n /\ (n = 0 => c = file)
        BY <3>7
      <4> HIDE DEF c
      <4>2. HashFits(hashStates, c)
        BY <1>6, <3>1, <3>4, <4>1, UploadAssumption DEF HashFits
      <4> QED
        BY <4>2 DEF c
    <3> QED
      BY <1>10, <3>2, <3>5, <3>6, <3>8, ZenonT(30)
  <2>4. v.target = "upload" => file # None
    BY <1>13 DEF PlaceOK
  <2> QED
    BY <1>3, <2>2, <2>3, <2>4 DEF Solo
<1> QED
  BY <1>1, <1>2, <1>3, <1>10, <1>11, <1>12, <1>13, <1>14, LocalStep, ZenonT(30)

\* Validating keeps the invariant: what passes, while requests come one at a time, is the file.
LEMMA ValidateOK ==
    ASSUME UploadInv, NEW p \in Proc, Validate(p), UNCHANGED use
    PROVE  UploadInv'
<1> DEFINE u == Resumed(w[p])
<1> DEFINE to == IF SizeOK(w[p]) /\ DigestOK(w[p]) THEN "move.stat" ELSE "store"
<1>1. /\ pc[p] = "validate" /\ w' = [w EXCEPT ![p] = u] /\ pc' = [pc EXCEPT ![p] = to]
      /\ UNCHANGED <<use, created, started, file, hashStates, tokens, data>>
  BY DEF Validate, Goto, uploadVars
<1>2. /\ u \in Writer /\ u.kind = w[p].kind /\ u.target = w[p].target /\ u.blob = w[p].blob
      /\ u.size = w[p].size /\ u.buf = w[p].buf /\ u.buf = <<>> /\ u.closed = w[p].closed
      /\ u.dgst = w[p].dgst /\ u.written <= u.size /\ Len(u.hashed) <= u.written
      /\ OneAtATime /\ file # None /\ u.written = u.size => u.hashed = file
  BY <1>1, ResumedOK, ZenonT(30)
<1>3. /\ pc[p] \notin {"idle", "open"} \cup Dropping /\ pc[p] \in Closed
      /\ to \in {"move.stat", "store"} /\ to \in Steps /\ to \notin {"idle", "open"} \cup Dropping
      /\ to \notin Deleting /\ to \notin Begun
  BY <1>1 DEF Steps, Dropping, Deleting, Begun, Closed
<1>4. to = "move.stat" => DigestOK(w[p])
  OBVIOUS
<1>5. WriterOK(pc[p], w[p]) /\ PlaceOK(w[p], file, data) /\ w \in [Proc -> Writer]
  BY DEF UploadInv, Types
<1> HIDE DEF to
<1>6. w'[p] = u /\ w' \in [Proc -> Writer] /\ \A q \in Proc : q # p => w'[q] = w[q]
  <2> HIDE DEF u
  <2> QED
    BY <1>1, <1>2, <1>5, ZenonT(30)
<1>7. WriterOK(to, u) /\ PlaceOK(u, file, data)
  <2> HIDE DEF u
  <2> QED
    BY <1>2, <1>3, <1>5 DEF WriterOK, PlaceOK
<1>8. ASSUME OneAtATime PROVE Solo(to, u)
  <2>1. Solo("validate", w[p])
    BY <1>1, <1>8, SoloNow
  <2>2. u.target # "blob" /\ ~(started /\ file = None)
    BY <1>2, <2>1 DEF Solo, Dropping
  <2>3. ASSUME file # None
        PROVE  /\ u.target = "upload" /\ u.size = Len(file) + Len(u.buf) /\ Len(u.buf) = 0
               /\ file \o u.buf = file /\ HashFits(hashStates, file \o u.buf) /\ Len(file) \in Nat
    <3>1. file \in Content /\ Len(file) \in Nat
      BY <2>3, ContentLen DEF UploadInv, Types
    <3>2. /\ u.target = "upload" /\ u.size = Len(file) + Len(u.buf)
          /\ HashFits(hashStates, file \o u.buf)
      BY <1>2, <2>1, <2>3, ZenonT(30) DEF Solo
    <3>3. file \o u.buf = file /\ Len(u.buf) = 0
      BY <1>2, <3>1, EmptyContent, ContentCat, ZenonT(30)
    <3> QED
      BY <3>1, <3>2, <3>3
  <2>4. ASSUME file # None, to = "move.stat" PROVE file = u.dgst
    <3>1. OnDisk = file /\ DigestOK(w[p])
      BY <1>4, <2>4 DEF OnDisk
    <3>2. \/ u.written >= w[p].size /\ u.hashed = w[p].dgst
          \/ u.written < w[p].size /\ u.written = Len(file) /\ u.hashed = w[p].dgst
          \/ file = w[p].dgst
      <4>1. u.written \in Nat /\ w[p].size \in Nat
        BY <1>2, WriterFields
      <4>2. \/ Available(w[p]) /\ u.hashed = w[p].dgst
            \/ ~Available(w[p]) /\ u.written = Len(OnDisk) /\ u.hashed = w[p].dgst
            \/ ~Available(w[p]) /\ OnDisk = w[p].dgst
        BY <3>1 DEF DigestOK
      <4>3. Available(w[p]) <=> u.written >= w[p].size
        BY DEF Available
      <4> HIDE DEF u
      <4> QED
        BY <3>1, <4>1, <4>2, <4>3
    <3> HIDE DEF u
    <3>3. u.written \in Nat /\ u.size \in Nat
      BY <1>2, WriterFields
    <3> QED
      BY <1>2, <1>8, <2>3, <2>4, <3>2, <3>3
  <2>5. u.target = "upload" => file # None
    BY <1>7 DEF PlaceOK
  <2> HIDE DEF u
  <2>6. u.target = "upload" => /\ u.size = Len(file) + Len(u.buf)
                               /\ u.written = u.size => u.hashed = file \o u.buf
    BY <1>2, <1>8, <2>3, <2>5
  <2> QED
    BY <1>3, <2>2, <2>3, <2>4, <2>6 DEF Solo
<1> HIDE DEF u
<1> QED
  BY <1>1, <1>2, <1>3, <1>6, <1>7, <1>8, LocalStep, ZenonT(30)
-----------------------------------------------------------------------------
\* Opening the file keeps the invariant.
LEMMA OpenOK ==
    ASSUME UploadInv, NEW p \in Proc, Open(p), UNCHANGED use
    PROVE  UploadInv'
<1> DEFINE content == IF file = None THEN <<>> ELSE file
<1> DEFINE size == IF w[p].kind = "post" THEN 0 ELSE Len(content)
<1>1. /\ pc[p] = "open"
      /\ file' = IF w[p].kind = "post" THEN <<>> ELSE content
      /\ UNCHANGED <<use, created, started, hashStates, tokens, data>>
  BY DEF Open
<1>2. \/ /\ w' = [w EXCEPT ![p] = [w[p] EXCEPT !.target = "upload", !.size = size]]
         /\ \E to \in {"store", "write", "cancel"} :
               pc' = [pc EXCEPT ![p] = to] /\ (to = "cancel" => w[p].kind = "delete")
      \/ pc' = [pc EXCEPT ![p] = "idle"] /\ w' = [w EXCEPT ![p] = NoWriter]
  <2>1. CASE w[p].kind \in {"post", "get"} \/ size = w[p].off
    <3>1. w' = [w EXCEPT ![p].target = "upload", ![p].size = size]
      BY <2>1 DEF Open
    <3>2. w' = [w EXCEPT ![p] = [w[p] EXCEPT !.target = "upload", !.size = size]]
      <4> HIDE DEF size
      <4> QED
        BY <3>1, ZenonT(30) DEF UploadInv, Types, Writer
    <3>3. pc' = [pc EXCEPT ![p] = CASE w[p].kind \in {"post", "get"} -> "store"
                         [] w[p].kind \in {"patch", "put"} -> "write"
                         [] w[p].kind = "delete" -> "cancel"]
      BY <2>1, ZenonT(30) DEF Open, Goto
    <3>4. w[p].kind \in Kinds
      BY WriterFields DEF UploadInv, Types
    <3>5. CASE w[p].kind \in {"post", "get"}
      BY <3>2, <3>3, <3>5, ZenonT(30)
    <3>6. CASE w[p].kind \in {"patch", "put"}
      BY <3>2, <3>3, <3>6, ZenonT(30)
    <3>7. CASE w[p].kind = "delete"
      BY <3>2, <3>3, <3>7
    <3> QED
      BY <3>4, <3>5, <3>6, <3>7 DEF Kinds
  <2>2. CASE ~(w[p].kind \in {"post", "get"} \/ size = w[p].off)
    BY <2>2 DEF Open, Finish, Goto
  <2> QED
    BY <2>1, <2>2
<1>3. /\ w[p] \in Writer /\ w \in [Proc -> Writer] /\ pc \in [Proc -> Steps]
      /\ w[p].buf = <<>> /\ w[p].written = 0 /\ w[p].hashed = <<>> /\ ~w[p].closed
      /\ w[p].target = "gone"
  BY <1>1, ZenonT(30) DEF UploadInv, Types, WriterOK, Begun
<1>4. w[p].kind = "post" => tokens = {} /\ file = None
  BY <1>1, ZenonT(30) DEF UploadInv, OrderOK
<1>5. /\ file' \in Content /\ file' # None /\ Len(file') \in Nat /\ size = Len(file') /\ size \in 0..MaxLen
      /\ file # None => file' = file
      /\ file = None => file' = <<>>
  <2>1. file \in Content \cup {None}
    BY DEF UploadInv, Types
  <2>2. /\ file # None => file' = file
        /\ file = None => file' = <<>>
    BY <1>1, <1>4
  <2>3. file' \in Content
    BY <2>1, <2>2, EmptyContent
  <2>4. size = Len(file')
    BY <1>1, EmptyContent, ZenonT(30)
  <2> QED
    BY <2>2, <2>3, <2>4, ContentLen
<1> HIDE DEF size, content
<1>6. PICK to \in {"store", "write", "cancel", "idle"} :
          /\ pc' = [pc EXCEPT ![p] = to]
          /\ to = "cancel" => w[p].kind = "delete"
          /\ IF to = "idle" THEN w' = [w EXCEPT ![p] = NoWriter]
             ELSE w' = [w EXCEPT ![p] = [w[p] EXCEPT !.target = "upload", !.size = size]]
  BY <1>2
<1>7. pc'[p] = to /\ (\A q \in Proc : q # p => pc'[q] = pc[q]) /\ pc' = [pc EXCEPT ![p] = pc'[p]]
  BY <1>3, <1>6
<1>8. w' \in [Proc -> Writer] /\ \A q \in Proc : q # p => w'[q] = w[q]
  <2>1. [w[p] EXCEPT !.target = "upload", !.size = size] \in Writer
    BY <1>3, <1>5, ZenonT(30) DEF Writer, Places
  <2>2. CASE to = "idle"
    BY <1>3, <1>6, <2>2, NoWriterIs
  <2>3. CASE to # "idle"
    BY <1>3, <1>6, <2>1, <2>3
  <2> QED
    BY <2>2, <2>3
<1>9. to = "idle" => w'[p] = NoWriter
  BY <1>3, <1>6
<1>10. to # "idle" => /\ w'[p].kind = w[p].kind /\ w'[p].target = "upload" /\ w'[p].size = Len(file')
                      /\ w'[p].buf = <<>> /\ w'[p].written = 0 /\ w'[p].hashed = <<>> /\ ~w'[p].closed
  <2>1. to # "idle" => w'[p] = [w[p] EXCEPT !.target = "upload", !.size = size]
    BY <1>3, <1>6
  <2> QED
    BY <1>3, <1>5, <2>1, ZenonT(30) DEF Writer
<1>11. Types'
  BY <1>1, <1>5, <1>6, <1>8 DEF UploadInv, Types, Steps
<1>12. StatesOK'
  BY <1>1, ZenonT(30) DEF UploadInv, StatesOK
<1>13. ASSUME NEW q \in Proc PROVE WriterOK(pc'[q], w'[q]) /\ PlaceOK(w'[q], file', data')
  <2>1. CASE q # p
    <3>1. WriterOK(pc[q], w[q]) /\ PlaceOK(w[q], file, data)
      BY DEF UploadInv
    <3> QED
      BY <1>1, <1>5, <1>7, <1>8, <2>1, <3>1, ZenonT(30) DEF PlaceOK
  <2>2. CASE q = p /\ to = "idle"
    BY <1>7, <1>9, <2>2, NoWriterIs, ZenonT(30) DEF PlaceOK
  <2>3. CASE q = p /\ to # "idle"
    <3>1. WriterOK(to, w'[p])
      BY <1>5, <1>10, <2>3, EmptyContent DEF WriterOK, Closed
    <3>2. PlaceOK(w'[p], file', data')
      <4>1. w'[p].target = "upload" /\ w'[p].size <= Len(file') + Len(w'[p].buf)
        BY <1>5, <1>10, <2>3, EmptyContent
      <4> QED
        BY <1>5, <4>1 DEF PlaceOK
    <3> QED
      BY <1>7, <2>3, <3>1, <3>2
  <2> QED
    BY <2>1, <2>2, <2>3
<1>14. OrderOK'
  <2>1. \A q \in Proc : w'[q].kind = w[q].kind \/ pc'[q] = "idle"
    BY <1>7, <1>8, <1>10
  <2>2. OrderOK /\ Types /\ pc[p] # "idle" /\ pc'[p] # "open"
    BY <1>1, <1>7 DEF UploadInv
  <2>3. pc'[p] \in Deleting => pc[p] = "open" /\ w[p].kind = "delete"
    BY <1>1, <1>6, <1>7 DEF Deleting
  <2> QED
    BY <1>1, <1>7, <1>8, <2>1, <2>2, <2>3, OrderStep
<1>15. AckedOK'
  <2> SUFFICES ASSUME AckUse, started, NoData
               PROVE  /\ \A off \in tokens : off <= Len(file')
                      /\ \A q \in Proc : pc'[q] \notin {"idle", "open"} \cup Dropping
                                            => w'[q].target = "upload"
    BY <1>1, <1>5 DEF AckedOK, AckUse, OneAtATime, NoData
  <2>1. ASSUME tokens # {} PROVE file # None
    <3>1. SUFFICES ASSUME NEW q \in Proc, pc[q] \in Dropping PROVE FALSE
      BY <2>1 DEF UploadInv, AckedOK
    <3>2. use.cancel
      BY <3>1 DEF UploadInv, OrderOK, Dropping, Deleting
    <3>3. use.serial
      BY <3>2 DEF AckUse, OneAtATime
    <3>4. pc[q] # "idle"
      BY <3>1 DEF Dropping
    <3>5. q = p
      BY <1>1, <3>3, <3>4, ZenonT(30) DEF UploadInv, OrderOK
    <3> QED
      BY <1>1, <3>1, <3>5 DEF Dropping
  <2>2. \A off \in tokens : off <= Len(file')
    BY <1>5, <2>1, ZenonT(30) DEF UploadInv, AckedOK
  <2>3. \A q \in Proc : pc'[q] \notin {"idle", "open"} \cup Dropping => w'[q].target = "upload"
    BY <1>7, <1>8, <1>10, ZenonT(30) DEF UploadInv, AckedOK
  <2> QED
    BY <2>2, <2>3
<1>16. ASSUME OneAtATime PROVE ContentMatchesDigest' /\ Solo(pc[p], w[p])'
  <2>1. Solo("open", w[p]) /\ ContentMatchesDigest
    BY <1>1, <1>16, SoloNow
  <2>2. ContentMatchesDigest'
    BY <1>1, <2>1 DEF ContentMatchesDigest
  <2>3. w'[p].buf = <<>> /\ file' \o <<>> = file' /\ Len(<<>>) = 0
    BY <1>5, <1>9, <1>10, NoWriterIs, EmptyContent, ContentCat, ZenonT(30)
  <2>4. HashFits(hashStates', file')
    <3>1. CASE file = None
      <4>1. hashStates' = NoHashStates
        BY <1>1, <2>1, <3>1 DEF Solo
      <4>2. \A n \in 0..MaxLen : hashStates'[n] = None
        BY <4>1 DEF NoHashStates
      <4> QED
        BY <4>2 DEF HashFits
    <3>2. CASE file # None
      <4>1. HashFits(hashStates, file \o <<>>)
        BY <1>3, <2>1, <3>2, ZenonT(30) DEF Solo
      <4> QED
        BY <1>1, <1>5, <2>3, <3>2, <4>1
    <3> QED
      BY <3>1, <3>2
  <2>5. w'[p].target = "upload" => /\ w'[p].size = Len(file') + Len(w'[p].buf)
                                   /\ w'[p].written = w'[p].size => w'[p].hashed = file' \o w'[p].buf
    <3>1. Len(file') = 0 => file' = <<>>
      BY <1>5, ContentLen
    <3>2. w'[p].target = "upload" => to # "idle"
      BY <1>9, NoWriterIs
    <3> QED
      BY <1>5, <1>10, <2>3, <3>1, <3>2
  <2>6. w'[p].target # "blob" /\ (to # "idle" => w'[p].target = "upload")
    BY <1>9, <1>10, NoWriterIs
  <2>7. file' # None => HashFits(hashStates', file' \o w'[p].buf)
    BY <2>3, <2>4
  <2> QED
    BY <1>5, <1>6, <1>7, <2>2, <2>5, <2>6, <2>7 DEF Solo
<1>17. SerialOK'
  BY <1>1, <1>7, <1>8, <1>9, <1>16, SerialStep DEF UploadInv, Types
<1> QED
  BY <1>11, <1>12, <1>13, <1>14, <1>15, <1>17 DEF UploadInv
-----------------------------------------------------------------------------
\* Writers whose file is deleted.
LEMMA DroppedOK ==
    ASSUME UploadInv
    PROVE  /\ Dropped \in [Proc -> Writer]
           /\ \A q \in Proc : /\ Dropped[q].kind = w[q].kind /\ Dropped[q].closed = w[q].closed
                              /\ Dropped[q].buf = w[q].buf
                              /\ Dropped[q].target \in {"gone", "blob"}
                              /\ Dropped[q].target = "blob" => w[q].target = "blob"
                              /\ w[q].target # "upload" => Dropped[q] = w[q]
                              /\ WriterOK(pc[q], Dropped[q])
                              /\ \A f : PlaceOK(Dropped[q], f, data)
<1>1. ASSUME NEW q \in Proc
      PROVE  /\ Dropped[q] \in Writer
             /\ Dropped[q].kind = w[q].kind /\ Dropped[q].closed = w[q].closed
             /\ Dropped[q].buf = w[q].buf
             /\ Dropped[q].target \in {"gone", "blob"}
             /\ Dropped[q].target = "blob" => w[q].target = "blob"
             /\ w[q].target # "upload" => Dropped[q] = w[q]
             /\ WriterOK(pc[q], Dropped[q])
             /\ \A f : PlaceOK(Dropped[q], f, data)
  <2>1. w[q] \in Writer /\ WriterOK(pc[q], w[q]) /\ PlaceOK(w[q], file, data)
    BY DEF UploadInv, Types
  <2>2. CASE w[q].target # "upload"
    <3>1. Dropped[q] = w[q]
      BY <2>2 DEF Dropped
    <3>2. w[q].target \in {"gone", "blob"}
      BY <2>1, <2>2, WriterFields DEF Places
    <3> QED
      BY <2>1, <2>2, <3>1, <3>2, ZenonT(30) DEF PlaceOK
  <2>3. CASE w[q].target = "upload"
    <3> DEFINE u == Dropped[q]
    <3>1. u = [w[q] EXCEPT !.target = "gone"]
      BY <2>3 DEF Dropped
    <3> HIDE DEF u
    <3>2. u \in Writer
      BY <2>1, <3>1 DEF Writer, Places
    <3>3. /\ u.kind = w[q].kind /\ u.closed = w[q].closed /\ u.target = "gone"
          /\ u.buf = w[q].buf /\ u.size = w[q].size /\ u.written = w[q].written
          /\ u.hashed = w[q].hashed
      BY <2>1, <3>1 DEF Writer
    <3>4. pc[q] # "idle" /\ pc[q] # "open"
      BY <2>1, <2>3, NoWriterIs, ZenonT(30) DEF WriterOK
    <3>5. WriterOK(pc[q], u)
      BY <2>1, <3>3, <3>4 DEF WriterOK
    <3>6. \A f : PlaceOK(u, f, data)
      BY <3>3 DEF PlaceOK
    <3> QED
      BY <2>3, <3>2, <3>3, <3>5, <3>6 DEF u
  <2> QED
    BY <2>2, <2>3, ZenonT(30)
<1>2. Dropped \in [Proc -> Writer]
  <2>1. DOMAIN Dropped = Proc /\ Dropped = [q \in Proc |-> Dropped[q]]
    BY DEF Dropped
  <2> QED
    BY <1>1, <2>1
<1> QED
  BY <1>1, <1>2, ZenonT(30)

\* Without a file no hash state matters, and nobody may start on the session.
LEMMA SoloGone ==
    ASSUME NEW s, NEW u, file' = None, hashStates' = NoHashStates, ~started',
           u.target # "upload", u.target = "blob" => s \in {"link", "remove"}
    PROVE  /\ s \notin {"idle", "open"} /\ file' # None => u.target = "upload"
           /\ u.target = "upload" => /\ u.size = Len(file') + Len(u.buf)
                                     /\ u.written = u.size => u.hashed = file' \o u.buf
           /\ u.target = "blob" => s \in {"link", "remove"}
           /\ file' # None => HashFits(hashStates', file' \o u.buf)
           /\ s = "open" /\ file' = None => hashStates' = NoHashStates
           /\ started' /\ file' = None => s \in {"open", "link", "remove"} \cup Dropping
           /\ s \in {"move.stat", "move"} /\ file' # None => file' = u.dgst
OBVIOUS

\* The session's directory is deleted by a request, which ends or goes on.
DeleteStep(p, to) ==
    /\ pc[p] \in {"remove", "cancel.remove"} /\ to \in {"idle", "store"}
    /\ DeleteDir
    /\ pc' = [pc EXCEPT ![p] = to]
    /\ w' = IF to = "idle" THEN [Dropped EXCEPT ![p] = NoWriter] ELSE Dropped
    /\ to = "store" => pc[p] = "cancel.remove"
    /\ UNCHANGED <<use, tokens, data>>

\* No hash states are well typed.
LEMMA NoStates == /\ NoHashStates \in [0..MaxLen -> Content \cup {None}]
                  /\ \A n \in 0..MaxLen : NoHashStates[n] = None
BY DEF NoHashStates

\* Deleting the directory keeps the invariant.
LEMMA DeleteStepOK ==
    ASSUME UploadInv, NEW p \in Proc, NEW to, DeleteStep(p, to)
    PROVE  UploadInv'
<1>1. /\ pc[p] \in {"remove", "cancel.remove"} /\ to \in {"idle", "store"}
      /\ started' = FALSE /\ file' = None /\ hashStates' = NoHashStates /\ created' = created
      /\ pc' = [pc EXCEPT ![p] = to]
      /\ w' = IF to = "idle" THEN [Dropped EXCEPT ![p] = NoWriter] ELSE Dropped
      /\ to = "store" => pc[p] = "cancel.remove"
      /\ UNCHANGED <<use, tokens, data>>
  BY DEF DeleteStep, DeleteDir
<1>2. pc'[p] = to /\ (\A q \in Proc : q # p => pc'[q] = pc[q]) /\ pc' = [pc EXCEPT ![p] = pc'[p]]
  BY <1>1 DEF UploadInv, Types
<1>3. w' \in [Proc -> Writer] /\ \A q \in Proc : q # p => w'[q] = Dropped[q]
  BY <1>1, DroppedOK, NoWriterIs, ZenonT(30)
<1>4. IF to = "idle" THEN w'[p] = NoWriter ELSE w'[p] = Dropped[p]
  BY <1>1, DroppedOK, ZenonT(30)
<1>5. Types'
  BY <1>1, <1>3, NoStates, ZenonT(30) DEF UploadInv, Types, Steps
<1>6. StatesOK'
  BY <1>1, NoStates DEF StatesOK
<1>7. ASSUME NEW q \in Proc PROVE WriterOK(pc'[q], w'[q]) /\ PlaceOK(w'[q], file', data')
  <2>1. CASE q # p
    BY <1>1, <1>2, <1>3, <2>1, DroppedOK
  <2>2. CASE q = p /\ to = "idle"
    BY <1>2, <1>4, <2>2, NoWriterIs, ZenonT(30) DEF PlaceOK
  <2>3. CASE q = p /\ to = "store"
    <3>1. WriterOK("cancel.remove", Dropped[p]) /\ PlaceOK(Dropped[p], file', data')
      BY <1>1, <2>3, DroppedOK
    <3>2. WriterOK("store", Dropped[p])
      BY <3>1, ZenonT(30) DEF WriterOK, Begun, Closed
    <3> QED
      BY <1>2, <1>4, <2>3, <3>1, <3>2, ZenonT(30)
  <2> QED
    BY <1>1, <2>1, <2>2, <2>3
<1>8. OrderOK'
  <2>1. \A q \in Proc : w'[q].kind = w[q].kind \/ pc'[q] = "idle"
    BY <1>1, <1>2, <1>3, <1>4, DroppedOK
  <2>2. /\ OrderOK /\ Types /\ pc[p] # "idle" /\ pc[p] # "open" /\ pc'[p] # "open"
        /\ pc'[p] \notin Deleting
    BY <1>1, <1>2 DEF UploadInv, Deleting
  <2> QED
    BY <1>1, <1>2, <1>3, <2>1, <2>2, OrderStep, ZenonT(30)
<1>9. AckedOK'
  BY <1>1 DEF AckedOK
<1>10. ASSUME OneAtATime PROVE ContentMatchesDigest' /\ Solo(pc[p], w[p])'
  <2>1. Solo(pc[p], w[p]) /\ ContentMatchesDigest
    BY <1>1, <1>10, SoloNow
  <2>2. ContentMatchesDigest'
    BY <1>1, <2>1 DEF ContentMatchesDigest
  <2>3. w'[p].target # "upload" /\ (w'[p].target = "blob" => pc'[p] \in {"link", "remove"})
    <3>1. CASE to = "idle"
      BY <1>4, <3>1, NoWriterIs
    <3>2. CASE to = "store"
      <4>1. w[p].target # "blob"
        BY <1>1, <2>1, <3>2 DEF Solo
      <4> QED
        BY <1>4, <3>2, <4>1, DroppedOK, ZenonT(30)
    <3> QED
      BY <1>1, <3>1, <3>2
  <2> QED
    BY <1>1, <2>2, <2>3, SoloGone, ZenonT(30) DEF Solo
<1>11. SerialOK'
  <2>1. \A q \in Proc : q # p => w'[q] = w[q] \/ w[q].target # "gone"
    BY <1>3, DroppedOK, ZenonT(30)
  <2> QED
    BY <1>1, <1>2, <1>4, <1>10, <2>1, SerialStep, ZenonT(30)
<1> QED
  BY <1>5, <1>6, <1>7, <1>8, <1>9, <1>11, ZenonT(30) DEF UploadInv

\* PurgeUploads keeps the invariant.
LEMMA PurgeOK ==
    ASSUME UploadInv, PurgeUploads, UNCHANGED use
    PROVE  UploadInv'
<1>1. /\ started /\ tokens # {}
      /\ started' = FALSE /\ file' = None /\ hashStates' = NoHashStates /\ created' = created
      /\ w' = Dropped /\ UNCHANGED <<use, tokens, data, pc>>
  BY DEF PurgeUploads, DeleteDir
<1>2. Types'
  BY <1>1, DroppedOK, NoStates, ZenonT(30) DEF UploadInv, Types
<1>3. StatesOK'
  BY <1>1, NoStates DEF StatesOK
<1>4. \A q \in Proc : WriterOK(pc'[q], w'[q]) /\ PlaceOK(w'[q], file', data')
  BY <1>1, DroppedOK, ZenonT(30)
<1>5. OrderOK'
  <2>1. OrderOK /\ created
    BY <1>1, ZenonT(30) DEF UploadInv, OrderOK
  <2>2. \A q \in Proc : pc'[q] = pc[q] /\ (pc[q] = "idle" \/ w'[q].kind = w[q].kind)
    BY <1>1, DroppedOK, ZenonT(30)
  <2>3. created' /\ file' = None /\ tokens' = tokens /\ use' = use
    BY <1>1, <2>1
  <2>4. \A q \in Proc : pc'[q] # "idle" /\ w'[q].kind # "post" => tokens' # {}
    BY <1>1
  <2>5. \A q, r \in Proc : pc'[q] # "idle" /\ w'[q].kind = "post" /\ pc'[r] # "idle" /\ w'[r].kind = "post"
                              => q = r
    BY <2>1, <2>2, ZenonT(30) DEF OrderOK
  <2>6. \A q \in Proc : pc'[q] = "open" /\ w'[q].kind = "post" => tokens' = {} /\ file' = None
    BY <2>1, <2>2, <2>3 DEF OrderOK
  <2>7. ASSUME NEW q \in Proc, pc'[q] \in Deleting \/ (pc'[q] = "open" /\ w'[q].kind = "delete")
        PROVE  use'.cancel
    <3>1. pc[q] \in Deleting \/ (pc[q] = "open" /\ w[q].kind = "delete")
      BY <2>2, <2>7
    <3> QED
      BY <2>1, <2>3, <3>1 DEF OrderOK
  <2>8. use'.serial => \A q, r \in Proc : pc'[q] # "idle" /\ pc'[r] # "idle" => q = r
    BY <2>1, <2>2, <2>3 DEF OrderOK
  <2> QED
    BY <2>3, <2>4, <2>5, <2>6, <2>7, <2>8 DEF OrderOK
<1>6. AckedOK'
  BY <1>1 DEF AckedOK
<1>7. SerialOK'
  <2> SUFFICES ASSUME OneAtATime
               PROVE  ContentMatchesDigest' /\ \A q \in Proc : Alone(q) => Solo(pc[q], w[q])'
    BY <1>1 DEF SerialOK, OneAtATime, Alone
  <2>1. ContentMatchesDigest'
    BY <1>1, ZenonT(30) DEF UploadInv, SerialOK, ContentMatchesDigest
  <2>2. ASSUME NEW q \in Proc, Alone(q) PROVE Solo(pc[q], w[q])'
    <3>1. Solo(pc[q], w[q])
      BY <2>2 DEF UploadInv, SerialOK
    <3>2. w'[q].target # "upload" /\ (w'[q].target = "blob" => pc'[q] \in {"link", "remove"})
      BY <1>1, <3>1, DroppedOK, ZenonT(30) DEF Solo
    <3> QED
      BY <1>1, <3>2, SoloGone DEF Solo
  <2> QED
    BY <2>1, <2>2
<1> QED
  BY <1>2, <1>3, <1>4, <1>5, <1>6, <1>7, ZenonT(30) DEF UploadInv
-----------------------------------------------------------------------------
\* DELETE removes the data file: the invariant is kept.
LEMMA CancelFileOK ==
    ASSUME UploadInv, NEW p \in Proc, CancelFile(p), UNCHANGED use
    PROVE  UploadInv'
<1> DEFINE to == IF file = None THEN "store" ELSE "cancel.store"
<1>1. /\ pc[p] = "cancel" /\ file' = None /\ pc' = [pc EXCEPT ![p] = to]
      /\ UNCHANGED <<use, created, started, hashStates, tokens, data>>
  BY DEF CancelFile, Goto
<1>2. w \in [Proc -> Writer] /\ WriterOK("cancel", w[p])
  BY <1>1 DEF UploadInv, Types
<1>3. w' = [Dropped EXCEPT ![p] = [Dropped[p] EXCEPT !.closed = TRUE]]
  <2>1. CASE file = None
    <3>1. \A q \in Proc : Dropped[q] = w[q]
      BY <2>1, DroppedOK, ZenonT(30) DEF UploadInv, PlaceOK
    <3>2. Dropped = w
      BY <1>2, <3>1, DroppedOK
    <3>3. w' = [w EXCEPT ![p].closed = TRUE]
      BY <2>1 DEF CancelFile
    <3> QED
      BY <1>2, <3>2, <3>3 DEF Writer
  <2>2. CASE file # None
    <3>1. w' = [Dropped EXCEPT ![p].closed = TRUE]
      BY <2>2 DEF CancelFile
    <3> QED
      BY <3>1, DroppedOK DEF Writer
  <2> QED
    BY <2>1, <2>2
<1>4. [Dropped[p] EXCEPT !.closed = TRUE] \in Writer
  BY DroppedOK, ZenonT(30) DEF Writer
<1>5. /\ w' \in [Proc -> Writer] /\ (\A q \in Proc : q # p => w'[q] = Dropped[q])
      /\ w'[p] = [Dropped[p] EXCEPT !.closed = TRUE]
  BY <1>3, <1>4, DroppedOK
<1>6. /\ w'[p].kind = w[p].kind /\ w'[p].target = Dropped[p].target /\ w'[p].closed
      /\ w'[p].blob = Dropped[p].blob /\ w'[p].size = Dropped[p].size /\ w'[p].buf = Dropped[p].buf
      /\ w'[p].written = Dropped[p].written /\ w'[p].hashed = Dropped[p].hashed
  BY <1>5, DroppedOK DEF Writer
<1>7. to \in {"store", "cancel.store"} /\ to \in Steps /\ (to = "store" <=> file = None)
  BY DEF Steps
<1> HIDE DEF to
<1>8. pc'[p] = to /\ (\A q \in Proc : q # p => pc'[q] = pc[q]) /\ pc' = [pc EXCEPT ![p] = pc'[p]]
  BY <1>1 DEF UploadInv, Types
<1>9. Types'
  BY <1>1, <1>5, <1>7, ZenonT(30) DEF UploadInv, Types
<1>10. StatesOK'
  BY <1>1, ZenonT(30) DEF UploadInv, StatesOK
<1>11. ASSUME NEW q \in Proc PROVE WriterOK(pc'[q], w'[q]) /\ PlaceOK(w'[q], file', data')
  <2>1. WriterOK(pc[q], Dropped[q]) /\ PlaceOK(Dropped[q], file', data)
    BY DroppedOK, ZenonT(30)
  <2>2. CASE q # p
    BY <1>1, <1>5, <1>8, <2>1, <2>2
  <2>3. CASE q = p
    <3>1. w'[p].buf = <<>>
      <4>1. pc[p] \in Begun
        BY <1>1 DEF Begun
      <4> QED
        BY <1>6, <2>1, <2>3, <4>1, ZenonT(30) DEF WriterOK
    <3>2. WriterOK(to, w'[p])
      BY <1>6, <1>7, <2>1, <2>3, <3>1, ZenonT(30) DEF WriterOK, Begun
    <3>3. PlaceOK(w'[p], file', data')
      BY <1>1, <1>6, <2>1, <2>3, ZenonT(30) DEF PlaceOK
    <3> QED
      BY <1>8, <2>3, <3>2, <3>3
  <2> QED
    BY <2>2, <2>3, ZenonT(30)
<1>12. OrderOK'
  <2>1. \A q \in Proc : w'[q].kind = w[q].kind \/ pc'[q] = "idle"
    <3>1. \A q \in Proc : Dropped[q].kind = w[q].kind
      BY DroppedOK, ZenonT(30)
    <3>2. \A q \in Proc : q # p => w'[q].kind = w[q].kind
      BY <1>5, <3>1
    <3> QED
      BY <1>6, <3>2, ZenonT(30)
  <2>2. /\ OrderOK /\ Types /\ pc[p] # "idle" /\ pc[p] # "open" /\ pc'[p] # "open"
        /\ pc[p] \in Deleting
    BY <1>1, <1>7, <1>8 DEF UploadInv, Deleting
  <2> QED
    BY <1>1, <1>5, <1>8, <2>1, <2>2, OrderStep, ZenonT(30)
<1>13. AckedOK'
  <2> SUFFICES ASSUME AckUse, started, NoData
               PROVE  /\ \E q \in Proc : pc'[q] \in Dropping
                      /\ \A q \in Proc : pc'[q] \notin {"idle", "open"} \cup Dropping
                                            => w'[q].target = "upload"
    BY <1>1, ZenonT(30) DEF AckedOK, AckUse, OneAtATime, NoData
  <2>1. w[p].target = "upload" /\ file # None
    BY <1>1, ZenonT(30) DEF UploadInv, AckedOK, Dropping, PlaceOK
  <2>2. pc'[p] \in Dropping
    BY <1>7, <1>8, <2>1 DEF Dropping
  <2>3. use.serial
    BY <1>1, ZenonT(30) DEF UploadInv, OrderOK, Deleting, AckUse, OneAtATime
  <2>4. \A q \in Proc : q # p => pc'[q] = "idle"
    BY <1>1, <1>8, <2>3, OthersIdle DEF Alone
  <2> QED
    BY <2>2, <2>4
<1>14. ASSUME OneAtATime PROVE ContentMatchesDigest' /\ Solo(pc[p], w[p])'
  <2>1. Solo("cancel", w[p]) /\ ContentMatchesDigest
    BY <1>1, <1>14, SoloNow
  <2>2. ContentMatchesDigest'
    BY <1>1, <2>1 DEF ContentMatchesDigest
  <2>3. w'[p].target # "upload" /\ w'[p].target # "blob"
    BY <1>6, <2>1, DroppedOK, ZenonT(30) DEF Solo
  <2>4. started /\ file = None => FALSE
    BY <2>1, ZenonT(30) DEF Solo, Dropping
  <2>5. started' /\ file' = None => pc'[p] \in Dropping
    BY <1>1, <1>7, <1>8, <2>4 DEF Dropping
  <2> QED
    BY <1>1, <1>7, <1>8, <2>2, <2>3, <2>5 DEF Solo
<1>15. SerialOK'
  <2>1. \A q \in Proc : q # p => w'[q] = w[q] \/ w[q].target # "gone"
    BY <1>5, DroppedOK
  <2> QED
    BY <1>1, <1>7, <1>8, <1>14, <2>1, SerialStep, ZenonT(30)
<1> QED
  BY <1>9, <1>10, <1>11, <1>12, <1>13, <1>15, ZenonT(30) DEF UploadInv

\* Writers whose file is moved to the blob store as content c, or was there and is replaced.
LEMMA MovedOK ==
    ASSUME UploadInv, NEW d \in Content, NEW c \in Content, file # None => c = file
    PROVE  /\ Moved(d) \in [Proc -> Writer]
           /\ \A q \in Proc : /\ Moved(d)[q].kind = w[q].kind
                              /\ Moved(d)[q].target # "upload"
                              /\ w[q].target = "gone" => Moved(d)[q] = w[q]
                              /\ WriterOK(pc[q], Moved(d)[q])
                              /\ PlaceOK(Moved(d)[q], None, [data EXCEPT ![d] = c])
<1>1. data \in [Content -> Content \cup {None}] /\ c # None
  BY EmptyContent DEF UploadInv, Types
<1>2. ASSUME NEW q \in Proc
      PROVE  /\ Moved(d)[q] \in Writer
             /\ Moved(d)[q].kind = w[q].kind
             /\ Moved(d)[q].target # "upload"
             /\ w[q].target = "gone" => Moved(d)[q] = w[q]
             /\ WriterOK(pc[q], Moved(d)[q])
             /\ PlaceOK(Moved(d)[q], None, [data EXCEPT ![d] = c])
  <2>1. /\ w[q] \in Writer /\ WriterOK(pc[q], w[q]) /\ PlaceOK(w[q], file, data)
        /\ w[q].target \in Places /\ w[q].blob \in Content
    BY WriterFields, ZenonT(30) DEF UploadInv, Types
  <2>2. CASE w[q].target = "gone" \/ (w[q].target = "blob" /\ w[q].blob # d)
    <3>1. Moved(d)[q] = w[q]
      BY <2>2 DEF Moved
    <3>2. w[q].blob # d => [data EXCEPT ![d] = c][w[q].blob] = data[w[q].blob]
      BY <1>1, <2>1, ZenonT(30)
    <3>3. PlaceOK(w[q], None, [data EXCEPT ![d] = c])
      BY <2>1, <2>2, <3>2, ZenonT(30) DEF PlaceOK
    <3> QED
      BY <2>1, <2>2, <3>1, <3>3, ZenonT(30)
  <2>3. CASE w[q].target = "upload" \/ (w[q].target = "blob" /\ w[q].blob = d)
    <3> DEFINE u == Moved(d)[q]
    <3>1. u = IF w[q].target = "upload" THEN [w[q] EXCEPT !.target = "blob", !.blob = d]
              ELSE [w[q] EXCEPT !.target = "gone", !.blob = <<>>]
      BY <2>3 DEF Moved
    <3> HIDE DEF u
    <3>2. u \in Writer
      BY <2>1, <3>1, EmptyContent, ZenonT(30) DEF Writer, Places
    <3>3. /\ u.kind = w[q].kind /\ u.closed = w[q].closed
          /\ u.buf = w[q].buf /\ u.size = w[q].size /\ u.written = w[q].written
          /\ u.hashed = w[q].hashed
          /\ w[q].target = "upload" => u.target = "blob" /\ u.blob = d
          /\ w[q].target = "blob" => u.target = "gone"
      BY <2>1, <3>1 DEF Writer
    <3>4. pc[q] # "idle" /\ pc[q] # "open"
      BY <2>1, <2>3, NoWriterIs, ZenonT(30) DEF WriterOK
    <3>5. WriterOK(pc[q], u)
      BY <2>1, <3>3, <3>4, ZenonT(30) DEF WriterOK
    <3>6. PlaceOK(u, None, [data EXCEPT ![d] = c])
      <4>1. [data EXCEPT ![d] = c][d] = c
        BY <1>1
      <4>2. w[q].target = "upload" => c = file /\ u.size <= Len(c) + Len(u.buf)
        BY <2>1, <3>3 DEF PlaceOK
      <4> QED
        BY <1>1, <2>3, <3>3, <4>1, <4>2, ZenonT(30) DEF PlaceOK
    <3> QED
      BY <2>3, <3>2, <3>3, <3>5, <3>6, ZenonT(30) DEF u
  <2> QED
    BY <2>1, <2>2, <2>3, ZenonT(30) DEF Places
<1>3. Moved(d) \in [Proc -> Writer]
  <2>1. DOMAIN Moved(d) = Proc /\ Moved(d) = [q \in Proc |-> Moved(d)[q]]
    BY DEF Moved
  <2> QED
    BY <1>2, <2>1
<1> QED
  BY <1>2, <1>3, ZenonT(30)

\* The move to the blob store keeps the invariant.
LEMMA MoveOK ==
    ASSUME UploadInv, NEW p \in Proc, Move(p), UNCHANGED use
    PROVE  UploadInv'
<1>1. pc[p] = "move" /\ UNCHANGED <<use, created, started, hashStates, tokens>>
  BY DEF Move
<1> DEFINE d == w[p].dgst
<1>2. d \in Content /\ file \in Content \cup {None} /\ data \in [Content -> Content \cup {None}]
  BY WriterFields, ZenonT(30) DEF UploadInv, Types
<1>3. CASE ~(file # None \/ d = <<>>)
  <2>1. GotoStep(p, "move", "store")
    BY <1>1, <1>3 DEF Move, GotoStep, Goto
  <2> QED
    BY <2>1, GotoStepOK
<1>4. CASE file # None \/ d = <<>>
  <2> DEFINE c == IF file # None THEN file ELSE <<>>
  <2>1. /\ data' = [data EXCEPT ![d] = c] /\ w' = Moved(d) /\ pc' = [pc EXCEPT ![p] = "link"]
        /\ file' = None
    <3>1. CASE file # None
      BY <3>1 DEF Move, Goto
    <3>2. CASE file = None
      BY <1>4, <3>2 DEF Move, Goto
    <3> QED
      BY <3>1, <3>2
  <2>2. c \in Content /\ c # None /\ (file # None => c = file) /\ (file = None => c = d)
    BY <1>2, <1>4, EmptyContent
  <2> HIDE DEF c, d
  <2>3. pc'[p] = "link" /\ (\A q \in Proc : q # p => pc'[q] = pc[q]) /\ pc' = [pc EXCEPT ![p] = pc'[p]]
    BY <2>1 DEF UploadInv, Types
  <2>4. /\ w' \in [Proc -> Writer]
        /\ \A q \in Proc : /\ w'[q].kind = w[q].kind /\ w'[q].target # "upload"
                           /\ w[q].target = "gone" => w'[q] = w[q]
                           /\ WriterOK(pc[q], w'[q])
                           /\ PlaceOK(w'[q], None, [data EXCEPT ![d] = c])
    BY <1>2, <2>1, <2>2, MovedOK, ZenonT(30)
  <2>5. data' \in [Content -> Content \cup {None}] /\ data'[d] = c
    BY <1>2, <2>1, <2>2
  <2>6. Types'
    BY <1>1, <2>1, <2>4, <2>5, ZenonT(30) DEF UploadInv, Types, Steps
  <2>7. StatesOK'
    BY <1>1, ZenonT(30) DEF UploadInv, StatesOK
  <2>8. ASSUME NEW q \in Proc PROVE WriterOK(pc'[q], w'[q]) /\ PlaceOK(w'[q], file', data')
    <3>1. WriterOK(pc[q], w'[q]) /\ PlaceOK(w'[q], file', data')
      BY <2>1, <2>4, ZenonT(30)
    <3>2. CASE q # p
      BY <2>3, <3>1, <3>2
    <3>3. CASE q = p
      BY <1>1, <2>3, <3>1, <3>3, ZenonT(30) DEF WriterOK, Begun, Closed
    <3> QED
      BY <3>2, <3>3, ZenonT(30)
  <2>9. OrderOK'
    <3>1. OrderOK /\ Types /\ pc[p] # "idle" /\ pc[p] # "open" /\ pc'[p] # "open" /\ pc'[p] \notin Deleting
      BY <1>1, <2>3, ZenonT(30) DEF UploadInv, Deleting
    <3> QED
      BY <1>1, <2>3, <2>4, <3>1, OrderStep, ZenonT(30)
  <2>10. AckedOK'
    <3>1. ~NoData'
      BY <1>2, <2>2, <2>5 DEF NoData
    <3> QED
      BY <3>1, ZenonT(30) DEF AckedOK
  <2>11. ASSUME OneAtATime PROVE ContentMatchesDigest' /\ Solo(pc[p], w[p])'
    <3>1. Solo("move", w[p]) /\ ContentMatchesDigest
      BY <1>1, <2>11, SoloNow, ZenonT(30)
    <3>2. c = d
      BY <2>2, <3>1 DEF Solo, d
    <3>3. ContentMatchesDigest'
      BY <1>2, <2>1, <3>1, <3>2 DEF ContentMatchesDigest
    <3>4. w'[p].target # "upload"
      BY <2>4, ZenonT(30)
    <3> QED
      BY <2>1, <2>3, <3>3, <3>4 DEF Solo
  <2>12. SerialOK'
    <3>1. \A q \in Proc : q # p => w'[q] = w[q] \/ w[q].target # "gone"
      BY <2>4, ZenonT(30)
    <3> QED
      BY <1>1, <2>3, <2>11, <3>1, SerialStep, ZenonT(30)
  <2> QED
    BY <2>6, <2>7, <2>8, <2>9, <2>10, <2>12 DEF UploadInv
<1> QED
  BY <1>3, <1>4

\* A crash keeps the invariant: what the requests had is lost, the files stay.
LEMMA CrashOK ==
    ASSUME UploadInv, Crash, UNCHANGED use
    PROVE  UploadInv'
<1>1. /\ use.crash /\ pc' = [p \in Proc |-> "idle"] /\ w' = [p \in Proc |-> NoWriter]
      /\ UNCHANGED <<use, created, started, file, hashStates, tokens, data>>
  BY DEF Crash, uploadVars
<1>2. \A p \in Proc : pc'[p] = "idle" /\ w'[p] = NoWriter
  BY <1>1
<1>3. Types'
  BY <1>1, NoWriterIs, ZenonT(30) DEF UploadInv, Types, Steps
<1>4. StatesOK'
  BY <1>1, ZenonT(30) DEF UploadInv, StatesOK
<1>5. \A p \in Proc : WriterOK(pc'[p], w'[p]) /\ PlaceOK(w'[p], file', data')
  BY <1>2, NoWriterIs, ZenonT(30) DEF PlaceOK
<1>6. OrderOK'
  BY <1>1, <1>2, ZenonT(30) DEF UploadInv, OrderOK, Deleting
<1>7. AckedOK'
  <2> SUFFICES ASSUME AckUse, started, NoData
               PROVE  /\ tokens # {} => file # None
                      /\ file # None => \A off \in tokens : off <= Len(file)
    BY <1>1, <1>2 DEF AckedOK, AckUse, OneAtATime, NoData
  <2>1. ~use.cancel
    BY <1>1 DEF AckUse, OneAtATime
  <2>2. \A p \in Proc : pc[p] \notin Dropping
    BY <2>1, ZenonT(30) DEF UploadInv, OrderOK, Dropping, Deleting
  <2> QED
    BY <2>2, ZenonT(30) DEF UploadInv, AckedOK
<1>8. SerialOK'
  BY <1>1 DEF SerialOK, OneAtATime
<1> QED
  BY <1>3, <1>4, <1>5, <1>6, <1>7, <1>8, ZenonT(30) DEF UploadInv
-----------------------------------------------------------------------------
\* The writer of a request that has not opened the file yet.
Fresh(u, kind) ==
    /\ u \in Writer /\ u.kind = kind /\ u.target = "gone" /\ u.buf = <<>> /\ u.size = 0
    /\ u.written = 0 /\ u.hashed = <<>> /\ ~u.closed

\* Such a writer is in order.
LEMMA FreshOK ==
    ASSUME NEW u, NEW kind, Fresh(u, kind)
    PROVE  WriterOK("open", u) /\ \A f, blobs : PlaceOK(u, f, blobs)
BY EmptyContent DEF Fresh, WriterOK, PlaceOK, Begun, Closed

\* The POST that starts the session keeps the invariant.
LEMMA StartOK ==
    ASSUME UploadInv, NEW p \in Proc, StartBlobUpload(p), UNCHANGED use
    PROVE  UploadInv'
<1> DEFINE u == [NoWriter EXCEPT !.kind = "post"]
<1>1. /\ pc[p] = "idle" /\ ~created /\ created' = TRUE /\ started' = TRUE
      /\ w' = [w EXCEPT ![p] = u] /\ pc' = [pc EXCEPT ![p] = "open"]
      /\ UNCHANGED <<use, file, hashStates, tokens, data>>
  BY DEF StartBlobUpload, Goto
<1>2. Fresh(u, "post")
  BY NoWriterIs DEF Fresh, Writer, Kinds
<1> HIDE DEF u
<1>3. /\ file = None /\ tokens = {} /\ hashStates = NoHashStates /\ \A q \in Proc : pc[q] = "idle"
  BY <1>1 DEF UploadInv, OrderOK
<1>4. pc'[p] = "open" /\ \A q \in Proc : q # p => pc'[q] = "idle"
  BY <1>1, <1>3 DEF UploadInv, Types
<1>5. w' \in [Proc -> Writer] /\ w'[p] = u /\ \A q \in Proc : q # p => w'[q] = w[q]
  BY <1>1, <1>2, ZenonT(30) DEF UploadInv, Types, Fresh
<1>6. Types'
  BY <1>1, <1>5 DEF UploadInv, Types, Steps
<1>7. StatesOK'
  BY <1>1 DEF UploadInv, StatesOK
<1>8. ASSUME NEW q \in Proc PROVE WriterOK(pc'[q], w'[q]) /\ PlaceOK(w'[q], file', data')
  <2>1. CASE q = p
    BY <1>2, <1>4, <1>5, <2>1, FreshOK, ZenonT(30)
  <2>2. CASE q # p
    BY <1>1, <1>3, <1>4, <1>5, <2>2 DEF UploadInv
  <2> QED
    BY <2>1, <2>2
<1>9. OrderOK'
  <2>1. w'[p].kind = "post"
    BY <1>2, <1>5 DEF Fresh
  <2> QED
    BY <1>1, <1>3, <1>4, <2>1 DEF OrderOK, Deleting
<1>10. AckedOK'
  BY <1>1, <1>3, <1>4 DEF AckedOK
<1>11. SerialOK'
  <2> SUFFICES ASSUME OneAtATime
               PROVE  ContentMatchesDigest' /\ \A q \in Proc : Alone(q)' => Solo(pc[q], w[q])'
    BY <1>1 DEF SerialOK, OneAtATime
  <2>1. ContentMatchesDigest'
    BY <1>1 DEF UploadInv, SerialOK, ContentMatchesDigest
  <2>2. Solo(pc[p], w[p])'
    BY <1>1, <1>2, <1>3, <1>4, <1>5, ZenonT(30) DEF Solo, Fresh
  <2>3. \A q \in Proc : Alone(q)' => q = p
    BY <1>4 DEF Alone
  <2> QED
    BY <2>1, <2>2, <2>3
<1> QED
  BY <1>6, <1>7, <1>8, <1>9, <1>10, <1>11, ZenonT(30) DEF UploadInv

\* Every other request keeps the invariant when it starts.
LEMMA ResumeOK ==
    ASSUME UploadInv, NEW p \in Proc, NEW kind \in Kinds \ {"post"}, NEW off \in Nat,
           NEW chunk \in Content, NEW dgst \in Content,
           ResumeBlobUpload(p, kind, off, chunk, dgst), UNCHANGED use,
           use.serial => \A q \in Proc : pc[q] = "idle",
           tokens # {}, kind = "delete" => use.cancel
    PROVE  UploadInv'
<1> DEFINE u == [NoWriter EXCEPT !.kind = kind, !.off = off, !.chunk = chunk, !.dgst = dgst]
<1>1. /\ pc[p] = "idle" /\ started
      /\ w' = [w EXCEPT ![p] = u] /\ pc' = [pc EXCEPT ![p] = "open"]
      /\ UNCHANGED <<use, created, started, file, hashStates, tokens, data>>
  BY DEF ResumeBlobUpload, Goto, uploadVars
<1>2. Fresh(u, kind)
  <2>1. u \in Writer
    BY NoWriterIs, ZenonT(30) DEF Writer
  <2> QED
    BY <2>1, NoWriterIs DEF Fresh, Writer
<1> HIDE DEF u
<1>3. pc'[p] = "open" /\ \A q \in Proc : q # p => pc'[q] = pc[q]
  BY <1>1 DEF UploadInv, Types
<1>4. w' \in [Proc -> Writer] /\ w'[p] = u /\ \A q \in Proc : q # p => w'[q] = w[q]
  BY <1>1, <1>2, ZenonT(30) DEF UploadInv, Types, Fresh
<1>5. Types'
  BY <1>1, <1>4 DEF UploadInv, Types, Steps
<1>6. StatesOK'
  BY <1>1 DEF UploadInv, StatesOK
<1>7. ASSUME NEW q \in Proc PROVE WriterOK(pc'[q], w'[q]) /\ PlaceOK(w'[q], file', data')
  <2>1. CASE q = p
    BY <1>2, <1>3, <1>4, <2>1, FreshOK, ZenonT(30)
  <2>2. CASE q # p
    BY <1>1, <1>3, <1>4, <2>2 DEF UploadInv
  <2> QED
    BY <2>1, <2>2
<1>8. OrderOK'
  <2>1. w'[p].kind = kind /\ kind # "post"
    BY <1>2, <1>4, ZenonT(30) DEF Fresh
  <2>2. created'
    BY <1>1 DEF UploadInv, OrderOK
  <2>3. \A q \in Proc : pc'[q] # "idle" /\ w'[q].kind = "post" => q # p /\ pc[q] = pc'[q] /\ w[q] = w'[q]
    BY <1>3, <1>4, <2>1, ZenonT(30)
  <2>4. \A q, r \in Proc : pc'[q] # "idle" /\ w'[q].kind = "post" /\ pc'[r] # "idle" /\ w'[r].kind = "post"
                              => q = r
    <3>1. \A q, r \in Proc : pc[q] # "idle" /\ w[q].kind = "post" /\ pc[r] # "idle" /\ w[r].kind = "post" => q = r
      BY ZenonT(30) DEF UploadInv, OrderOK
    <3> QED
      BY <2>3, <3>1, ZenonT(30)
  <2>5. \A q \in Proc : pc'[q] = "open" /\ w'[q].kind = "post" => tokens' = {} /\ file' = None
    <3>1. \A q \in Proc : pc[q] = "open" /\ w[q].kind = "post" => tokens = {} /\ file = None
      BY ZenonT(30) DEF UploadInv, OrderOK
    <3>2. tokens' = tokens /\ file' = file /\ "open" # "idle"
      BY <1>1
    <3> QED
      BY <2>3, <3>1, <3>2, ZenonT(30)
  <2>6. ASSUME NEW q \in Proc, pc'[q] \in Deleting \/ (pc'[q] = "open" /\ w'[q].kind = "delete")
        PROVE  use'.cancel
    <3>1. CASE q = p
      BY <1>1, <1>3, <2>1, <2>6, <3>1 DEF Deleting
    <3>2. CASE q # p
      BY <1>1, <1>3, <1>4, <2>6, <3>2, ZenonT(30) DEF UploadInv, OrderOK
    <3> QED
      BY <3>1, <3>2
  <2>7. use'.serial => \A q, r \in Proc : pc'[q] # "idle" /\ pc'[r] # "idle" => q = r
    BY <1>1, <1>3
  <2> QED
    BY <1>1, <2>2, <2>4, <2>5, <2>6, <2>7 DEF OrderOK
<1>9. AckedOK'
  <2> SUFFICES ASSUME AckUse, started, NoData
               PROVE  /\ tokens # {} => file # None \/ \E q \in Proc : pc'[q] \in Dropping
                      /\ file # None => \A n \in tokens : n <= Len(file)
                      /\ \A q \in Proc : pc'[q] \notin {"idle", "open"} \cup Dropping
                                            => w'[q].target = "upload"
    BY <1>1 DEF AckedOK, AckUse, OneAtATime, NoData
  <2>1. \A q \in Proc : pc[q] \in Dropping => q # p /\ pc'[q] = pc[q]
    BY <1>1, <1>3 DEF Dropping
  <2>2. \A q \in Proc : pc'[q] # "open" => q # p /\ pc'[q] = pc[q] /\ w'[q] = w[q]
    BY <1>3, <1>4
  <2> QED
    BY <2>1, <2>2, ZenonT(30) DEF UploadInv, AckedOK
<1>10. SerialOK'
  <2> SUFFICES ASSUME OneAtATime
               PROVE  ContentMatchesDigest' /\ \A q \in Proc : Alone(q)' => Solo(pc[q], w[q])'
    BY <1>1 DEF SerialOK, OneAtATime
  <2>1. ContentMatchesDigest'
    BY <1>1, ZenonT(30) DEF UploadInv, SerialOK, ContentMatchesDigest
  <2>2. Solo("idle", NoWriter)
    <3>1. Alone(p) /\ w[p] = NoWriter
      BY <1>1, ZenonT(30) DEF OneAtATime, Alone, UploadInv, WriterOK
    <3> QED
      BY <1>1, <3>1 DEF UploadInv, SerialOK
  <2>3. file # None /\ HashFits(hashStates, file \o <<>>)
    BY <1>1, <2>2, NoWriterIs, ZenonT(30) DEF Solo, Dropping
  <2>4. Solo(pc[p], w[p])'
    BY <1>1, <1>2, <1>3, <1>4, <2>3, ZenonT(30) DEF Solo, Fresh
  <2>5. \A q \in Proc : Alone(q)' => q = p
    BY <1>3 DEF Alone
  <2> QED
    BY <2>1, <2>4, <2>5, ZenonT(30)
<1> QED
  BY <1>5, <1>6, <1>7, <1>8, <1>9, <1>10, ZenonT(30) DEF UploadInv

\* The invariant holds of a session that does not exist yet.
LEMMA UploadInvInit == Init => UploadInv
<1> SUFFICES ASSUME Init PROVE UploadInv
  OBVIOUS
<1>1. /\ use \in Uses /\ created = FALSE /\ started = FALSE /\ file = None /\ hashStates = NoHashStates
      /\ tokens = {} /\ data = [d \in Content |-> None]
      /\ pc = [p \in Proc |-> "idle"] /\ w = [p \in Proc |-> NoWriter]
  BY DEF Init
<1>2. \A p \in Proc : pc[p] = "idle" /\ w[p] = NoWriter
  BY <1>1, ZenonT(30)
<1>3. Types
  BY <1>1, NoStates, NoWriterIs, ZenonT(30) DEF Types, Steps
<1>4. \A p \in Proc : WriterOK(pc[p], w[p]) /\ PlaceOK(w[p], file, data)
  BY <1>2, NoWriterIs, ZenonT(30) DEF PlaceOK
<1>5. StatesOK
  BY <1>1, NoStates DEF StatesOK
<1>6. OrderOK
  BY <1>1, <1>2 DEF OrderOK, Deleting
<1>7. AckedOK
  BY <1>1 DEF AckedOK
<1>8. SerialOK
  BY <1>1, <1>2, NoWriterIs, ZenonT(30) DEF SerialOK, ContentMatchesDigest, Solo
<1> QED
  BY <1>3, <1>4, <1>5, <1>6, <1>7, <1>8 DEF UploadInv

\* The steps that flush a writer are flush steps.
LEMMA FlushSteps ==
    ASSUME UploadInv, NEW p \in Proc, FlushEarly(p) \/ CloseFlush(p) \/ CommitFlush(p), UNCHANGED use
    PROVE  \E to \in Steps : FlushStep(p, to)
<1>1. w \in [Proc -> Writer] /\ w[p] \in Writer /\ pc \in [Proc -> Steps]
  BY DEF UploadInv, Types
<1> DEFINE opened == [w[p] EXCEPT !.buf = <<>>]
<1> DEFINE shut == [w[p] EXCEPT !.buf = <<>>, !.closed = TRUE]
<1>2. opened \in Writer /\ Emptied(w[p], opened)
  BY <1>1, EmptyContent, ZenonT(30) DEF Writer, Emptied
<1>3. shut \in Writer /\ Emptied(w[p], shut) /\ shut.closed
  BY <1>1, EmptyContent, ZenonT(30) DEF Writer, Emptied
<1>4. ASSUME NEW u \in Writer, w' = [w EXCEPT ![p] = u]
      PROVE  w' \in [Proc -> Writer] /\ w'[p] = u /\ \A q \in Proc : q # p => w'[q] = w[q]
  BY <1>1, <1>4
<1>5. CASE FlushEarly(p)
  <2>1. w' = [w EXCEPT ![p] = opened]
    BY <1>1, <1>5 DEF FlushEarly, Writer
  <2> HIDE DEF opened
  <2>2. w' \in [Proc -> Writer] /\ w'[p] = opened /\ \A q \in Proc : q # p => w'[q] = w[q]
    BY <1>2, <1>4, <2>1, ZenonT(30)
  <2>3. pc[p] \in Steps /\ pc' = [pc EXCEPT ![p] = pc[p]]
    BY <1>1, <1>5 DEF FlushEarly
  <2>4. FlushStep(p, pc[p])
    BY <1>2, <1>5, <2>2, <2>3, ZenonT(30) DEF FlushEarly, FlushStep
  <2> QED
    BY <2>3, <2>4
<1>6. CASE CommitFlush(p)
  <2>1. w' = [w EXCEPT ![p] = shut] /\ pc' = [pc EXCEPT ![p] = "commit.store"]
    BY <1>1, <1>6, ZenonT(30) DEF CommitFlush, Goto, Writer
  <2> HIDE DEF shut
  <2>2. w' \in [Proc -> Writer] /\ w'[p] = shut /\ \A q \in Proc : q # p => w'[q] = w[q]
    BY <1>3, <1>4, <2>1, ZenonT(30)
  <2>3. FlushStep(p, "commit.store")
    BY <1>3, <1>6, <2>1, <2>2 DEF CommitFlush, FlushStep
  <2> QED
    BY <2>3 DEF Steps
<1>7. CASE CloseFlush(p)
  <2>1. /\ pc[p] = "flush"
        /\ FlushTo(w[p]) \/ (w[p].closed /\ UNCHANGED <<file, data>>)
        /\ tokens' = tokens \/ tokens' = tokens \cup {w[p].size}
        /\ UNCHANGED <<use, created, started, hashStates>>
    BY <1>7 DEF CloseFlush
  <2>2. CASE w[p].kind \in {"post", "get"} \/ (w[p].kind = "patch" /\ w[p].cut)
    <3>1. w' = [w EXCEPT ![p] = NoWriter] /\ pc' = [pc EXCEPT ![p] = "idle"]
      BY <1>7, <2>2 DEF CloseFlush, Finish, Goto
    <3>2. w' \in [Proc -> Writer] /\ w'[p] = NoWriter /\ \A q \in Proc : q # p => w'[q] = w[q]
      BY <1>4, <3>1, NoWriterIs, ZenonT(30)
    <3>3. FlushStep(p, "idle")
      BY <2>1, <3>1, <3>2 DEF FlushStep
    <3> QED
      BY <3>3 DEF Steps
  <2>3. CASE ~(w[p].kind \in {"post", "get"} \/ (w[p].kind = "patch" /\ w[p].cut))
    <3>1. pc' = [pc EXCEPT ![p] = "again"] /\ w' = [w EXCEPT ![p].closed = TRUE, ![p].buf = <<>>]
      BY <1>7, <2>3, ZenonT(30) DEF CloseFlush, Goto
    <3>2. w' = [w EXCEPT ![p] = shut]
      BY <1>1, <3>1, ZenonT(30) DEF Writer
    <3> HIDE DEF shut
    <3>3. w' \in [Proc -> Writer] /\ w'[p] = shut /\ \A q \in Proc : q # p => w'[q] = w[q]
      BY <1>3, <1>4, <3>2, ZenonT(30)
    <3>4. FlushStep(p, "again")
      BY <1>3, <2>1, <3>1, <3>3 DEF FlushStep
    <3> QED
      BY <3>4 DEF Steps
  <2> QED
    BY <2>2, <2>3
<1> QED
  BY <1>5, <1>6, <1>7

\* A new request keeps the invariant.
LEMMA NewRequestOK ==
    ASSUME UploadInv, NEW p \in Proc, NewRequest(p), UNCHANGED use
    PROVE  UploadInv'
<1>1. use.serial => \A q \in Proc : pc[q] = "idle"
  BY DEF NewRequest
<1>2. CASE StartBlobUpload(p)
  BY <1>2, StartOK
<1>3. CASE tokens # {} /\ ResumeBlobUpload(p, "get", 0, <<>>, <<>>)
  BY <1>1, <1>3, EmptyContent, ResumeOK DEF Kinds
<1>4. ASSUME NEW off \in tokens,
             \/ \E chunk \in Content :
                   \/ ResumeBlobUpload(p, "patch", off, chunk, <<>>)
                   \/ \E dgst \in Content : ResumeBlobUpload(p, "put", off, chunk, dgst)
             \/ use.cancel /\ ResumeBlobUpload(p, "delete", off, <<>>, <<>>)
      PROVE  UploadInv'
  <2>1. off \in Nat /\ tokens # {}
    <3>1. tokens \subseteq 0..MaxLen
      BY ZenonT(30) DEF UploadInv, Types
    <3> QED
      BY <1>4, <3>1, UploadAssumption
  <2>2. ASSUME NEW chunk \in Content, ResumeBlobUpload(p, "patch", off, chunk, <<>>) PROVE UploadInv'
    BY <1>1, <2>1, <2>2, EmptyContent, ResumeOK DEF Kinds
  <2>3. ASSUME NEW chunk \in Content, NEW dgst \in Content, ResumeBlobUpload(p, "put", off, chunk, dgst)
        PROVE  UploadInv'
    BY <1>1, <2>1, <2>3, ResumeOK DEF Kinds
  <2>4. ASSUME use.cancel, ResumeBlobUpload(p, "delete", off, <<>>, <<>>) PROVE UploadInv'
    BY <1>1, <2>1, <2>4, EmptyContent, ResumeOK DEF Kinds
  <2> QED
    BY <1>4, <2>2, <2>3, <2>4
<1>5. (IF use.intended = None THEN Content ELSE {use.intended}) \subseteq Content
  BY UploadAssumption DEF UploadInv, Types
<1> QED
  BY <1>2, <1>3, <1>4, <1>5, ZenonT(30) DEF NewRequest

\* A step of a request keeps the invariant.
LEMMA RequestStepOK ==
    ASSUME UploadInv, NEW p \in Proc, RequestStep(p), UNCHANGED use
    PROVE  UploadInv'
<1>1. CASE Open(p)
  BY <1>1, OpenOK
<1>2. CASE \E n \in 0..MaxLen : Write(p, n)
  BY <1>2, WriteOK
<1>3. CASE Refuse(p)
  <2>1. GotoStep(p, "write", "store")
    BY <1>3 DEF Refuse, GotoStep, Goto, uploadVars
  <2> QED
    BY <2>1, GotoStepOK
<1>4. CASE FlushEarly(p) \/ CloseFlush(p) \/ CommitFlush(p)
  BY <1>4, FlushSteps, FlushStepOK
<1>5. CASE CloseStore(p)
  <2>1. StoreStep(p, "store", "flush")
    BY <1>5 DEF CloseStore, StoreStep, Goto
  <2> QED
    BY <2>1, StoreHashStep
<1>6. CASE CloseAgain(p)
  BY <1>6, CloseAgainOK
<1>7. CASE CommitStore(p)
  <2>1. StoreStep(p, "commit.store", "validate")
    BY <1>7 DEF CommitStore, StoreStep, Goto
  <2> QED
    BY <2>1, StoreHashStep
<1>8. CASE Validate(p)
  BY <1>8, ValidateOK
<1>9. CASE MoveStat(p)
  <2>1. GotoStep(p, "move.stat", "link") \/ GotoStep(p, "move.stat", "move")
    BY <1>9, ZenonT(30) DEF MoveStat, GotoStep, Goto, uploadVars
  <2> QED
    BY <2>1, GotoStepOK
<1>10. CASE Move(p)
  BY <1>10, MoveOK
<1>11. CASE Link(p)
  <2>1. GotoStep(p, "link", "remove")
    BY <1>11 DEF Link, GotoStep, Goto, uploadVars
  <2> QED
    BY <2>1, GotoStepOK
<1>12. CASE RemoveResources(p)
  <2>1. DeleteStep(p, "idle")
    BY <1>12 DEF RemoveResources, DeleteStep, Goto
  <2> QED
    BY <2>1, DeleteStepOK
<1>13. CASE CancelFile(p)
  BY <1>13, CancelFileOK
<1>14. CASE CancelStore(p)
  <2>1. StoreStep(p, "cancel.store", "cancel.remove")
    BY <1>14 DEF CancelStore, StoreStep, Goto
  <2> QED
    BY <2>1, StoreHashStep
<1>15. CASE CancelRemove(p)
  <2>1. DeleteStep(p, "store")
    BY <1>15 DEF CancelRemove, DeleteStep, Goto
  <2> QED
    BY <2>1, DeleteStepOK
<1> QED
  BY <1>1, <1>2, <1>3, <1>4, <1>5, <1>6, <1>7, <1>8, <1>9, <1>10, <1>11, <1>12, <1>13, <1>14, <1>15
     DEF RequestStep

\* Every step keeps the invariant.
LEMMA UploadInvNext == UploadInv /\ [Next]_vars => UploadInv'
<1> SUFFICES ASSUME UploadInv, [Next]_vars PROVE UploadInv'
  OBVIOUS
<1>1. ASSUME NEW p \in Proc, NewRequest(p), UNCHANGED use PROVE UploadInv'
  BY <1>1, NewRequestOK
<1>2. ASSUME NEW p \in Proc, RequestStep(p), UNCHANGED use PROVE UploadInv'
  BY <1>2, RequestStepOK
<1>3. CASE PurgeUploads /\ UNCHANGED use
  BY <1>3, PurgeOK
<1>4. CASE Crash /\ UNCHANGED use
  BY <1>4, CrashOK
<1>5. CASE UNCHANGED vars
  <2>1. UNCHANGED <<use, created, started, file, hashStates, tokens, data, pc, w>>
    BY <1>5 DEF vars
  <2>2. Types' /\ StatesOK' /\ OrderOK'
    <3>1. Types'
      BY <2>1 DEF UploadInv, Types
    <3>2. StatesOK'
      BY <2>1 DEF UploadInv, StatesOK
    <3>3. OrderOK'
      BY <2>1, ZenonT(30) DEF UploadInv, OrderOK
    <3>4. QED
      BY <3>1, <3>2, <3>3
  <2>3. AckedOK'
    BY <2>1, ZenonT(30) DEF UploadInv, AckedOK, AckUse, OneAtATime, NoData, Solo
  <2>4. SerialOK'
    <3>1. ContentMatchesDigest => ContentMatchesDigest'
      BY <2>1, ZenonT(30) DEF ContentMatchesDigest
    <3>2. (OneAtATime <=> OneAtATime') /\ \A p \in Proc : Alone(p)' => Alone(p)
      BY <2>1 DEF OneAtATime, Alone
    <3>3. ASSUME NEW p \in Proc, Solo(pc[p], w[p]) PROVE Solo(pc[p], w[p])'
      BY <2>1, <3>3, ZenonT(30) DEF Solo
    <3>4. QED
      BY <3>1, <3>2, <3>3, ZenonT(30) DEF UploadInv, SerialOK
  <2>5. QED
    BY <2>1, <2>2, <2>3, <2>4, ZenonT(30) DEF UploadInv
<1> QED
  BY <1>1, <1>2, <1>3, <1>4, <1>5 DEF Next

\* The invariant holds in every state of a session.
LEMMA UploadInvAlways == Spec => []UploadInv
BY UploadInvInit, UploadInvNext, PTL DEF Spec
-----------------------------------------------------------------------------
(***************************************************************************)
(* An offset the client was told is on disk until the upload is moved or   *)
(* dropped, whatever requests overlap and wherever the server dies.  Where *)
(* clients cancel uploads it takes requests one at a time and no crash: a  *)
(* request that overlaps with Cancel may recreate the data file, empty.    *)
(***************************************************************************)
THEOREM UploadAcked ==
    ASSUME \A u \in Uses : ~u.cancel \/ (u.serial /\ ~u.crash)
    PROVE  Spec => []AckedPersisted
<1>1. UploadInv => AckedPersisted
  <2> SUFFICES ASSUME UploadInv, started, file # None, \A d \in Content : data[d] = None
               PROVE  \A off \in tokens : off <= Len(file)
    BY DEF AckedPersisted
  <2>1. AckUse
    BY DEF UploadInv, Types, AckUse, OneAtATime
  <2> QED
    BY <2>1 DEF UploadInv, AckedOK, NoData
<1> QED
  BY <1>1, UploadInvAlways, PTL

(***************************************************************************)
(* When requests come one at a time and the server does not crash, the     *)
(* hash state that storeHashState saved under the size of the file is the  *)
(* hash of the file.                                                       *)
(***************************************************************************)
THEOREM UploadHashStates == Spec => []HashStateFits
<1>1. UploadInv => HashStateFits
  <2> SUFFICES ASSUME UploadInv, use.serial, ~use.crash, \A p \in Proc : pc[p] = "idle",
                      file \notin {None, <<>>}
               PROVE  hashStates[Len(file)] \in {file, None}
    BY DEF HashStateFits
  <2>1. PICK p \in Proc : TRUE
    BY UploadAssumption
  <2>2. Solo(pc[p], w[p]) /\ w[p] = NoWriter
    BY ZenonT(30) DEF UploadInv, SerialOK, OneAtATime, Alone, WriterOK
  <2>3. HashFits(hashStates, file \o <<>>)
    BY <2>2, NoWriterIs DEF Solo
  <2>4. file \in Content /\ Len(file) \in 0..MaxLen /\ file \o <<>> = file
    BY EmptyContent, ContentLen, ContentCat, ZenonT(30) DEF UploadInv, Types
  <2> QED
    BY <2>3, <2>4 DEF HashFits
<1> QED
  BY <1>1, UploadInvAlways, PTL

(***************************************************************************)
(* When requests come one at a time and the server does not crash, what    *)
(* Commit puts under a digest in the blob store has this digest, although  *)
(* validateBlob mostly trusts the digester and does not read the file.     *)
(***************************************************************************)
THEOREM UploadVerified ==
    ASSUME \A u \in Uses : u.serial /\ ~u.crash
    PROVE  Spec => []ContentMatchesDigest
<1>1. UploadInv => ContentMatchesDigest
  BY DEF UploadInv, Types, SerialOK, OneAtATime
<1> QED
  BY <1>1, UploadInvAlways, PTL
=============================================================================
