------------------------- MODULE UploadFile_proofs -------------------------
(***************************************************************************)
(* Proofs about UploadFile, for any files, data, size bound and number of  *)
(* streams: types, the record that stays usable, and the two directions of *)
(* the answer to a 04 (OK means stored, stored means OK).                  *)
(***************************************************************************)
EXTENDS UploadFile, SequenceTheorems, TLAPS

\* stdio keeps at most one write, and an open stream's file exists.
StreamInv ==
    \A s \in Streams :
        /\ streams[s].pending = {} \/ \E w \in Writes : streams[s].pending = {w}
        /\ streams[s].name # Null => disk[streams[s].name] \in Contents

\* The record: a live name goes with a handle, and the session's file is the
\* record's file, as l_upload_current belongs to whoever opened last.
RecordInv ==
    /\ CurrentUsable
    /\ cur.live /\ cur.path # Null => cur.handle # Null
    /\ client.name # Null => client.name = cur.path

Typed == TypeOK /\ StreamInv /\ RecordInv

\* Without an I/O error, what the client was told is what a flush leaves.
Faithful ==
    client.name # Null /\ ~client.lost /\ cur.handle # Null
        => Flushed(cur.handle)[cur.path] = client.sent

Write(w) == WriteTaken(w) \/ WriteFails(w)

\* What a 04 leaves, whose fclose did flush or not and whose check saw `seen'.
Checked(md5, flush, seen) ==
    /\ disk' = AfterClose(flush)
    /\ reply' = [done |-> TRUE, md5 |-> md5, ok |-> Matches(seen, md5),
                 whole |-> seen = Closing(flush)]
    /\ client' = [client EXCEPT !.lost = @ \/ ~flush \/ seen # Closing(flush)]

-----------------------------------------------------------------------------
(* Files.                                                                  *)

\* A write at a block within the bound leaves a file within the bound.
LEMMA PutContents ==
    ASSUME NEW c \in Contents, NEW w \in Writes
    PROVE  Put(c, w.at, w.byte) \in Contents
<1> PICK n \in 0 .. Size : c \in [1 .. n -> Bytes \union {Hole}]
  BY DEF Contents
<1>1. w.at \in 1 .. Size /\ w.byte \in Bytes
  BY DEF Writes, Blocks
<1>2. Size \in Nat
  BY UploadAssumption
<1>3. n \in Nat
  BY <1>2
<1>4. Len(c) = n
  <2>1. c \in Seq(Bytes \union {Hole})
    BY <1>3, SeqDef
  <2>2. Len(c) \in Nat /\ DOMAIN c = 1 .. Len(c)
    BY <2>1, LenProperties
  <2>3. DOMAIN c = 1 .. n
    OBVIOUS
  <2> QED
    BY <2>2, <2>3, <1>3
<1> DEFINE m == IF w.at > n THEN w.at ELSE n
<1>5. m \in 0 .. Size
  BY <1>1, <1>2, <1>3
<1>6. Put(c, w.at, w.byte) \in [1 .. m -> Bytes \union {Hole}]
  <2>1. ASSUME NEW i \in 1 .. m, i # w.at, i <= n PROVE c[i] \in Bytes \union {Hole}
    BY <2>1, <1>3, <1>5
  <2> QED
    BY <2>1, <1>1, <1>4 DEF Put
<1> QED
  BY <1>5, <1>6 DEF Contents

\* A file is a sequence of at most Size blocks.
LEMMA ContentsLen ==
    ASSUME NEW c \in Contents
    PROVE  c \in Seq(Bytes \union {Hole}) /\ Len(c) \in 0 .. Size
<1> PICK n \in 0 .. Size : c \in [1 .. n -> Bytes \union {Hole}]
  BY DEF Contents
<1>1. n \in Nat
  BY UploadAssumption
<1>2. c \in Seq(Bytes \union {Hole})
  BY <1>1, SeqDef
<1>3. Len(c) = n
  <2>1. Len(c) \in Nat /\ DOMAIN c = 1 .. Len(c)
    BY <1>2, LenProperties
  <2>2. DOMAIN c = 1 .. n
    OBVIOUS
  <2> QED
    BY <1>1, <2>1, <2>2
<1> QED
  BY <1>2, <1>3

\* The empty file.
LEMMA EmptyContents == <<>> \in Contents
<1>1. <<>> \in [1 .. 0 -> Bytes \union {Hole}]
  OBVIOUS
<1>2. 0 \in 0 .. Size
  BY UploadAssumption
<1> QED
  BY <1>1, <1>2 DEF Contents

\* Flushing an open stream changes its own file, by at most the write pending.
LEMMA FlushedFile ==
    ASSUME Typed, NEW s \in Streams, streams[s].name # Null
    PROVE  /\ Flushed(s) \in [Names -> Contents \union {Null}]
           /\ Flushed(s)[streams[s].name] \in Contents
           /\ \A n \in Names : n # streams[s].name => Flushed(s)[n] = disk[n]
           /\ streams[s].pending = {} => Flushed(s) = disk
           /\ \A w \in Writes : streams[s].pending = {w} =>
                Flushed(s)[streams[s].name]
                  = Put(disk[streams[s].name], w.at, w.byte)
<1> DEFINE f == streams[s]
<1>1. f.name \in Names /\ disk[f.name] \in Contents
  BY DEF Typed, TypeOK, StreamInv
<1>2. CASE f.pending = {}
  BY <1>1, <1>2 DEF Flushed, Typed, TypeOK
<1>3. ASSUME NEW w \in Writes, f.pending = {w}
      PROVE  Flushed(s) = [disk EXCEPT ![f.name] = Put(@, w.at, w.byte)]
  <2>1. (CHOOSE v \in f.pending : TRUE) = w
    BY <1>3
  <2> QED
    BY <1>3, <2>1 DEF Flushed
<1>4. ASSUME NEW w \in Writes, f.pending = {w}
      PROVE  Put(disk[f.name], w.at, w.byte) \in Contents
  BY <1>1, PutContents
<1>5. disk \in [Names -> Contents \union {Null}]
  BY DEF Typed, TypeOK
<1>6. f.pending = {} \/ \E w \in Writes : f.pending = {w}
  BY DEF Typed, StreamInv
<1>7. ASSUME NEW w \in Writes, f.pending = {w}
      PROVE  /\ Flushed(s) \in [Names -> Contents \union {Null}]
             /\ Flushed(s)[f.name] \in Contents
             /\ \A n \in Names : n # f.name => Flushed(s)[n] = disk[n]
             /\ Flushed(s)[f.name] = Put(disk[f.name], w.at, w.byte)
  BY <1>1, <1>3, <1>4, <1>5, <1>7
<1>8. \A w, v : f.pending = {w} /\ f.pending = {v} => w = v
  OBVIOUS
<1> QED
  BY <1>2, <1>6, <1>7

-----------------------------------------------------------------------------
(* Types and the record.                                                   *)

\* The stream of the record is open, on the record's file.
LEMMA CurrentStream ==
    ASSUME Typed, cur.handle # Null
    PROVE  /\ cur.handle \in Streams
           /\ streams[cur.handle].name = cur.path
           /\ streams[cur.handle].name # Null
           /\ cur.path \in Names /\ cur.live
  BY DEF Typed, TypeOK, RecordInv, CurrentUsable

\* The records used for nothing open and nobody there have their types.
LEMMA ConstantsTyped ==
    /\ Nobody \in [name : Names \union {Null}, sent : Contents, lost : BOOLEAN]
    /\ NoReply \in [done : BOOLEAN, ok : BOOLEAN, whole : BOOLEAN, md5 : Contents]
    /\ Closed \in [name : Names \union {Null}, pending : SUBSET Writes]
  BY EmptyContents DEF Nobody, NoReply, Closed

\* Nothing is open at the start.
LEMMA InitTyped == Init => Typed
<1> SUFFICES ASSUME Init PROVE Typed
  OBVIOUS
<1>1. TypeOK
  BY ConstantsTyped DEF Init, TypeOK
<1>2. StreamInv
  BY DEF Init, StreamInv, Closed
<1>3. RecordInv
  BY DEF Init, RecordInv, CurrentUsable, Nobody
<1> QED
  BY <1>1, <1>2, <1>3 DEF Typed

\* Opening takes an unused stream and empties the file.
LEMMA OpenTyped == ASSUME Typed, NEW n \in Names, Open(n) PROVE Typed'
<1> PICK s \in Unused :
        /\ streams' = [streams EXCEPT ![s] = [name |-> n, pending |-> {}]]
        /\ cur' = [path |-> n, live |-> TRUE, handle |-> s]
  BY DEF Open
<1>1. s \in Streams
  BY DEF Unused
<1>2. /\ disk' = [disk EXCEPT ![n] = <<>>]
      /\ client' = [name |-> n, sent |-> <<>>, lost |-> FALSE]
      /\ reply' = NoReply /\ undefined' = undefined
  BY DEF Open
<1>3. n # Null /\ s # Null
  BY <1>1, UploadAssumption
<1>4. TypeOK'
  BY <1>1, <1>2, EmptyContents DEF Typed, TypeOK, NoReply
<1>5. StreamInv'
  BY <1>1, <1>2, EmptyContents DEF Typed, TypeOK, StreamInv
<1>6. RecordInv'
  BY <1>1, <1>2, <1>3 DEF RecordInv, CurrentUsable, Typed, TypeOK
<1> QED
  BY <1>4, <1>5, <1>6 DEF Typed

\* Only what is pending in the record's stream changes.
LEMMA PendingTyped ==
    ASSUME Typed, cur.handle # Null, UNCHANGED <<cur, undefined>>,
           NEW left \in SUBSET Writes,
           left = {} \/ \E w \in Writes : left = {w},
           streams' = [streams EXCEPT ![cur.handle].pending = left],
           disk' \in {disk, Flushed(cur.handle)},
           client' \in [name : {client.name}, sent : Contents, lost : BOOLEAN],
           reply' = NoReply
    PROVE  Typed'
<1> DEFINE h == cur.handle
<1>1. h \in Streams /\ streams[h].name = cur.path /\ cur.path \in Names
  BY CurrentStream
<1>2. /\ disk' \in [Names -> Contents \union {Null}]
      /\ \A n \in Names : disk[n] \in Contents => disk'[n] \in Contents
  BY CurrentStream, FlushedFile, <1>1 DEF Typed, TypeOK
<1>3. /\ \A s \in Streams : streams'[s].name = streams[s].name
      /\ \A s \in Streams : s # h => streams'[s] = streams[s]
      /\ streams'[h].pending = left
      /\ streams' \in [Streams -> [name : Names \union {Null},
                                   pending : SUBSET Writes]]
  BY <1>1 DEF Typed, TypeOK
<1>4. client'.name = client.name
  OBVIOUS
<1>5. TypeOK'
  BY <1>2, <1>3, EmptyContents DEF Typed, TypeOK, NoReply
<1>6. StreamInv'
  BY <1>2, <1>3 DEF Typed, TypeOK, StreamInv
<1>7. RecordInv'
  BY <1>1, <1>3, <1>4 DEF Typed, RecordInv, CurrentUsable
<1> QED
  BY <1>5, <1>6, <1>7 DEF Typed

\* A 03 flushes the stream of the record and may leave its own write pending.
LEMMA WriteTyped == ASSUME Typed, NEW w \in Writes, Write(w) PROVE Typed'
<1>1. /\ cur.handle # Null /\ UNCHANGED <<cur, undefined>>
      /\ disk' = Flushed(cur.handle) /\ reply' = NoReply
  BY DEF Write, WriteTaken, WriteFails
<1>2. Put(client.sent, w.at, w.byte) \in Contents
  BY PutContents DEF Typed, TypeOK
<1>3. client' \in [name : {client.name}, sent : Contents, lost : BOOLEAN]
  BY <1>2 DEF Write, WriteTaken, WriteFails, Typed, TypeOK
<1>4. \E left \in {{}, {w}} :
         streams' = [streams EXCEPT ![cur.handle].pending = left]
  BY DEF Write, WriteTaken, WriteFails
<1> QED
  BY <1>1, <1>3, <1>4, PendingTyped, ZenonT(40)

\* A 03 that fails in fseek keeps or loses the write pending.
LEMMA SeekFailsTyped == ASSUME Typed, SeekFails PROVE Typed'
<1>1. cur.handle # Null /\ UNCHANGED <<cur, undefined, disk>> /\ reply' = NoReply
  BY DEF SeekFails
<1>2. client' \in [name : {client.name}, sent : Contents, lost : BOOLEAN]
  BY DEF SeekFails, Typed, TypeOK
<1>3. PICK left \in {{}, streams[cur.handle].pending} :
         streams' = [streams EXCEPT ![cur.handle].pending = left]
  BY DEF SeekFails
<1>4. left \in SUBSET Writes /\ (left = {} \/ \E w \in Writes : left = {w})
  BY <1>1, <1>3, CurrentStream DEF Typed, StreamInv
<1> QED
  BY <1>1, <1>2, <1>3, <1>4, PendingTyped

\* A 04 closes the stream of the record and forgets its handle.
LEMMA FinishTyped == ASSUME Typed, NEW md5 \in Contents, Finish(md5) PROVE Typed'
<1> DEFINE h == cur.handle
<1> PICK flush \in BOOLEAN : \E seen \in Seen(Closing(flush)) :
                               Checked(md5, flush, seen)
  BY DEF Finish, Checked
<1> PICK seen \in Seen(Closing(flush)) : Checked(md5, flush, seen)
  OBVIOUS
<1> USE DEF Checked
<1>1. cur' = [cur EXCEPT !.live = FALSE, !.handle = Null] /\ undefined' = undefined
  BY DEF Finish, Cleared
<1>2. /\ disk' \in [Names -> Contents \union {Null}]
      /\ \A n \in Names : disk[n] \in Contents => disk'[n] \in Contents
  <2>1. CASE h = Null \/ ~flush
    BY <2>1 DEF AfterClose, Typed, TypeOK
  <2>2. CASE h # Null /\ flush
    BY <2>2, CurrentStream, FlushedFile DEF AfterClose, Typed, TypeOK
  <2> QED
    BY <2>1, <2>2
<1>3. /\ streams' \in [Streams -> [name : Names \union {Null},
                                   pending : SUBSET Writes]]
      /\ \A s \in Streams : streams'[s] \in {streams[s], Closed}
  <2>1. CASE h = Null
    BY <2>1 DEF Finish, StreamsAfterClose, Typed, TypeOK
  <2>2. CASE h # Null
    BY <2>2, CurrentStream DEF Finish, StreamsAfterClose, Typed, TypeOK, Closed
  <2> QED
    BY <2>1, <2>2
<1>4. TypeOK'
  <2>1. reply' \in [done : BOOLEAN, ok : BOOLEAN, whole : BOOLEAN, md5 : Contents]
    BY DEF Matches
  <2> QED
    BY <1>1, <1>2, <1>3, <2>1 DEF Typed, TypeOK
<1>5. StreamInv'
  BY <1>2, <1>3 DEF Typed, TypeOK, StreamInv, Closed
<1>6. RecordInv'
  BY <1>1 DEF Typed, TypeOK, RecordInv, CurrentUsable
<1> QED
  BY <1>4, <1>5, <1>6 DEF Typed

\* The other commands leave files and streams alone.
LEMMA RestTyped ==
    ASSUME Typed,
           OpenFails \/ WriteNowhere \/ FinishAgain \/ SessionEnds \/ UNCHANGED vars
    PROVE  Typed'
<1>1. UNCHANGED <<disk, streams, cur>>
  BY DEF OpenFails, WriteNowhere, FinishAgain, SessionEnds, vars
<1>2. /\ client' \in {client, Nobody} /\ reply' \in {reply, NoReply}
      /\ undefined' \in {undefined, TRUE}
  BY DEF OpenFails, WriteNowhere, FinishAgain, SessionEnds, vars
<1>3. TypeOK'
  BY <1>1, <1>2, ConstantsTyped DEF Typed, TypeOK
<1>4. StreamInv' /\ RecordInv'
  BY <1>1, <1>2 DEF Typed, StreamInv, RecordInv, CurrentUsable, Nobody
<1> QED
  BY <1>3, <1>4 DEF Typed

\* Every command keeps types, streams and record.
LEMMA TypedStep == Typed /\ [Next]_vars => Typed'
  BY OpenTyped, WriteTyped, SeekFailsTyped, FinishTyped, RestTyped DEF Next, Write

\* Types, streams and the record, in every reachable state.
THEOREM Typing == Spec => []Typed
  BY InitTyped, TypedStep, PTL DEF Spec

\* Every variable keeps its type: files stay within the size bound.
THEOREM TypeCorrect == Spec => []TypeOK
<1>1. Typed => TypeOK
  BY DEF Typed
<1> QED
  BY <1>1, Typing, PTL

\* While an upload is open, l_upload_current leads to the open stream of its own
\* file, whatever sessions before left in it.
THEOREM RecordUsable == Spec => []CurrentUsable
<1>1. Typed => CurrentUsable
  BY DEF Typed, RecordInv
<1> QED
  BY <1>1, Typing, PTL

-----------------------------------------------------------------------------
(* What the answer to a 04 says.                                           *)

\* The check is made on what fclose left, and nothing is written between the
\* answer and the next command.
LEMMA OkStored ==
    ASSUME Typed, OkMeansStored, [Next]_vars
    PROVE  OkMeansStored'
<1>1. CASE UNCHANGED vars \/ FinishAgain
  BY <1>1 DEF vars, FinishAgain, OkMeansStored
<1>2. ASSUME NEW md5 \in Contents, Finish(md5) PROVE OkMeansStored'
  <2> PICK flush \in BOOLEAN : \E seen \in Seen(Closing(flush)) :
                                 Checked(md5, flush, seen)
    BY <1>2 DEF Finish, Checked
  <2> PICK seen \in Seen(Closing(flush)) : Checked(md5, flush, seen)
    OBVIOUS
  <2> USE DEF Checked
  <2>1. cur'.path = cur.path
    BY <1>2 DEF Finish, Cleared
  <2> SUFFICES ASSUME seen # Null, seen = md5 PROVE OkMeansStored'
    BY DEF OkMeansStored, Matches
  <2> DEFINE c == disk'[cur.path]
  <2>2. cur.path # Null /\ Closing(flush) = c /\ c # Null
    BY DEF Seen, Closing
  <2>3. PICK n \in 0 .. Len(c) : seen \in {c, SubSeq(c, 1, n)}
    <3>1. CASE seen = c
      <4>1. Typed'
        BY <1>2, FinishTyped
      <4>2. c \in Contents
        BY <2>1, <2>2, <4>1 DEF Typed, TypeOK
      <4>3. 0 \in 0 .. Len(c)
        BY <4>2, ContentsLen
      <4> QED
        BY <3>1, <4>3
    <3>2. CASE seen # c
      BY <2>2, <3>2 DEF Seen
    <3> QED
      BY <3>1, <3>2
  <2> QED
    BY <2>1, <2>2, <2>3 DEF OkMeansStored
<1>3. CASE reply' = NoReply
  BY <1>3 DEF OkMeansStored, NoReply
<1> QED
  BY <1>1, <1>2, <1>3 DEF Next, Open, OpenFails, WriteNowhere, Write,
     WriteTaken, WriteFails,
     SeekFails, SessionEnds

\* An upload answered with OK is on the disk as the client meant it.
THEOREM AnswerSound == Spec => []OkMeansStored
<1>1. Init => OkMeansStored
  BY DEF Init, OkMeansStored, NoReply
<1> QED
  BY <1>1, OkStored, Typing, PTL DEF Spec

\* What the client was told stays what a flush leaves: a write flushes the one
\* before it and takes its place.
LEMMA FaithfulStep ==
    ASSUME Typed, Faithful, [Next]_vars
    PROVE  Faithful'
<1>1. ASSUME NEW n \in Names, Open(n) PROVE Faithful'
  <2> PICK s \in Unused :
        /\ streams' = [streams EXCEPT ![s] = [name |-> n, pending |-> {}]]
        /\ cur' = [path |-> n, live |-> TRUE, handle |-> s]
    BY <1>1 DEF Open
  <2>1. s \in Streams /\ disk' = [disk EXCEPT ![n] = <<>>] /\ client'.sent = <<>>
    BY <1>1 DEF Open, Unused
  <2>2. streams'[s].pending = {} /\ disk'[n] = <<>>
    BY <2>1 DEF Typed, TypeOK
  <2>3. Flushed(s)' = disk'
    BY <2>2 DEF Flushed
  <2> QED
    BY <2>1, <2>2, <2>3 DEF Faithful
<1>2. ASSUME NEW w \in Writes, Write(w) PROVE Faithful'
  <2> DEFINE h == cur.handle
  <2>1. /\ h # Null /\ cur' = cur /\ disk' = Flushed(h)
        /\ client'.name = client.name
    BY <1>2 DEF Write, WriteTaken, WriteFails, Typed, TypeOK
  <2>2. h \in Streams /\ streams[h].name = cur.path /\ cur.path \in Names
    BY <2>1, CurrentStream
  <2>3. CASE client'.lost
    BY <2>3 DEF Faithful
  <2>4. CASE ~client'.lost
    <3>1. /\ streams' = [streams EXCEPT ![h].pending = {w}]
          /\ client' = [client EXCEPT !.sent = Put(client.sent, w.at, w.byte)]
      BY <1>2, <2>4 DEF Write, WriteTaken, WriteFails, Typed, TypeOK
    <3>2. /\ streams'[h].pending = {w} /\ streams'[h].name = cur.path
          /\ client'.sent = Put(client.sent, w.at, w.byte)
          /\ client'.lost = client.lost
      BY <2>2, <3>1 DEF Typed, TypeOK
    <3>3. Typed'
      BY <1>2, WriteTyped
    <3>4. Flushed(h)'[cur.path] = Put(disk'[cur.path], w.at, w.byte)
      <4>1. h \in Streams' /\ streams'[h].name # Null
        BY <2>1, <2>2, <3>2, CurrentStream
      <4>2. (CHOOSE v \in streams'[h].pending : TRUE) = w
        BY <3>2
      <4>3. disk' \in [Names -> Contents \union {Null}]
        BY <3>3 DEF Typed, TypeOK
      <4>4. Flushed(h)' = [disk' EXCEPT ![cur.path] = Put(@, w.at, w.byte)]
        BY <3>2, <4>2, <2>1 DEF Flushed
      <4> QED
        BY <4>3, <4>4, <2>2
    <3>5. client.name # Null /\ ~client.lost => disk'[cur.path] = client.sent
      BY <2>1 DEF Faithful
    <3> QED
      BY <2>1, <2>4, <3>2, <3>4, <3>5 DEF Faithful
  <2> QED
    BY <2>3, <2>4
<1>3. CASE SeekFails
  BY <1>3 DEF SeekFails, Faithful, Typed, TypeOK
<1>4. ASSUME NEW md5 \in Contents, Finish(md5) PROVE Faithful'
  BY <1>4 DEF Finish, Cleared, Faithful, Typed, TypeOK
<1>5. CASE OpenFails \/ SessionEnds
  BY <1>5 DEF OpenFails, SessionEnds, Nobody, Faithful
<1>6. CASE WriteNowhere \/ FinishAgain \/ UNCHANGED vars
  BY <1>6 DEF WriteNowhere, FinishAgain, vars, Faithful, Flushed
<1> QED
  BY <1>1, <1>2, <1>3, <1>4, <1>5, <1>6 DEF Next, Write

\* The answer to a 04 whose MD5 is that of the acknowledged data, without an I/O
\* error, is OK.
LEMMA AnswerComplete ==
    ASSUME Typed, Faithful, NEW md5 \in Contents, Finish(md5)
    PROVE  StoredMeansOk'
<1> PICK flush \in BOOLEAN : \E seen \in Seen(Closing(flush)) :
                               Checked(md5, flush, seen)
  BY DEF Finish, Checked
<1> PICK seen \in Seen(Closing(flush)) : Checked(md5, flush, seen)
  OBVIOUS
<1> USE DEF Checked
<1>1. /\ client'.name = client.name /\ client'.sent = client.sent
      /\ ~client'.lost => ~client.lost /\ flush /\ seen = Closing(flush)
  BY DEF Typed, TypeOK
<1>2. ASSUME client.name # Null, ~client'.lost, md5 = client.sent
      PROVE  reply'.ok
  <2>1. cur.path # Null /\ cur.live
    BY <1>2 DEF Typed, RecordInv, Finish, Dangling
  <2>2. cur.handle # Null
    BY <2>1 DEF Typed, RecordInv
  <2>3. AfterClose(flush)[cur.path] = client.sent
    BY <1>1, <1>2, <2>2 DEF AfterClose, Faithful
  <2>4. client.sent # Null
    BY NullAssumption DEF Typed, TypeOK
  <2> QED
    BY <1>1, <1>2, <2>1, <2>3, <2>4 DEF Matches, Closing
<1> QED
  BY <1>1, <1>2 DEF StoredMeansOk

\* No command but a 04 leaves an answer to a 04.
LEMMA OkFair ==
    ASSUME Typed, Faithful, StoredMeansOk, [Next]_vars
    PROVE  StoredMeansOk'
<1>1. CASE UNCHANGED vars \/ FinishAgain
  BY <1>1 DEF vars, FinishAgain, StoredMeansOk
<1>2. CASE reply' = NoReply
  BY <1>2 DEF StoredMeansOk, NoReply
<1> QED
  BY <1>1, <1>2, AnswerComplete DEF Next, Open, OpenFails, WriteNowhere,
     Write, WriteTaken, WriteFails, SeekFails, SessionEnds

\* An upload of its own that met no I/O error, and whose MD5 is that of the data
\* it was told was written, is answered with OK.
THEOREM AnswerFair == Spec => []StoredMeansOk
<1>1. Init => Faithful /\ StoredMeansOk
  BY DEF Init, Faithful, StoredMeansOk, Nobody, NoReply
<1> QED
  BY <1>1, FaithfulStep, OkFair, Typing, PTL DEF Spec
=============================================================================
