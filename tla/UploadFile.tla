----------------------------- MODULE UploadFile -----------------------------
(***************************************************************************)
(* The upload of one file: file_manager/file_manager.c over the single     *)
(* l_upload_current of file_manager/upload_file.c, driven by the E2        *)
(* commands 02 (name), 03 (data) and 04 (done, with an MD5) of             *)
(* protocol_adapter.c.                                                     *)
(*                                                                         *)
(* Commands of one session run one after the other, so a command is one    *)
(* step.  Sessions follow each other, and l_upload_current outlives them.  *)
(* stdio keeps the last write in its buffer until the next fseek or        *)
(* fclose, either of which may fail to flush it.  An MD5 is modelled as    *)
(* the content it was made from.                                           *)
(***************************************************************************)
EXTENDS Naturals, Sequences

CONSTANTS Names,     \* file names
          Bytes,     \* what a block of data may be
          Hole,      \* a block that was skipped and never written
          Size,      \* bound: blocks in a file
          Streams,   \* FILE objects the process may have open
          Null

ASSUME UploadAssumption ==
    /\ Size \in Nat \ {0}
    /\ Null \notin Names \union Streams
    /\ Hole \notin Bytes

Blocks == 1 .. Size
Contents == UNION {[1 .. n -> Bytes \union {Hole}] : n \in 0 .. Size}

ASSUME NullAssumption == Null \notin Contents

Writes == [at : Blocks, byte : Bytes]

Closed  == [name |-> Null, pending |-> {}]
Nobody  == [name |-> Null, sent |-> <<>>, lost |-> FALSE]
NoReply == [done |-> FALSE, ok |-> FALSE, whole |-> FALSE, md5 |-> <<>>]

VARIABLES disk,      \* disk[n]: content of the file n, Null when there is none
          streams,   \* streams[s]: the file, and the write in stdio's buffer
          cur,       \* l_upload_current; path is filename_tx, live: not freed
          client,    \* the session: the file it opened, what was acknowledged
                     \* since, whether an I/O error hit it
          reply,     \* the answer to a 04 just sent; whole: made from all of the file
          undefined  \* freed memory has been used

vars == <<disk, streams, cur, client, reply, undefined>>

Init == /\ disk = [n \in Names |-> Null]
        /\ streams = [s \in Streams |-> Closed]
        /\ cur = [path |-> Null, live |-> TRUE, handle |-> Null]
        /\ client = Nobody
        /\ reply = NoReply
        /\ undefined = FALSE

-----------------------------------------------------------------------------
\* Mutant: offsets taken as one block further on.
PutOneFurther(c, at, byte) ==
    [i \in 1 .. (IF at + 1 > Len(c) THEN at + 1 ELSE Len(c)) |->
       IF i = at + 1 THEN byte ELSE IF i <= Len(c) THEN c[i] ELSE Hole]

\* A file after a write at an offset, which may lie beyond its end.
Put(c, at, byte) ==
    [i \in 1 .. (IF at > Len(c) THEN at ELSE Len(c)) |->
       IF i = at THEN byte ELSE IF i <= Len(c) THEN c[i] ELSE Hole]

\* The disk once the buffer of stream s is written out.
Flushed(s) ==
    LET f == streams[s] IN
    IF f.pending = {} THEN disk
    ELSE [disk EXCEPT ![f.name] =
            LET w == CHOOSE w \in f.pending : TRUE IN Put(@, w.at, w.byte)]

Unused == {s \in Streams : streams[s] = Closed}

\* 02, file_upload_open: the stream that was open before is forgotten.
Open(n) ==
    /\ ~undefined
    /\ \E s \in Unused :
         /\ streams' = [streams EXCEPT ![s] = [name |-> n, pending |-> {}]]
         /\ cur' = [path |-> n, live |-> TRUE, handle |-> s]
    /\ disk' = [disk EXCEPT ![n] = <<>>]
    /\ client' = [name |-> n, sent |-> <<>>, lost |-> FALSE]
    /\ reply' = NoReply
    /\ UNCHANGED undefined

\* No directory, no memory, or fopen fails.
OpenFails ==
    /\ ~undefined
    /\ client' = Nobody
    /\ reply' = NoReply
    /\ UNCHANGED <<disk, streams, cur, undefined>>

\* 03 without a stream is answered with an error.
WriteNowhere ==
    /\ ~undefined
    /\ cur.handle = Null
    /\ reply' = NoReply
    /\ UNCHANGED <<disk, streams, cur, client, undefined>>

\* 03, file_upload_write: fseek writes the earlier block out, fwrite takes the
\* new one.
WriteTaken(w) ==
    /\ ~undefined
    /\ cur.handle # Null
    /\ disk' = Flushed(cur.handle)
    /\ streams' = [streams EXCEPT ![cur.handle].pending = {w}]
    /\ client' = [client EXCEPT !.sent = Put(client.sent, w.at, w.byte)]
    /\ reply' = NoReply
    /\ UNCHANGED <<cur, undefined>>

\* 03 whose fwrite takes all or nothing of the block and reports an error.
WriteFails(w) ==
    /\ ~undefined
    /\ cur.handle # Null
    /\ disk' = Flushed(cur.handle)
    /\ \E left \in {{}, {w}} :
         streams' = [streams EXCEPT ![cur.handle].pending = left]
    /\ client' = [client EXCEPT !.lost = TRUE]
    /\ reply' = NoReply
    /\ UNCHANGED <<cur, undefined>>

\* 03 whose fseek cannot write the earlier block, which was acknowledged.
SeekFails ==
    /\ ~undefined
    /\ cur.handle # Null
    /\ streams[cur.handle].pending # {}
    /\ \E left \in {{}, streams[cur.handle].pending} :
         streams' = [streams EXCEPT ![cur.handle].pending = left]
    /\ client' = [client EXCEPT !.lost = TRUE]
    /\ reply' = NoReply
    /\ UNCHANGED <<disk, cur, undefined>>

\* Mutant: fclose comes after the check.
NotClosedYet(flush) == disk

\* The disk after fclose, whose result is not looked at.
AfterClose(flush) ==
    IF flush /\ cur.handle # Null THEN Flushed(cur.handle) ELSE disk

\* What sum() may get to see of a file: an error ends the reading as the end of
\* the file does; Null when there is nothing to open.
Seen(c) == IF c = Null THEN {Null}
           ELSE {c, Null} \union {SubSeq(c, 1, n) : n \in 0 .. Len(c)}

\* Mutant: any file that can be read will do.
AnyFile(seen, md5) == seen # Null

\* check_file_by_md5, where seen is what was read of the file.
Matches(seen, md5) == seen # Null /\ seen = md5

\* Mutant: the handle stays.
ClearKeepsHandle == [cur EXCEPT !.live = FALSE]

\* upload_file_clear: the names are freed, their pointers stay.
Cleared == [cur EXCEPT !.live = FALSE, !.handle = Null]

Dangling == cur.path # Null /\ ~cur.live

\* Mutant: fclose is left out, the handle forgotten.
StreamsNotClosed == streams

StreamsAfterClose ==
    IF cur.handle = Null THEN streams ELSE [streams EXCEPT ![cur.handle] = Closed]

\* The file under the recorded name once the stream is closed.
Closing(flush) == IF cur.path = Null THEN Null ELSE AfterClose(flush)[cur.path]

\* 04, file_upload_single_finish: close, check, clear.  The flush may fail, and
\* so may the reading of the file.
Finish(md5) ==
    /\ ~undefined /\ ~Dangling
    /\ \E flush \in BOOLEAN : \E seen \in Seen(Closing(flush)) :
         /\ disk' = AfterClose(flush)
         /\ reply' = [done |-> TRUE, md5 |-> md5, ok |-> Matches(seen, md5),
                      whole |-> seen = Closing(flush)]
         /\ client' = [client EXCEPT !.lost = @ \/ ~flush \/ seen # Closing(flush)]
    /\ streams' = StreamsAfterClose
    /\ cur' = Cleared
    /\ UNCHANGED undefined

\* 04 again: the name was freed, and is read and freed once more.
FinishAgain ==
    /\ ~undefined /\ Dangling
    /\ undefined' = TRUE
    /\ UNCHANGED <<disk, streams, cur, client, reply>>

\* The connection ends or another one logs in; the upload state stays.
SessionEnds ==
    /\ ~undefined
    /\ client # Nobody
    /\ client' = Nobody
    /\ reply' = NoReply
    /\ UNCHANGED <<disk, streams, cur, undefined>>

Next == \/ \E n \in Names : Open(n)
        \/ OpenFails
        \/ WriteNowhere
        \/ \E w \in Writes : WriteTaken(w) \/ WriteFails(w)
        \/ SeekFails
        \/ \E md5 \in Contents : Finish(md5)
        \/ FinishAgain
        \/ SessionEnds

Spec == Init /\ [][Next]_vars

-----------------------------------------------------------------------------
(* Correctness.                                                            *)

TypeOK ==
    /\ disk \in [Names -> Contents \union {Null}]
    /\ streams \in [Streams -> [name : Names \union {Null},
                                pending : SUBSET Writes]]
    /\ cur \in [path : Names \union {Null}, live : BOOLEAN,
                handle : Streams \union {Null}]
    /\ client \in [name : Names \union {Null},
                   sent : Contents, lost : BOOLEAN]
    /\ reply \in [done : BOOLEAN, ok : BOOLEAN, whole : BOOLEAN, md5 : Contents]
    /\ undefined \in BOOLEAN

\* l_upload_current never leads to a closed stream, to the stream of another
\* file or to a freed name while an upload is open, whatever earlier sessions
\* left in it.
CurrentUsable ==
    cur.handle # Null => /\ cur.path # Null /\ cur.live
                         /\ streams[cur.handle].name = cur.path

\* An upload answered with OK is on the disk as the client meant it: the file
\* opened last has the content of its MD5, or begins with it if an error ended
\* the check early; buffered writes, failed flushes and streams forgotten by
\* earlier sessions notwithstanding.
OkMeansStored ==
    reply.done /\ reply.ok =>
        /\ cur.path # Null /\ disk[cur.path] # Null
        /\ \E n \in 0 .. Len(disk[cur.path]) :
             reply.md5 \in {disk[cur.path], SubSeq(disk[cur.path], 1, n)}
        /\ reply.whole => disk[cur.path] = reply.md5

\* An upload the session opened itself, without an I/O error, whose MD5 is that
\* of the data acknowledged, is not answered with an error.
StoredMeansOk ==
    reply.done /\ client.name # Null /\ ~client.lost /\ reply.md5 = client.sent
      => reply.ok

\* upload_file.c:75, "clear the information on the uploaded file": what was
\* cleared is not used again.
ClearedNotUsed == ~undefined
=============================================================================
