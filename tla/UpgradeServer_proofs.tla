------------------------ MODULE UpgradeServer_proofs ------------------------
(***************************************************************************)
(* Proofs about UpgradeServer, for any files, data, size bound and number  *)
(* of streams: what UploadFile promises under its own commands, it         *)
(* promises under the daemon's, whose process may end and start again; and *)
(* a file that was answered with OK stays as it is.                        *)
(***************************************************************************)
EXTENDS UpgradeServer, UploadFile_proofs

ServerTypes ==
    /\ verified \in [Names -> Contents \union {Null}]
    /\ forgotten \subseteq Streams
    /\ spoiled \subseteq Names

\* A stream is open when it is the record's or was forgotten, and only then.
StreamsKnown ==
    /\ \A s \in Streams : streams[s].name # Null => s \in forgotten \union {cur.handle}
    /\ \A s \in forgotten : streams[s].name # Null /\ s # cur.handle

\* The file being uploaded is not one that was answered with OK.
Unsettled == cur.handle # Null => verified[cur.path] = Null

ServerTyped == Typed /\ ServerTypes /\ StreamsKnown /\ Unsettled

\* A step that is not the end of the process is a command of UploadFile, or
\* leaves its variables alone.
ProcessEnds == Killed \/ Exit

-----------------------------------------------------------------------------
\* The commands do to the files what UploadFile says.
LEMMA CommandSteps ==
    ASSUME [ServerNext]_serverVars
    PROVE  [Next]_vars \/ ProcessEnds
<1>1. CASE \/ Login \/ LoginFails \/ NextBatch \/ Ignored
           \/ BeginCommand \/ EndCommand \/ UploadRefused
           \/ \E t \in Titles : ScriptCommand(t)
           \/ ScriptRefused \/ RebootFails \/ UNCHANGED serverVars
  BY <1>1 DEF Login, LoginFails, NextBatch, Ignored, BeginCommand, EndCommand,
     UploadRefused, ScriptCommand, ScriptRefused, RebootFails, NothingDone,
     serverVars
<1>2. CASE \/ \E n \in Names : OpenCommand(n)
           \/ OpenCommandFails
           \/ \E w \in Writes : WriteCommand(w)
           \/ WriteCommandFails
           \/ \E md5 \in Contents : FinishCommand(md5)
           \/ FinishCommandAgain \/ Disconnect
  BY <1>2 DEF OpenCommand, OpenCommandFails, WriteCommand, WriteCommandFails,
     FinishCommand, FinishCommandAgain, Disconnect, Next
<1> QED
  BY <1>1, <1>2 DEF ServerNext, ProcessEnds

\* What exit() may leave of a file is a file, and the file itself when nothing
\* is pending for it.
LEMMA FlushedByFile ==
    ASSUME Typed, NEW n \in Names
    PROVE  /\ FlushedBy(n) \subseteq Contents \union {disk[n]}
           /\ Pending(n) = {} => FlushedBy(n) = {disk[n]}
           /\ disk[n] = Null => FlushedBy(n) = {disk[n]}
<1>1. disk[n] = Null => Pending(n) = {}
  <2>1. ASSUME disk[n] = Null, NEW s \in Streams PROVE streams[s].name # n
    BY <2>1, NullAssumption, UploadAssumption DEF Typed, StreamInv
  <2> QED
    BY <2>1 DEF Pending
<1> QED
  BY <1>1 DEF FlushedBy

\* The next process starts with the files the last one left.
LEMMA EndTyped ==
    ASSUME Typed, ProcessEnds
    PROVE  /\ Typed'
           /\ cur'.handle = Null /\ forgotten' = {}
           /\ \A s \in Streams : streams'[s].name = Null
           /\ client' = Nobody /\ reply' = NoReply
           /\ UNCHANGED verified
<1> PICK d : /\ Restarted(d)
             /\ \/ d = disk
                \/ /\ d \in [Names -> UNION {FlushedBy(n) : n \in Names}]
                   /\ \A n \in Names : d[n] \in FlushedBy(n)
  BY DEF ProcessEnds, Killed, Exit
<1>1. d \in [Names -> Contents \union {Null}]
  <2>1. CASE d = disk
    BY <2>1 DEF Typed, TypeOK
  <2>2. CASE /\ d \in [Names -> UNION {FlushedBy(n) : n \in Names}]
             /\ \A n \in Names : d[n] \in FlushedBy(n)
    <3>1. ASSUME NEW n \in Names PROVE d[n] \in Contents \union {Null}
      BY <2>2, FlushedByFile DEF Typed, TypeOK
    <3> QED
      BY <2>2, <3>1
  <2> QED
    BY <2>1, <2>2
<1>2. /\ disk' = d /\ streams' = [s \in Streams |-> Closed]
      /\ cur' = [path |-> Null, live |-> TRUE, handle |-> Null]
      /\ client' = Nobody /\ reply' = NoReply
      /\ forgotten' = {} /\ undefined' = undefined /\ verified' = verified
  BY DEF Restarted
<1>3. TypeOK'
  BY <1>1, <1>2, ConstantsTyped DEF Typed, TypeOK
<1>4. StreamInv'
  BY <1>2 DEF StreamInv, Closed
<1>5. RecordInv'
  BY <1>2 DEF RecordInv, CurrentUsable, Nobody
<1> QED
  BY <1>2, <1>3, <1>4, <1>5 DEF Typed, Closed

LEMMA InitServer == ServerInit => ServerTyped
<1> SUFFICES ASSUME ServerInit PROVE ServerTyped
  OBVIOUS
<1>1. Typed
  BY InitTyped DEF ServerInit
<1> QED
  BY <1>1 DEF ServerInit, Init, Closed, ServerTyped, ServerTypes, StreamsKnown,
     Unsettled

\* Commands that leave the files and what is remembered of them alone.
Quiet == UNCHANGED <<disk, streams, cur, verified, forgotten, spoiled>>

LEMMA QuietCommands ==
    ASSUME [ServerNext]_serverVars
    PROVE  \/ Quiet \/ ProcessEnds
           \/ \E n \in Names : OpenCommand(n)
           \/ \E w \in Writes : WriteCommand(w)
           \/ WriteCommandFails
           \/ \E md5 \in Contents : FinishCommand(md5)
<1> USE DEF Quiet
<1>1. CASE \/ Login \/ LoginFails \/ NextBatch \/ Ignored
           \/ BeginCommand \/ EndCommand \/ UploadRefused
           \/ ScriptRefused \/ RebootFails
  BY <1>1 DEF Login, LoginFails, NextBatch, Ignored, BeginCommand, EndCommand,
     UploadRefused, ScriptRefused, RebootFails, NothingDone, vars
<1>2. CASE \/ \E t \in Titles : ScriptCommand(t)
           \/ UNCHANGED serverVars
  BY <1>2 DEF ScriptCommand, serverVars, server, vars
<1>3. CASE OpenCommandFails \/ FinishCommandAgain \/ Disconnect
  BY <1>3 DEF OpenCommandFails, OpenFails, FinishCommandAgain, FinishAgain,
     Disconnect, SessionEnds, vars
<1> QED
  BY <1>1, <1>2, <1>3 DEF ServerNext, ProcessEnds

-----------------------------------------------------------------------------
\* A 02 makes the stream of the record a forgotten one.
LEMMA OpenKnown ==
    ASSUME ServerTyped, NEW n \in Names, OpenCommand(n)
    PROVE  ServerTypes' /\ StreamsKnown' /\ Unsettled'
<1> PICK s \in Unused :
        /\ streams' = [streams EXCEPT ![s] = [name |-> n, pending |-> {}]]
        /\ cur' = [path |-> n, live |-> TRUE, handle |-> s]
  BY DEF OpenCommand, Open
<1>1. s \in Streams /\ streams[s].name = Null
  BY DEF Unused, Closed
<1>2. /\ verified' = [verified EXCEPT ![n] = Null] /\ spoiled' = spoiled \ {n}
      /\ forgotten' = NowForgotten
  BY DEF OpenCommand
<1>3. cur.handle # Null => cur.handle \in Streams /\ streams[cur.handle].name # Null
  BY CurrentStream DEF ServerTyped
<1>4. ServerTypes'
  BY <1>2, <1>3 DEF ServerTyped, ServerTypes, NowForgotten
<1>5. \A r \in Streams : r # s => streams'[r] = streams[r]
  BY DEF ServerTyped, Typed, TypeOK
<1>6. streams'[s].name = n /\ n # Null
  BY <1>1, UploadAssumption DEF ServerTyped, Typed, TypeOK
<1>7. \A r \in Streams : r \in forgotten' <=> r \in forgotten \/ r = cur.handle
  BY <1>2, UploadAssumption DEF NowForgotten
<1>8. StreamsKnown'
  <2>1. cur'.handle = s
    OBVIOUS
  <2>2. ASSUME NEW r \in Streams, streams'[r].name # Null
        PROVE  r \in forgotten' \union {s}
    BY <2>2, <1>5, <1>7 DEF ServerTyped, StreamsKnown
  <2>3. ASSUME NEW r \in forgotten' PROVE streams'[r].name # Null /\ r # s
    <3>1. r \in Streams
      BY <1>4 DEF ServerTypes
    <3>2. streams[r].name # Null
      BY <1>3, <1>7, <3>1, UploadAssumption DEF ServerTyped, StreamsKnown
    <3> QED
      BY <1>1, <1>5, <3>1, <3>2
  <2> QED
    BY <2>1, <2>2, <2>3 DEF StreamsKnown
<1>9. Unsettled'
  BY <1>2 DEF ServerTyped, ServerTypes, Unsettled
<1> QED
  BY <1>4, <1>8, <1>9

\* A 03 changes what is pending, and no name.
LEMMA WriteKnown ==
    ASSUME ServerTyped,
           WriteCommandFails \/ \E w \in Writes : WriteCommand(w)
    PROVE  ServerTypes' /\ StreamsKnown' /\ Unsettled'
<1>1. UNCHANGED <<cur, verified, forgotten, spoiled>>
  BY DEF WriteCommand, WriteCommandFails, WriteTaken, WriteNowhere, SeekFails,
     WriteFails
<1>2. \A s \in Streams : streams'[s].name = streams[s].name
  <2>1. CASE streams' = streams
    BY <2>1
  <2>2. ASSUME cur.handle # Null, NEW left,
               streams' = [streams EXCEPT ![cur.handle].pending = left]
        PROVE  \A s \in Streams : streams'[s].name = streams[s].name
    BY <2>2 DEF ServerTyped, Typed, TypeOK
  <2> QED
    BY <2>1, <2>2 DEF WriteCommand, WriteCommandFails, WriteTaken, WriteNowhere,
       SeekFails, WriteFails
<1> QED
  BY <1>1, <1>2 DEF ServerTyped, ServerTypes, StreamsKnown, Unsettled

\* A 04 closes the record's stream, and leaves no handle.
LEMMA FinishKnown ==
    ASSUME ServerTyped, NEW md5 \in Contents, FinishCommand(md5)
    PROVE  ServerTypes' /\ StreamsKnown' /\ Unsettled'
<1>1. /\ cur' = [cur EXCEPT !.live = FALSE, !.handle = Null]
      /\ UNCHANGED <<forgotten, spoiled>>
  BY DEF FinishCommand, Finish, Cleared
<1>2. cur'.handle = Null
  BY <1>1 DEF ServerTyped, Typed, TypeOK
<1>3. \A s \in Streams : streams'[s] = IF s = cur.handle THEN Closed ELSE streams[s]
  BY UploadAssumption, ZenonT(40)
     DEF FinishCommand, Finish, StreamsAfterClose, ServerTyped, Typed, TypeOK
<1>4. ServerTypes'
  <2>1. cur.path \in Names \union {Null}
    BY DEF ServerTyped, Typed, TypeOK
  <2>2. verified' \in [Names -> Contents \union {Null}]
    BY <2>1 DEF FinishCommand, ServerTyped, ServerTypes
  <2> QED
    BY <1>1, <2>2 DEF ServerTyped, ServerTypes
<1>5. StreamsKnown'
  <2>1. ASSUME NEW s \in Streams, streams'[s].name # Null PROVE s \in forgotten
    BY <2>1, <1>3 DEF Closed, ServerTyped, StreamsKnown
  <2>2. ASSUME NEW s \in forgotten PROVE streams'[s].name # Null /\ s # Null
    BY <1>3, UploadAssumption DEF ServerTyped, ServerTypes, StreamsKnown
  <2> QED
    BY <1>1, <1>2, <2>1, <2>2 DEF StreamsKnown
<1> QED
  BY <1>2, <1>4, <1>5 DEF Unsettled

\* Every step keeps types, streams and record.
LEMMA ServerStep == ServerTyped /\ [ServerNext]_serverVars => ServerTyped'
<1> SUFFICES ASSUME ServerTyped, [ServerNext]_serverVars PROVE ServerTyped'
  OBVIOUS
<1>1. Typed'
  BY CommandSteps, TypedStep, EndTyped DEF ServerTyped
<1>2. ServerTypes' /\ StreamsKnown' /\ Unsettled'
  <2>1. CASE Quiet
    BY <2>1 DEF Quiet, ServerTyped, ServerTypes, StreamsKnown, Unsettled
  <2>2. CASE ProcessEnds
    <3>1. spoiled' \subseteq Names
      <4>1. CASE Killed
        BY <4>1 DEF Killed, ServerTyped, ServerTypes
      <4>2. CASE Exit
        <5>1. ASSUME NEW s \in forgotten PROVE streams[s].name \in Names
          BY DEF ServerTyped, ServerTypes, StreamsKnown, Typed, TypeOK
        <5> QED
          BY <4>2, <5>1 DEF Exit, ServerTyped, ServerTypes
      <4> QED
        BY <2>2, <4>1, <4>2 DEF ProcessEnds
    <3> QED
      BY <2>2, <3>1, EndTyped DEF ServerTyped, ServerTypes, StreamsKnown, Unsettled
  <2> QED
    BY <2>1, <2>2, QuietCommands, OpenKnown, WriteKnown, FinishKnown
<1> QED
  BY <1>1, <1>2 DEF ServerTyped

\* Types, streams and the record, in every reachable state of the daemon.
THEOREM ServerTyping == ServerSpec => []ServerTyped
  BY InitServer, ServerStep, PTL DEF ServerSpec

\* Every variable of the upload keeps its type, over crashes and restarts.
THEOREM ServerTypeCorrect == ServerSpec => []TypeOK
<1>1. ServerTyped => TypeOK
  BY DEF ServerTyped, Typed
<1> QED
  BY <1>1, ServerTyping, PTL

\* While an upload is open, l_upload_current leads to the open stream of its own
\* file, in every process of the daemon.
THEOREM ServerRecordUsable == ServerSpec => []CurrentUsable
<1>1. ServerTyped => CurrentUsable
  BY DEF ServerTyped, Typed, RecordInv
<1> QED
  BY <1>1, ServerTyping, PTL

-----------------------------------------------------------------------------
(* What the answer to a 04 says.                                           *)

\* An upload answered with OK is on the disk, under every command of the daemon.
THEOREM ServerAnswerSound == ServerSpec => []OkMeansStored
<1>1. ServerInit => OkMeansStored
  BY DEF ServerInit, Init, OkMeansStored, NoReply
<1>2. ASSUME ServerTyped, OkMeansStored, [ServerNext]_serverVars
      PROVE  OkMeansStored'
  <2>1. CASE ProcessEnds
    BY <1>2, <2>1, EndTyped DEF ServerTyped, OkMeansStored, NoReply
  <2> QED
    BY <1>2, <2>1, CommandSteps, OkStored DEF ServerTyped
<1> QED
  BY <1>1, <1>2, ServerTyping, PTL DEF ServerSpec

\* An upload that met no I/O error, whose MD5 is that of the data acknowledged,
\* is answered with OK, under every command of the daemon.
THEOREM ServerAnswerFair == ServerSpec => []StoredMeansOk
<1>1. ServerInit => Faithful /\ StoredMeansOk
  BY DEF ServerInit, Init, Faithful, StoredMeansOk, Nobody, NoReply
<1>2. ASSUME ServerTyped, Faithful, StoredMeansOk, [ServerNext]_serverVars
      PROVE  Faithful' /\ StoredMeansOk'
  <2>1. CASE ProcessEnds
    BY <1>2, <2>1, EndTyped
       DEF ServerTyped, Faithful, StoredMeansOk, NoReply, Nobody
  <2> QED
    BY <1>2, <2>1, CommandSteps, FaithfulStep, OkFair DEF ServerTyped
<1> QED
  BY <1>1, <1>2, ServerTyping, PTL DEF ServerSpec

-----------------------------------------------------------------------------
(* What was answered with OK.                                              *)

\* A step writes to no file that is settled, unless the process exits with
\* something of a forgotten stream of it.
LEMMA StaysStep ==
    ASSUME ServerTyped, VerifiedStays, [ServerNext]_serverVars
    PROVE  VerifiedStays'
<1>1. CASE Quiet
  BY <1>1 DEF Quiet, VerifiedStays
<1>2. ASSUME NEW n \in Names, OpenCommand(n) PROVE VerifiedStays'
  <2>1. /\ disk' = [disk EXCEPT ![n] = <<>>]
        /\ verified' = [verified EXCEPT ![n] = Null] /\ spoiled' = spoiled \ {n}
    BY <1>2 DEF OpenCommand, Open
  <2> QED
    BY <2>1 DEF VerifiedStays, ServerTyped, ServerTypes, Typed, TypeOK
<1>3. CASE WriteCommandFails \/ \E w \in Writes : WriteCommand(w)
  <2>1. UNCHANGED <<verified, spoiled>>
    BY <1>3 DEF WriteCommand, WriteCommandFails
  <2>2. disk' = disk \/ (cur.handle # Null /\ disk' = Flushed(cur.handle))
    <3>1. CASE WriteCommandFails
      <4>1. CASE WriteNowhere \/ SeekFails
        BY <4>1 DEF WriteNowhere, SeekFails
      <4>2. ASSUME NEW w \in Writes, WriteFails(w)
            PROVE  cur.handle # Null /\ disk' = Flushed(cur.handle)
        BY <4>2 DEF WriteFails
      <4> QED
        BY <3>1, <4>1, <4>2 DEF WriteCommandFails
    <3>2. CASE \E w \in Writes : WriteCommand(w)
      BY <3>2 DEF WriteCommand, WriteTaken
    <3> QED
      BY <1>3, <3>1, <3>2
  <2>3. ASSUME cur.handle # Null, NEW n \in Names, n # cur.path
        PROVE  Flushed(cur.handle)[n] = disk[n]
    BY <2>3, CurrentStream, FlushedFile DEF ServerTyped
  <2> QED
    BY <2>1, <2>2, <2>3 DEF VerifiedStays, ServerTyped, Unsettled
<1>4. ASSUME NEW md5 \in Contents, FinishCommand(md5) PROVE VerifiedStays'
  <2> PICK flush \in BOOLEAN : \E seen \in Seen(Closing(flush)) :
                                 Checked(md5, flush, seen)
    BY <1>4 DEF FinishCommand, Finish, Checked
  <2> PICK seen \in Seen(Closing(flush)) : Checked(md5, flush, seen)
    OBVIOUS
  <2>1. spoiled' = spoiled /\ disk' = AfterClose(flush)
    BY <1>4 DEF FinishCommand, Checked
  <2>2. ASSUME NEW n \in Names, n # cur.path \/ cur.handle = Null
        PROVE  disk'[n] = disk[n]
    <3>1. CASE cur.handle = Null \/ ~flush
      BY <2>1, <3>1 DEF AfterClose
    <3>2. CASE cur.handle # Null /\ flush
      BY <2>1, <2>2, <3>2, CurrentStream, FlushedFile DEF AfterClose, ServerTyped
    <3> QED
      BY <3>1, <3>2
  <2>3. CASE cur.path = Null \/ ~reply'.ok \/ ~reply'.whole
    <3>1. verified' = verified
      BY <1>4, <2>3 DEF FinishCommand
    <3> QED
      BY <2>1, <2>2, <3>1 DEF VerifiedStays, ServerTyped, Unsettled
  <2>4. CASE ~(cur.path = Null \/ ~reply'.ok \/ ~reply'.whole)
    <3>1. verified' = [verified EXCEPT ![cur.path] = md5]
      BY <1>4, <2>4 DEF FinishCommand
    <3>2. seen = md5 /\ seen = disk'[cur.path]
      BY <2>1, <2>4 DEF Checked, Matches, Closing
    <3>3. cur.path \in Names
      BY <2>4 DEF ServerTyped, Typed, TypeOK
    <3> QED
      BY <2>1, <2>2, <3>1, <3>2, <3>3
         DEF VerifiedStays, ServerTyped, ServerTypes
  <2> QED
    BY <2>3, <2>4
<1>5. CASE Killed
  BY <1>5 DEF Killed, Restarted, VerifiedStays
<1>6. CASE Exit
  <2>1. /\ verified' = verified
        /\ \A n \in Names : disk'[n] \in FlushedBy(n)
        /\ spoiled' = spoiled \union {streams[s].name : s \in
                        {f \in forgotten : streams[f].pending # {}}}
    BY <1>6 DEF Exit, Restarted
  <2>2. ASSUME NEW n \in Names, verified[n] # Null, n \notin spoiled'
        PROVE  disk'[n] = disk[n]
    <3>1. ASSUME NEW s \in Streams, streams[s].name = n
          PROVE  streams[s].pending = {}
      <4>1. n # Null
        BY UploadAssumption
      <4>2. s # cur.handle
        BY <2>2, <3>1, UploadAssumption, CurrentStream DEF ServerTyped, Unsettled
      <4>3. s \in forgotten
        BY <3>1, <4>1, <4>2 DEF ServerTyped, StreamsKnown
      <4> QED
        BY <2>1, <2>2, <3>1, <4>3
    <3>2. Pending(n) = {}
      BY <3>1 DEF Pending
    <3> QED
      BY <2>1, <3>2, FlushedByFile DEF ServerTyped
  <2> QED
    BY <2>1, <2>2 DEF VerifiedStays
<1> QED
  BY <1>1, <1>2, <1>3, <1>4, <1>5, <1>6, QuietCommands DEF ProcessEnds

\* A file that was answered with OK keeps its content until it is opened again,
\* over later uploads, sessions, crashes and restarts, unless an exit writes out
\* a stream of it that was forgotten.
THEOREM StaysVerified == ServerSpec => []VerifiedStays
<1>1. ServerInit => VerifiedStays
  BY DEF ServerInit, VerifiedStays
<1> QED
  BY <1>1, StaysStep, ServerTyping, PTL DEF ServerSpec

\* The daemon has no stream open on a file that was answered with OK, but for
\* one that a later 02 made it forget.
THEOREM RunsVerified == ServerSpec => []VerifiedRunnable
<1>1. ASSUME ServerTyped, NEW n \in Names, verified[n] # Null, Busy(n)
      PROVE  \E s \in forgotten : streams[s].name = n
  <2> PICK s \in Streams : streams[s].name = n
    BY <1>1 DEF Busy
  <2>1. n # Null
    BY UploadAssumption
  <2>2. s # cur.handle
    BY <1>1, UploadAssumption, CurrentStream DEF ServerTyped, Unsettled
  <2> QED
    BY <1>1, <2>1, <2>2 DEF ServerTyped, StreamsKnown
<1>2. ServerTyped => VerifiedRunnable
  BY <1>1 DEF VerifiedRunnable
<1> QED
  BY <1>2, ServerTyping, PTL
=============================================================================
