---------------------------- MODULE UpgradeServer ----------------------------
(***************************************************************************)
(* What one client at a time can make the daemon do: the commands E1, E2   *)
(* and E3 of protocol_adapter.c, each with its gate, its error paths and   *)
(* its answer, over UploadFile, and the ends of the process.               *)
(*                                                                         *)
(* A process that ends by exit() (SIGINT, or SIGSEGV's handler) writes out *)
(* every stream it has, those it forgot included; one that is killed or    *)
(* rebooted does not.  The next process finds the disk and nothing else.   *)
(***************************************************************************)
EXTENDS UploadFile

CONSTANT Empty     \* a title of two bytes or more that begins with a NUL

ASSUME ServerAssumption == Empty \notin Names \union {Null}

Titles == Names \union {Empty}

VARIABLES login,      \* "no", "granted" in this batch, or "in" (b_login)
          answer,     \* the answer to the last command; cmd Null for none
          verified,   \* verified[n]: the MD5 last answered with OK for n, until
                      \* n is opened again
          forgotten,  \* open streams that a later 02 has replaced
          spoiled,    \* files an exit has written from a forgotten stream
          ran         \* the last E3 01 has started its script

server == <<login, answer, verified, forgotten, spoiled, ran>>
serverVars == <<vars, server>>

NoAnswer == [cmd |-> Null, ok |-> FALSE, code |-> 0]

ServerInit == /\ Init
              /\ login = "no"
              /\ answer = NoAnswer
              /\ verified = [n \in Names |-> Null]
              /\ forgotten = {}
              /\ spoiled = {}
              /\ ran = FALSE

-----------------------------------------------------------------------------
\* send_reply_to_client: the answer may be lost for want of a packet or of the
\* connection; nobody tries again.
Answer(cmd, ok, code) ==
    answer' \in {[cmd |-> cmd, ok |-> ok, code |-> code], NoAnswer}

\* process_protocol_pdu: what follows the switch needs b_login.
Gate == ~undefined /\ login = "in"

\* A command that leaves the files and l_upload_current alone.
NothingDone == UNCHANGED <<vars, verified, forgotten, spoiled>> /\ ran' = FALSE

\* E1: the right password; b_login is true from the next batch on.
Login ==
    /\ ~undefined
    /\ login' = IF login = "no" THEN "granted" ELSE login
    /\ Answer("E1", TRUE, 0)
    /\ NothingDone

LoginFails ==
    /\ ~undefined
    /\ Answer("E1", FALSE, 0)
    /\ UNCHANGED login /\ NothingDone

NextBatch ==
    /\ ~undefined /\ login = "granted"
    /\ login' = "in"
    /\ UNCHANGED <<vars, answer, verified, forgotten, spoiled, ran>>

\* A command before the login, or one nobody knows, is not answered.
Ignored ==
    /\ ~undefined
    /\ answer' = NoAnswer
    /\ UNCHANGED login /\ NothingDone

\* E2 01 and 05 only answer; 05 repeats what the client says of the upload.
BeginCommand ==
    /\ Gate
    /\ Answer("E2 01", TRUE, 0)
    /\ UNCHANGED login /\ NothingDone

EndCommand ==
    /\ Gate
    /\ \E ok \in BOOLEAN : Answer("E2 05", ok, 0)
    /\ UNCHANGED login /\ NothingDone

-----------------------------------------------------------------------------
(* E2 02 to 04: the upload.                                                *)

\* What the earlier stream becomes when another one is recorded.
NowForgotten == IF cur.handle = Null THEN forgotten ELSE forgotten \union {cur.handle}

\* 02 with a good title: check_upgrade_directory, util_dir_append, fopen, save.
OpenCommand(n) ==
    /\ Gate
    /\ Open(n)
    /\ forgotten' = NowForgotten
    /\ verified' = [verified EXCEPT ![n] = Null]
    /\ spoiled' = spoiled \ {n}
    /\ Answer("E2 02", TRUE, 0)
    /\ ran' = FALSE
    /\ UNCHANGED login

\* 02 refused for its title, or failing: no directory, no memory, no file.
OpenCommandFails ==
    /\ Gate
    /\ OpenFails
    /\ Answer("E2 02", FALSE, 0)
    /\ ran' = FALSE
    /\ UNCHANGED <<login, verified, forgotten, spoiled>>

\* 03 whose block is taken.
WriteCommand(w) ==
    /\ Gate
    /\ WriteTaken(w)
    /\ Answer("E2 03", TRUE, 0)
    /\ ran' = FALSE
    /\ UNCHANGED <<login, verified, forgotten, spoiled>>

\* 03 without a stream, or whose fseek or fwrite fails.
WriteCommandFails ==
    /\ Gate
    /\ WriteNowhere \/ SeekFails \/ \E w \in Writes : WriteFails(w)
    /\ Answer("E2 03", FALSE, 0)
    /\ ran' = FALSE
    /\ UNCHANGED <<login, verified, forgotten, spoiled>>

\* 03 of four bytes or less, 04 whose first byte is not OK or that has no MD5:
\* refused.
UploadRefused ==
    /\ Gate
    /\ \E cmd \in {"E2 03", "E2 04"} : Answer(cmd, FALSE, 0)
    /\ UNCHANGED login /\ NothingDone

\* 04.
FinishCommand(md5) ==
    /\ Gate
    /\ Finish(md5)
    /\ verified' = IF cur.path = Null \/ ~reply'.ok \/ ~reply'.whole THEN verified
                   ELSE [verified EXCEPT ![cur.path] = md5]
    /\ Answer("E2 04", reply'.ok, 0)
    /\ ran' = FALSE
    /\ UNCHANGED <<login, forgotten, spoiled>>

FinishCommandAgain ==
    /\ Gate
    /\ FinishAgain
    /\ answer' = NoAnswer
    /\ ran' = FALSE
    /\ UNCHANGED <<login, verified, forgotten, spoiled>>

-----------------------------------------------------------------------------
(* E3: script and reboot.                                                  *)

\* Linux runs no file that is open for writing (ETXTBSY).
Busy(n) == \E s \in Streams : streams[s].name = n

\* file_execute_script: the code it may return, and whether a script has run.
\* What system() says is dropped.
ScriptResults(t) ==
    LET Result(code, done) == [code |-> code, ran |-> done] IN
    IF t = Empty THEN {Result(0, FALSE)}
    ELSE {Result(2, FALSE)}                              \* no memory
           \union IF disk[t] = Null THEN {Result(1, FALSE)}
                  ELSE {Result(3, FALSE),                \* chmod fails
                        Result(0, FALSE), Result(0, ~Busy(t))}

\* E3 01 with a title.
ScriptCommand(t) ==
    /\ Gate
    /\ \E r \in ScriptResults(t) :
         /\ ran' = r.ran
         /\ Answer("E3 01", r.code = 0, r.code)
    /\ UNCHANGED <<vars, login, verified, forgotten, spoiled>>

\* A title of one byte, or none, is refused without a code.
ScriptRefused ==
    /\ Gate
    /\ Answer("E3 01", FALSE, 0)
    /\ UNCHANGED login /\ NothingDone

-----------------------------------------------------------------------------
(* The ends of a session and of the process.                               *)

\* The state of a new process; the disk is d.
Restarted(d) ==
    /\ disk' = d
    /\ streams' = [s \in Streams |-> Closed]
    /\ cur' = [path |-> Null, live |-> TRUE, handle |-> Null]
    /\ client' = Nobody
    /\ reply' = NoReply
    /\ login' = "no"
    /\ answer' = NoAnswer
    /\ forgotten' = {}
    /\ ran' = FALSE
    /\ UNCHANGED <<undefined, verified>>

\* SIGKILL, SIGPIPE, SIGABRT, E3 02 with the reboot it asks for: no flush.
Killed ==
    /\ ~undefined
    /\ Restarted(disk)
    /\ UNCHANGED spoiled

\* What the streams still have for file n.
Pending(n) == UNION {streams[s].pending : s \in {r \in Streams : streams[r].name = n}}

\* A block of file n when all of that is written out, in any order.
BlockAfter(n, i, byte) ==
    IF \E w \in Pending(n) : w.at = i
    THEN [at |-> i, byte |-> byte] \in Pending(n)
    ELSE byte = IF i <= Len(disk[n]) THEN disk[n][i] ELSE Hole

\* What file n may be then: as long as it was, or up to the last block written.
FlushedBy(n) ==
    IF Pending(n) = {} THEN {disk[n]}
    ELSE {c \in Contents :
            /\ Len(c) >= Len(disk[n])
            /\ \A w \in Pending(n) : w.at <= Len(c)
            /\ Len(c) = Len(disk[n]) \/ \E w \in Pending(n) : w.at = Len(c)
            /\ \A i \in DOMAIN c : BlockAfter(n, i, c[i])}

\* close_release_res, print_trace: exit() flushes what is open.
Exit ==
    /\ ~undefined
    /\ \E d \in [Names -> UNION {FlushedBy(n) : n \in Names}] :
         /\ \A n \in Names : d[n] \in FlushedBy(n)
         /\ Restarted(d)
    /\ spoiled' = spoiled \union {streams[s].name : s \in
                    {f \in forgotten : streams[f].pending # {}}}

\* E3 02 asks for the reboot; /sbin/reboot may fail, nothing is answered.
RebootFails == Gate /\ answer' = NoAnswer /\ UNCHANGED login /\ NothingDone

\* The connection ends; its commands have all been carried out.
Disconnect ==
    /\ \/ SessionEnds
       \/ client = Nobody /\ login # "no" /\ ~undefined /\ UNCHANGED vars
    /\ login' = "no"
    /\ answer' = NoAnswer
    /\ ran' = FALSE
    /\ UNCHANGED <<verified, forgotten, spoiled>>

ServerNext ==
    \/ Login \/ LoginFails \/ NextBatch \/ Ignored \/ BeginCommand \/ EndCommand
    \/ \E n \in Names : OpenCommand(n)
    \/ OpenCommandFails
    \/ \E t \in Titles : ScriptCommand(t)
    \/ ScriptRefused
    \/ \E w \in Writes : WriteCommand(w)
    \/ WriteCommandFails \/ UploadRefused
    \/ \E md5 \in Contents : FinishCommand(md5)
    \/ FinishCommandAgain
    \/ RebootFails \/ Killed \/ Exit \/ Disconnect

ServerSpec == ServerInit /\ [][ServerNext]_serverVars

-----------------------------------------------------------------------------
(* Correctness.                                                            *)

\* A file that was answered with OK keeps the content of its MD5 until it is
\* opened again: later commands, sessions, crashes and forgotten streams leave
\* it alone, but for an exit that writes out a forgotten stream of that file.
VerifiedStays ==
    \A n \in Names :
        verified[n] # Null /\ n \notin spoiled => disk[n] = verified[n]

\* A file that was answered with OK can be run as a script: the daemon has no
\* stream open on it, unless an upload of it was abandoned before.
VerifiedRunnable ==
    \A n \in Names :
        verified[n] # Null /\ Busy(n) => \E s \in forgotten : streams[s].name = n

\* file_manager.c:143, "0: executed successfully": E3 01 answered with OK and
\* 0 means that the script ran.
OkMeansRan == answer.cmd = "E3 01" /\ answer.ok => ran
=============================================================================
