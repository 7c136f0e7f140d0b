--------------------------- MODULE ClientManager ---------------------------
(***************************************************************************)
(* The TCP side of the daemon: network/client_manager.c together with the  *)
(* accept thread of network/tcp_socket.c, the start-up order of            *)
(* network/network_manager.c and the login gate of                         *)
(* protocol_adapter/protocol_adapter.c.                                    *)
(*                                                                         *)
(* Three kinds of threads run: main (start-up), the accept thread, and one *)
(* receive thread per accepted connection, named here by the connection it *)
(* was created for.  They share the two slots of l_connect_info, its mutex *)
(* and the process's descriptor table.  A receive thread reads its slot    *)
(* WITHOUT the mutex, so what it read may be stale when it is used.        *)
(***************************************************************************)
EXTENDS Integers, Sequences, FiniteSets

CONSTANTS Conns,         \* TCP connections; each one is made at most once
          None,          \* "nobody", "nothing"
          MaxFd,         \* descriptors the process may have open
          MaxSend,       \* bound: requests the clients send, all together
          SndBuf,        \* bound: replies the kernel holds for a client
          SpawnMayFail   \* may pthread_create fail?

ASSUME ConnsAssumption == None \notin Conns /\ IsFiniteSet(Conns)
ASSUME BoundsAssumption ==
    /\ MaxFd \in Nat \ {0}
    /\ MaxSend \in Nat
    /\ SndBuf \in Nat \ {0}
    /\ SpawnMayFail \in BOOLEAN

Slot == {0, 1}                       \* CLIENT_COUNT_MAX = 2
Fds  == 1 .. MaxFd
Kinds == {"login", "badlogin", "cmd"}  \* right password, wrong one, E2/E3
Requests == [from : Conns, kind : Kinds]

VARIABLES
    up,        \* the process is alive
    boot, k,   \* main: where tcp_server_start is, loop index of init
    b_valid, b_login, sock,      \* l_connect_info[ix]
    mutex, sendTo, \* who holds l_connect_info_mutex inside send(2), and to whom
    file,      \* descriptor table: the connection behind each descriptor
    backlog, peer, unread, sent, \* the network: listen queue, the clients
    accPc, accConn, accFd, accSlot, \* the accept thread
    pc, slotOf, rfd, src, cached, buf, \* the receive threads
    verified   \* history: whose right password has been processed

bootVars == <<boot, k>>
lockVars == <<mutex, sendTo>>
slotVars == <<b_valid, b_login, sock>>
netVars  == <<backlog, peer, unread, sent>>
accVars  == <<accPc, accConn, accFd, accSlot>>
thrVars  == <<pc, slotOf, rfd, src, cached, buf>>
vars == <<up, bootVars, slotVars, lockVars, file, netVars, accVars, thrVars,
          verified>>

\* No client, no session, no receive thread.
NobodyYet ==
    /\ up = TRUE
    /\ b_valid = [s \in Slot |-> FALSE]
    /\ b_login = [s \in Slot |-> FALSE]
    /\ mutex = None /\ sendTo = None
    /\ file = [f \in Fds |-> None]
    /\ backlog = {}
    /\ peer = [c \in Conns |-> "absent"]
    /\ unread = [c \in Conns |-> 0]
    /\ sent = 0
    /\ accPc = "accept" /\ accConn = None /\ accFd = 0 /\ accSlot = 0
    /\ pc = [c \in Conns |-> "none"]
    /\ slotOf = [c \in Conns |-> 0]
    /\ rfd = [c \in Conns |-> 0]
    /\ src = [c \in Conns |-> None]
    /\ cached = [c \in Conns |-> FALSE]
    /\ buf = [c \in Conns |-> <<>>]
    /\ verified = [c \in Conns |-> FALSE]

\* The slots are static storage: zero, and client_manager_init is still to run.
Init == NobodyYet /\ boot = "listen" /\ k = 0 /\ sock = [s \in Slot |-> 0]

-----------------------------------------------------------------------------
(* The clients.                                                            *)

Connect(c) ==
    /\ up
    /\ peer[c] = "absent"
    /\ peer' = [peer EXCEPT ![c] = "up"]
    /\ backlog' = backlog \union {c}
    /\ UNCHANGED <<up, bootVars, slotVars, lockVars, file, unread, sent, accVars,
                   thrVars, verified>>

PeerClose(c) ==
    /\ up /\ peer[c] = "up"
    /\ peer' = [peer EXCEPT ![c] = "closed"]
    /\ UNCHANGED <<up, bootVars, slotVars, lockVars, file, backlog, unread, sent,
                   accVars, thrVars, verified>>

PeerRead(c) ==
    /\ up /\ peer[c] = "up" /\ unread[c] > 0
    /\ unread' = [unread EXCEPT ![c] = unread[c] - 1]
    /\ UNCHANGED <<up, bootVars, slotVars, lockVars, file, backlog, peer, sent,
                   accVars, thrVars, verified>>

-----------------------------------------------------------------------------
(* main: the accept thread is started first, then client_manager_init      *)
(* stores into the slots, without the mutex, and publishes the callback.   *)

StartAccept ==
    /\ up /\ boot = "listen"
    /\ boot' = "valid"
    /\ UNCHANGED <<up, k, slotVars, lockVars, file, netVars, accVars, thrVars,
                   verified>>

ClearValid ==
    /\ up /\ boot = "valid"
    /\ b_valid' = [b_valid EXCEPT ![k] = FALSE]
    /\ boot' = "login"
    /\ UNCHANGED <<up, k, b_login, sock, lockVars, file, netVars, accVars,
                   thrVars, verified>>

ClearLogin ==
    /\ up /\ boot = "login"
    /\ b_login' = [b_login EXCEPT ![k] = FALSE]
    /\ boot' = "sock"
    /\ UNCHANGED <<up, k, b_valid, sock, lockVars, file, netVars, accVars,
                   thrVars, verified>>

ClearSock ==
    /\ up /\ boot = "sock"
    /\ sock' = [sock EXCEPT ![k] = -1]
    /\ boot' = IF k = 1 THEN "callback" ELSE "valid"
    /\ k' = 1
    /\ UNCHANGED <<up, b_valid, b_login, lockVars, file, netVars, accVars,
                   thrVars, verified>>

SetCallback ==
    /\ up /\ boot = "callback"
    /\ boot' = "ready"
    /\ UNCHANGED <<up, k, slotVars, lockVars, file, netVars, accVars, thrVars,
                   verified>>

-----------------------------------------------------------------------------
(* The mutex, and what client_manager.c does under it.                     *)

\* Mutants: the lock is not taken, or not given back.
CanLockAlways == TRUE
UnlockForgotten == UNCHANGED lockVars

CanLock == mutex = None
Unlock  == mutex' = None /\ sendTo' = None

\* Mutant: tcp_close is forgotten.
FdNotClosed(s) == file

CloseFd(s) == IF sock[s] > 0 THEN [file EXCEPT ![sock[s]] = None] ELSE file

\* Mutants of InternalClose: one field of the slot is not reset.
InternalCloseKeepsSock(s, sessions) ==
    /\ b_valid' = [b_valid EXCEPT ![s] = FALSE]
    /\ b_login' = [t \in Slot |-> t \in sessions]
    /\ file' = CloseFd(s)
    /\ UNCHANGED sock

InternalCloseKeepsValid(s, sessions) ==
    /\ b_login' = [t \in Slot |-> t \in sessions]
    /\ file' = CloseFd(s)
    /\ sock' = [sock EXCEPT ![s] = -1]
    /\ UNCHANGED b_valid

InternalCloseKeepsLogin(s, sessions) ==
    /\ b_valid' = [b_valid EXCEPT ![s] = FALSE]
    /\ b_login' = [t \in Slot |-> t \in sessions \/ b_login[t]]
    /\ file' = CloseFd(s)
    /\ sock' = [sock EXCEPT ![s] = -1]

\* internal_client_manager_close on slot s; sessions: the slots that are
\* logged in when the caller releases the mutex.
InternalClose(s, sessions) ==
    /\ b_valid' = [b_valid EXCEPT ![s] = FALSE]
    /\ b_login' = [t \in Slot |-> t \in sessions]
    /\ file' = CloseFd(s)
    /\ sock' = [sock EXCEPT ![s] = -1]

\* Mutant: the other connection stays.
InternalLoginKeepsOther(s) ==
    IF b_valid[s]
      THEN /\ b_login' = [b_login EXCEPT ![s] = TRUE]
           /\ UNCHANGED <<b_valid, sock, file>>
      ELSE UNCHANGED <<slotVars, file>>

\* internal_client_manager_login: nothing on an invalid slot, else close the
\* other slot and mark this one.
InternalLogin(s) == IF b_valid[s] THEN InternalClose(1 - s, {s})
                                  ELSE UNCHANGED <<slotVars, file>>

-----------------------------------------------------------------------------
(* The accept thread.                                                      *)

Open(f) == f \in Fds /\ file[f] # None

\* The descriptor accept(2) returns: the lowest free one.
LowestFree(f) == f \in Fds /\ ~Open(f) /\ \A g \in Fds : g < f => Open(g)

\* Mutants of NewSlot: an index past the end; the first slot, session or not.
NewSlotPastEnd == IF b_valid[0] /\ b_login[0] THEN 2 ELSE 0
NewSlotAlwaysFirst == 0

\* internal_client_manager_new: the second slot only beside a session.
NewSlot == IF b_valid[0] /\ b_login[0] THEN 1 ELSE 0

Accept(c) ==
    /\ up /\ boot # "listen" /\ accPc = "accept"
    /\ c \in backlog
    /\ backlog' = backlog \ {c}
    /\ \E f \in Fds :
         /\ LowestFree(f)
         /\ file' = [file EXCEPT ![f] = c]
         /\ accFd' = f
    /\ accConn' = c
    /\ accPc' = "register"
    /\ UNCHANGED <<up, bootVars, slotVars, lockVars, peer, unread, sent, accSlot,
                   thrVars, verified>>

Register ==
    /\ up /\ accPc = "register" /\ CanLock
    /\ sock' = [sock EXCEPT ![NewSlot] = accFd]
    /\ b_valid' = [b_valid EXCEPT ![NewSlot] = TRUE]
    /\ accSlot' = NewSlot
    /\ accPc' = "spawn"
    /\ UNCHANGED <<up, bootVars, b_login, lockVars, file, netVars, accConn, accFd,
                   thrVars, verified>>

NextAccept == accPc' = "accept" /\ accConn' = None /\ accFd' = 0 /\ accSlot' = 0

Spawn(c) ==
    /\ up /\ accPc = "spawn" /\ accConn = c
    /\ pc' = [pc EXCEPT ![c] = "top"]
    /\ slotOf' = [slotOf EXCEPT ![c] = accSlot]
    /\ NextAccept
    /\ UNCHANGED <<up, bootVars, slotVars, lockVars, file, netVars, rfd, src,
                   cached, buf, verified>>

\* pthread_create failed.  pthread_detach is still called, on a thread id that
\* was never written: it may have no effect or end the process.  If it has
\* none, the accept loop closes the descriptor; the slot keeps its content.
SpawnFail ==
    /\ SpawnMayFail
    /\ up /\ accPc = "spawn"
    /\ \/ /\ file' = [file EXCEPT ![accFd] = None]
          /\ NextAccept
          /\ UNCHANGED up
       \/ /\ up' = FALSE
          /\ UNCHANGED <<file, accVars>>
    /\ UNCHANGED <<bootVars, slotVars, lockVars, netVars, thrVars, verified>>

-----------------------------------------------------------------------------
(* A receive thread: thread_func_client_pad_or_0.                          *)

\* Reads conn_info->sock, without the mutex.
ReadSock(c) ==
    /\ up /\ pc[c] = "top"
    /\ rfd' = [rfd EXCEPT ![c] = sock[slotOf[c]]]
    /\ pc' = [pc EXCEPT ![c] = "call"]
    /\ UNCHANGED <<up, bootVars, slotVars, lockVars, file, netVars, accVars,
                   slotOf, src, cached, buf, verified>>

\* Enters recv(2): the kernel resolves the descriptor NOW and keeps the
\* connection for the whole call, even if another thread closes the descriptor.
RecvCall(c) ==
    /\ up /\ pc[c] = "call"
    /\ rfd' = [rfd EXCEPT ![c] = 0]
    /\ IF Open(rfd[c])
         THEN /\ pc' = [pc EXCEPT ![c] = "recv"]
              /\ src' = [src EXCEPT ![c] = file[rfd[c]]]
         ELSE /\ pc' = [pc EXCEPT ![c] = "fail"]
              /\ UNCHANGED src
    /\ UNCHANGED <<up, bootVars, slotVars, lockVars, file, netVars, accVars,
                   slotOf, cached, buf, verified>>

\* Mutant: the callback is given b_valid.
LoginFlagIsValid(c) == b_valid[slotOf[c]]

\* conn_info->b_login, read without the mutex when the callback is called.
LoginFlag(c) == b_login[slotOf[c]]

\* recv returns one or more requests; the callback, if there is one already,
\* is entered with the b_login the slot has now, for the whole batch.
RecvData(c) ==
    /\ up /\ pc[c] = "recv"
    /\ peer[src[c]] = "up"
    /\ \E n \in 1 .. (MaxSend - sent) : \E batch \in [1 .. n -> Kinds] :
         /\ sent' = sent + n
         /\ buf' = [buf EXCEPT ![c] = buf[c] \o
                      [i \in 1 .. n |-> [from |-> src[c], kind |-> batch[i]]]]
    /\ src' = [src EXCEPT ![c] = None]
    /\ IF boot = "ready"
         THEN /\ cached' = [cached EXCEPT ![c] = LoginFlag(c)]
              /\ pc' = [pc EXCEPT ![c] = "pdu"]
         ELSE /\ pc' = [pc EXCEPT ![c] = "top"]
              /\ UNCHANGED cached
    /\ UNCHANGED <<up, bootVars, slotVars, lockVars, file, backlog, peer, unread,
                   accVars, slotOf, rfd, verified>>

\* Mutant: the end of the stream is taken for a pause.
AfterEofRetry == "top"

AfterEof == "fail"

RecvEof(c) ==
    /\ up /\ pc[c] = "recv"
    /\ peer[src[c]] = "closed"
    /\ src' = [src EXCEPT ![c] = None]
    /\ pc' = [pc EXCEPT ![c] = AfterEof]
    /\ UNCHANGED <<up, bootVars, slotVars, lockVars, file, netVars, accVars,
                   slotOf, rfd, cached, buf, verified>>

\* The thread closes the slot it was created for, whoever is in it, and ends.
CloseSlot(c) ==
    LET s == slotOf[c] IN
    /\ up /\ pc[c] = "fail" /\ CanLock
    /\ InternalClose(s, {t \in Slot : b_login[t]} \ {s})
    /\ pc' = [pc EXCEPT ![c] = "done"]
    /\ UNCHANGED <<up, bootVars, lockVars, netVars, accVars, slotOf, rfd, src,
                   cached, buf, verified>>

-----------------------------------------------------------------------------
(* protocol_adapter_process_data, inside the receive thread.               *)

Current(c) == Head(buf[c])

\* On to the next request, or, when the batch is used up, back to recv.
NextRequest(c) ==
    /\ buf' = [buf EXCEPT ![c] = Tail(buf[c])]
    /\ IF Len(buf[c]) > 1
         THEN pc' = [pc EXCEPT ![c] = "pdu"] /\ UNCHANGED cached
         ELSE /\ pc' = [pc EXCEPT ![c] = "top"]
              /\ cached' = [cached EXCEPT ![c] = FALSE]

\* The right password; the reply says OK whatever the slot login returned.
HandleLogin(c) ==
    /\ up /\ pc[c] = "pdu"
    /\ Current(c).kind = "login" /\ CanLock
    /\ InternalLogin(slotOf[c])
    /\ verified' = [verified EXCEPT ![Current(c).from] = TRUE]
    /\ pc' = [pc EXCEPT ![c] = "reply"]
    /\ UNCHANGED <<up, bootVars, lockVars, netVars, accVars, slotOf, rfd, src,
                   cached, buf>>

\* A wrong password, or a command inside a session: only the reply is left.
Served(c) == Current(c).kind = "cmd" /\ cached[c]

HandleOther(c) ==
    /\ up /\ pc[c] = "pdu"
    /\ Current(c).kind = "badlogin" \/ Served(c)
    /\ pc' = [pc EXCEPT ![c] = "reply"]
    /\ UNCHANGED <<up, bootVars, slotVars, lockVars, file, netVars, accVars,
                   slotOf, rfd, src, cached, buf, verified>>

\* A command without a session is dropped, with no reply.
Refuse(c) ==
    /\ up /\ pc[c] = "pdu"
    /\ Current(c).kind = "cmd" /\ ~cached[c]
    /\ NextRequest(c)
    /\ UNCHANGED <<up, bootVars, slotVars, lockVars, file, netVars, accVars,
                   slotOf, rfd, src, verified>>

\* client_manager_send takes the mutex; on an invalid slot it sends nothing.
SendBegin(c) ==
    /\ up /\ pc[c] = "reply" /\ CanLock
    /\ IF b_valid[slotOf[c]] /\ Open(sock[slotOf[c]])
         THEN /\ mutex' = c
              /\ sendTo' = file[sock[slotOf[c]]]
              /\ pc' = [pc EXCEPT ![c] = "send"]
              /\ UNCHANGED <<buf, cached>>
         ELSE /\ NextRequest(c)
              /\ UNCHANGED lockVars
    /\ UNCHANGED <<up, bootVars, slotVars, file, netVars, accVars, slotOf, rfd,
                   src, verified>>

\* The blocking send(2) returns and the mutex is released: while the client
\* lives, send waits for room; once it has closed, the reply may be lost.
SendEnd(c) ==
    /\ up /\ pc[c] = "send"
    /\ \/ /\ peer[sendTo] = "up" /\ unread[sendTo] < SndBuf
          /\ unread' = [unread EXCEPT ![sendTo] = unread[sendTo] + 1]
       \/ /\ peer[sendTo] = "closed"
          /\ UNCHANGED unread
    /\ Unlock
    /\ NextRequest(c)
    /\ UNCHANGED <<up, bootVars, slotVars, file, backlog, peer, sent, accVars,
                   slotOf, rfd, src, verified>>

\* send(2) on a connection its client has closed raises SIGPIPE, for which
\* main installs no handler: the process ends.
SigPipe(c) ==
    /\ up /\ pc[c] = "send" /\ peer[sendTo] = "closed"
    /\ up' = FALSE
    /\ UNCHANGED <<bootVars, slotVars, lockVars, file, netVars, accVars,
                   thrVars, verified>>

-----------------------------------------------------------------------------

Client(c) == Connect(c) \/ PeerClose(c) \/ PeerRead(c)

Main == StartAccept \/ ClearValid \/ ClearLogin \/ ClearSock \/ SetCallback

AcceptThread == Register \/ SpawnFail \/ \E c \in Conns : Accept(c) \/ Spawn(c)

Receiver(c) ==
    \/ ReadSock(c) \/ RecvCall(c) \/ RecvData(c) \/ RecvEof(c) \/ CloseSlot(c)
    \/ HandleLogin(c) \/ HandleOther(c) \/ Refuse(c)
    \/ SendBegin(c) \/ SendEnd(c) \/ SigPipe(c)

Next == \/ Main \/ AcceptThread
        \/ \E c \in Conns : Client(c) \/ Receiver(c)

Spec == Init /\ [][Next]_vars

\* What the scheduler and the kernel owe: main and the accept thread run,
\* and every receive thread runs.  A client need not send, read or close.
Serving(c) ==
    \/ ReadSock(c) \/ RecvCall(c) \/ RecvEof(c) \/ CloseSlot(c)
    \/ HandleLogin(c) \/ HandleOther(c) \/ Refuse(c)
    \/ SendBegin(c) \/ SendEnd(c)

Fairness == /\ WF_vars(Main)
            /\ WF_vars(AcceptThread)
            /\ \A c \in Conns : WF_vars(Serving(c))

FairSpec == Spec /\ Fairness

-----------------------------------------------------------------------------
(* Correctness.                                                            *)

\* Every variable has its type.
TypeOK ==
    /\ up \in BOOLEAN
    /\ boot \in {"listen", "valid", "login", "sock", "callback", "ready"}
    /\ k \in Slot
    /\ b_valid \in [Slot -> BOOLEAN]
    /\ b_login \in [Slot -> BOOLEAN]
    /\ sock \in [Slot -> {-1, 0} \union Fds]
    /\ mutex \in Conns \union {None} /\ sendTo \in Conns \union {None}
    /\ file \in [Fds -> Conns \union {None}]
    /\ backlog \subseteq Conns
    /\ peer \in [Conns -> {"absent", "up", "closed"}]
    /\ unread \in [Conns -> Nat]
    /\ sent \in 0 .. MaxSend
    /\ accPc \in {"accept", "register", "spawn"}
    /\ accConn \in Conns \union {None}
    /\ accFd \in {0} \union Fds
    /\ accSlot \in Slot
    /\ pc \in [Conns -> {"none", "top", "call", "recv", "pdu", "reply",
                         "send", "fail", "done"}]
    /\ slotOf \in [Conns -> Slot]
    /\ rfd \in [Conns -> {-1, 0} \union Fds]
    /\ src \in [Conns -> Conns \union {None}]
    /\ cached \in [Conns -> BOOLEAN]
    /\ buf \in [Conns -> Seq(Requests)]
    /\ verified \in [Conns -> BOOLEAN]

\* "Only one logged-in connection may exist" (client_manager.c:11): never two
\* logged-in slots, and a logged-in slot is valid.
AtMostOneLogin ==
    /\ ~(b_login[0] /\ b_login[1])
    /\ \A s \in Slot : b_login[s] => b_valid[s]

\* The login gate of process_protocol_pdu: no command is carried out, and no
\* slot is logged in, before some client's right password was processed.
PasswordFirst ==
    (\E c \in Conns : cached[c]) \/ (\E s \in Slot : b_login[s])
        => \E c \in Conns : verified[c]

\* The descriptor in a slot is open and in no other slot, and the one the
\* accept thread has not registered yet is in none (while threads can be made).
SocketsOwned ==
    SpawnMayFail = FALSE =>
      /\ \A s \in Slot : sock[s] > 0 => Open(sock[s])
      /\ sock[0] > 0 => sock[0] # sock[1]
      /\ accPc = "register" => \A s \in Slot : sock[s] # accFd

\* A valid slot has a thread that will notice when its client goes away: a
\* live receive thread, or one the accept thread is about to create.
OccupantServed ==
    SpawnMayFail = FALSE =>
      \A s \in Slot : b_valid[s] =>
        \/ accPc = "spawn" /\ accSlot = s
        \/ \E c \in Conns : slotOf[c] = s /\ pc[c] \notin {"none", "done"}

\* A session does not outlive its threads, threads that could not be made and the
\* stores of client_manager_init included: with no thread to close it, a slot that
\* stayed logged in would be a session nobody is in, until another client logs in.
SessionServed ==
    \A s \in Slot : b_login[s] =>
        \E c \in Conns : slotOf[c] = s /\ pc[c] \notin {"none", "done"}

\* While a reply is on its way, nobody changes the slot it is sent through:
\* the sender holds the mutex, and the slot still leads to the same client.
SlotHeldDuringSend ==
    SpawnMayFail = FALSE =>
      \A c \in Conns : pc[c] = "send" =>
        /\ mutex = c
        /\ b_valid[slotOf[c]]
        /\ Open(sock[slotOf[c]])
        /\ file[sock[slotOf[c]]] = sendTo

\* The client a slot leads to.
Occupant(s) == IF Open(sock[s]) THEN file[sock[s]] ELSE None

\* A session keeps its client: as long as a slot stays logged in, it leads to
\* the connection it led to when it was marked.
SessionSticky ==
    [][SpawnMayFail = FALSE =>
        \A s \in Slot : b_login[s] /\ b_login'[s] =>
            Occupant(s)' = Occupant(s)]_vars

\* A slot forgets an open descriptor, which nobody will close then, in two ways
\* only: a new connection takes the slot over while nobody is logged in to it, or
\* client_manager_init runs over it.  No session's descriptor is lost, and no login
\* and no end of a thread loses one.
ForgottenOnlyByTakeover ==
    [][\A s \in Slot :
        Open(sock[s]) /\ sock'[s] # sock[s] /\ file'[sock[s]] = file[sock[s]] =>
            \/ accPc = "register" /\ s = NewSlot /\ ~b_login[s]
            \/ boot = "sock" /\ s = k]_vars

\* The slot that is logged in.
Session == IF b_login[0] THEN 0 ELSE IF b_login[1] THEN 1 ELSE None

\* The threads in a batch that was entered with b_login.
Entitled == {c \in Conns : cached[c]}

\* The gate that UploadSessions builds on (SessionGate): only the thread of a
\* slot gives it the session or takes it, and a thread gets the rights of a
\* session only from its own slot, at the start of a batch, and loses them only
\* at the end of the batch.
Gate == INSTANCE SessionGate WITH
            Threads <- Conns, Slots <- Slot, session <- Session, entitled <- Entitled

GateKept == Gate!Spec

\* A reply waits, under the mutex, for a client that is connected and does not read.
Blocked == mutex # None /\ peer[sendTo] = "up" /\ unread[sendTo] = SndBuf

\* A client in the listen queue gets its receive thread in the end, if the
\* process lives, descriptors suffice and threads can be made, unless one client
\* never reads its replies again: nothing else keeps the mutex for ever.
BacklogServed ==
    \/ <>[]Blocked
    \/ \A c \in Conns : c \in backlog ~> pc[c] # "none" \/ ~up

\* When every client has gone, the threads end and the slots are empty.
Drain ==
    <>[](\A c \in Conns : peer[c] # "up")
        => <>[](~up \/ /\ backlog = {}
                       /\ \A s \in Slot : ~b_valid[s]
                       /\ \A c \in Conns : pc[c] \in {"none", "done"})

-----------------------------------------------------------------------------
(* What a comment of the code says, and a run refutes.                     *)

\* network_share.h:16, "b_login: whether the client has been verified": a
\* command is carried out only for a client whose password was processed.
OnlyVerifiedServed ==
    \A c \in Conns : pc[c] = "pdu" /\ Served(c)
                        => verified[Current(c).from]
=============================================================================
