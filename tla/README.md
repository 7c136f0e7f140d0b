# Formal model of ccc_upgrade

`ccc_upgrade` is the upgrade daemon of a conference controller: a client on the
network finds the device by UDP, logs in by TCP, uploads files, runs a script
and reboots the device.  This directory holds TLA+ modules of its core, the TLC
configurations that check them, and TLAPS proofs about the modules.  All paths below are under `src/ccc_upgrade/src/` unless they start with `src/`.

    tlasany M.tla; tlc -workers 2 -config X.cfg M
    for m in *_proofs.tla; do tlapm $m; done

`PROJECT.json` lists the runs, which definition models which lines, the findings,
the hazards and the theorems.

## 1. Inventory

One process, started by `main/main.c` as a daemon.  `main/ccc_upgrade.c` joins the
parts: `protocol_adapter_init`, then `tcp_server_start`, then `udp_server_start`,
which never returns.  So these threads run:

| thread | code | does |
|---|---|---|
| main, later UDP | `network_manager.c`, `udp_server.c` | starts the accept thread, resets the slots, then reads datagrams for ever |
| accept | `tcp_socket.c` thread_func_accept_client | accepts, registers the connection in a slot, starts its receive thread |
| receive, one per accepted connection | `client_manager.c` thread_func_client_pad_or_0 | recv, parse, carry out requests, reply; at end of stream closes its slot |

| component | state | operations | correct when |
|---|---|---|---|
| Client manager (`network/client_manager.c`) | two slots `l_connect_info` (`b_valid`, `b_login`, `sock`), one mutex, the callback | init, reg, login, send, close | one session at most; a descriptor has one owner; every valid slot has a thread; a session keeps its client; a reply goes to the client in the slot; nobody is starved by the mutex |
| TCP server, sockets (`tcp_socket.c`), threads (`thread_wrapper.c`) | listen queue, descriptor table | accept, recv, blocking send, close, thread_create | accepted connections are served or closed |
| Login gate and dispatch (`protocol_adapter.c`) | none of its own; `b_login` passed along a batch | process_data, process_protocol_pdu, login, E2 and E3 commands, discover | no command without a password |
| Packet pool (`packet_pool/`) | ring of nodes, head, tail, two counters, a mutex | get, set, trim | a packet has one owner; FIFO; at most 128 idle |
| Protocol core (`protocol/protocol_core.c`) | none | create_protocol_packet, parse_packet2 | parsing undoes creation, for every packet; a stream of packets cut anywhere comes out unchanged and in order; damage is noticed |
| File upload (`file_manager/`) | the single `l_upload_current`; stdio streams; the disk | open, write, finish, execute script | an upload answered with OK is on the disk and stays there; a session reaches the file it opened; OK for a script means it ran |
| MD5 (`md5sum.c`) | a 16 KB buffer, the words of the digest | sum of a file, in the pieces fread returns | equals MD5 |
| UDP server (`udp_server.c`, `udp_socket.c`) | one socket, one global peer address | recvfrom loop, sendto | the reply goes to the sender, and names every running interface |
| Configuration (`configure.c`) | upgrade directory | check_login, load | a daemon without it does not start |
| Utilities, log (`utils/`) | none | bytes, paths, mkdir, system() | |

How they interact: a receive thread calls `callback_by_network_manager`, which
calls `protocol_adapter_process_data`; that takes a packet from the pool, parses
the buffer in a loop and carries out each request, calling the file manager and,
for the reply, the pool and `client_manager_send`, which takes the client
manager's mutex and sends while it holds it.  The connection is named by its slot
INDEX everywhere above `client_manager.c`.  The UDP loop uses the same pool and
the same dispatch without a session.

What is hard here: receive threads read `sock` and `b_login` of their slot without
the mutex and use them later; slots change hands under threads that know only the
index; descriptors are used again by the kernel; send blocks while the mutex is
held; the accept thread is running while `client_manager_init` resets the slots;
`b_login` is read once per batch; TCP cuts packets anywhere; stdio reports write
errors late; `l_upload_current` has no lock, outlives sessions and is not reset completely;
`exit` in the signal handlers writes out every stream the process ever forgot; the
sender of a datagram is one global variable; replies fail half way through the
interfaces.
`PROJECT.json` lists these hazards at their lines.

## 2. Modules

| module | models | checked by |
|---|---|---|
| `ClientManager` | client manager, accept thread, receive threads, start-up race, login gate | `MCClientManager` with four cfgs |
| `SessionGate` | abstract: who may carry out commands, and when | as PROPERTY of `ClientManager`, proved; instantiated by `UploadSessions` |
| `ClientManager_proofs` | types, one session, password first; descriptors, threads behind slots, replies, sessions keep their client; the gate of `SessionGate` | TLAPS |
| `IdlePool` | abstract: a bounded FIFO pool | as PROPERTY of `Daemon`, proved of `PacketPool` |
| `PacketPool` | the ring and its users | `MCPacketPool`, and as part of `Daemon` |
| `PacketPool_proofs` | the list stays a ring, a packet has one owner, the ring is the queue of `IdlePool` | TLAPS |
| `Daemon` (extends `PacketPool`) | start-up, the UDP loop, discover | `MCDaemon` |
| `Daemon_proofs` | whom the replies go to, which interfaces are tried; the pool in the daemon, the packets lost | TLAPS |
| `ProtocolCore` | packet format: checksum, create, parse, as functions on bytes | through `FrameReader` |
| `PduChannel` | abstract: packets arrive unchanged, in order, each at most once | as PROPERTY of `FrameReader`, proved |
| `FrameReader` | the receive loop's buffer and the parse loop | `MCFrameReader` |
| `FrameReader_proofs` | parsing any buffer, a created or a damaged packet; when main_buf overruns, delivery in order and at once, for all commands and data and every cut | TLAPS |
| `UploadFile` | file_manager and upload_file with stdio | `MCUploadFile`, and as part of `UpgradeServer` |
| `UploadFile_proofs` | the record stays usable, OK and stored agree | TLAPS |
| `UpgradeServer` (extends `UploadFile`) | every command of E1, E2, E3; the ends of the process | `MCUpgradeServer` |
| `UpgradeServer_proofs` | the same under every command, and what stays of a file | TLAPS |
| `UploadSessions` (on `SessionGate`) | the unlocked `l_upload_current` under several threads, call by call | `MCUploadSessions` |
| `UploadSessions_proofs` | sessions stay apart while only the thread that logged in last carries out commands | TLAPS |
| `WordBytes`, `Words32` | 32-bit words: their bytes, their arithmetic | as part of the next |
| `Rfc1321Padding`, `Rfc1321` | the padding; MD5 written down from its definition | as the reference of `Md5Sum` |
| `Md5Block` | md5()'s table and what it makes of one block | `MCMd5Sum` |
| `Md5Sum` | sum() and the rest of md5(), whatever it makes of a block | `MCMd5Sum` |
| `Md5Sum_proofs` | the digest does not depend on the pieces, the padding fits | TLAPS |

What the parts assume of each other: `UpgradeServer` lets one client at a time give
commands, one after the other.  `ClientManager` shows that one slot at a time is a
session, and that it implements `SessionGate`; `UploadSessions` takes its sessions from
that module and shows how far they carry, for the record behind the commands is not
locked.  `UploadFile` compares contents where the code compares
MD5s; `Md5Sum` shows that the code's MD5 is MD5.

### ClientManager

State: `b_valid`, `b_login`, `sock` are the slots; `mutex` is held between steps
only by a thread inside send(2), so it is that thread or None, and the short
critical sections are single steps guarded by `CanLock`; `file` is the descriptor
table (which connection is behind a descriptor; `LowestFree` is the kernel's rule,
so closed descriptors come back at once); `boot`, `k` are main's place in
`tcp_server_start` and `client_manager_init`; `acc*` the accept thread's locals;
`pc`, `slotOf`, `rfd`, `src`, `cached`, `buf` the receive threads' locals.  A
receive thread is named by the connection it was created for, which need not be
the one it reads from: `ReadSock` fetches the number, `RecvCall` lets the kernel
resolve it, and only then is `src` fixed.  `RecvData` delivers a batch of one or
more requests and reads `b_login` once, as `output_client_recv_data`'s argument is
read.  `HandleLogin` is `client_manager_login` with `internal_client_manager_login`
and `_close`.  `SendBegin` and `SendEnd` are the two ends of a blocking send under
the mutex.  `SigPipe` ends the process, `SpawnFail` is a failing pthread_create
(with the detach of an id that was never written: no effect, or the end).

`SessionGate` is what the commands behind the gate see of all this: which slot is
logged in, the slot of each thread, and the threads that are entitled, that is, in a
batch entered with `b_login`.  The mapping is `Session` (the slot with `b_login`) and
`Entitled` (`cached`).  The gate leaves open what the code leaves open: a slot that was
taken over has two threads, either of which gets the rights of its session, and rights
last to the end of the batch even if the session ends before.

Requests are three kinds: right password, wrong password, a command.  Discover
over TCP changes no state (its reply goes to udp_sendto with a slot index for an
address) and is left out.

### PacketPool and Daemon

`ring` has the list header's fields and the nodes; `NodeInsert`, `NodeDelete`,
`GetFromHead`, `SaveFromTail`, `TrimTo` are the internal functions, from ring to
ring.  `Get` and `Set` are the public operations (one step each: they run under
the pool's mutex), called by threads that hold at most two packets, the request's
and the reply's.  `Forget` is the early return of
`protocol_adapter_process_udp_data`.

`Daemon` is the main thread, `main` being its place.  It starts the parts in the
code's order (`LoadConfigure` to `BindUdp`; `StartFails` ends the process, threads
that already run included) and then takes one datagram after the other: any sender,
any kind, so that lost, doubled and reordered datagrams are all there.  `Receive`
stores the sender in `l_remote`; `TakePacket` to `GivePacket` are
`protocol_adapter_process_udp_data` with discover's loop over `ifList`
(`SkipInterface`, `TakeReply`, `SendReply`, `ReplyDone`).  Every malloc and every
send may fail.  `LoginByUdp` is an E1 by datagram: the reply is made and thrown away.
`NoBuffer` and `NoAddress` are the two null pointers the code reads: the process
ends.  After `StartAccept`, `ThreadStep` lets receive threads use the same pool.
`lost` remembers the packets that will not come back: those of incomplete datagrams,
and those given back when there was no memory for a ring node.

### ProtocolCore and FrameReader

`Parse` returns how many bytes parse_packet2 used and the PDU it found, with the
cases in the code's order.  `FrameReader` lets recv return any number of bytes,
runs the parse loop one turn per step, and keeps the rest as memmove does.
`Receive` may also keep what came without a look at it (`skipped`): the callback is
not set before main is through with `client_manager_init`, and `process_data` returns
at once when the pool has no packet.  `Overrun` is the memcpy that runs past the end of
main_buf; nothing is said of the thread afterwards.

Assumed (`ReaderAssumption`): a client keeps to the protocol, that is, it sends packets
that create_protocol_packet can make, with stray bytes before them that are no header
bytes (`Gaps`); no packet is the one without command and data, for which parse_packet2
reports nothing; and data is not longer than `RecvMax`, which stands for
PROTO_DATA_LEN_MAX and for RECV_DATA_BUFFER, both 4096.  A packet may be longer than
what one recv returns, by its 9 bytes around the data.

### UploadFile

A command of a session is one step.  `disk` is what files hold, `streams` the FILE
objects with the one write stdio may still have in its buffer, `cur` the record
`l_upload_current` (`live`: its names are not freed; `filename` and `filename_tx`
come and go together).  `client` remembers what the session was told: the file it
opened and the data acknowledged.  Flushing happens in fseek and fclose and may
fail in either; a failed fwrite may have written.  An MD5 is modelled as the content
it is made from, so comparing MD5s is comparing contents; a file that cannot be read
back is a failed check.

### UpgradeServer

One action per command and outcome, in the order of process_protocol_pdu: E1 before
the gate, E2 and E3 behind it (`Gate`).  `login` has three values because `b_login`
is read once per batch: a right password counts from the next batch on.  The upload
commands are `UploadFile`'s with what protocol_adapter.c puts around them: refusals
for titles and lengths, and an answer that may be lost (`Answer`: no packet, or no
connection).  `ScriptResults` are the codes file_execute_script may return; whether
the script really ran is `ran`.  `Busy` is the kernel's ETXTBSY.

The process may end in two ways.  `Killed` (a signal without handler, SIGPIPE, the
reboot) drops what stdio holds.  `Exit` (the handlers for SIGINT and SIGSEGV call
exit) writes it out, in any order, also for streams that a second 02 made
`l_upload_current` forget.  Both are followed by a fresh process on the same disk.

History: `verified[n]` is the MD5 last answered with OK for file n, until it is
opened again; `forgotten` the streams a 02 has replaced; `spoiled` the files an exit
has written from such a stream.

### UploadSessions

Here the grain is a single store or call of upload_file.c and file_manager.c: a 02
opens, stores the name, stores the handle; a 03 gets the handle and writes; a 04
gets the handle, closes, gets the path, computes the MD5, frees, clears.  Between
any two of them another thread may step.  `session`, `slotOf` and `entitled` are
`SessionGate`'s, and `Started`, `Login`, `BatchBegins`, `BatchEnds` and `Disconnect` are
its steps; `owner` is the thread that logged in last.  Two things let another thread
at the record: a `Login` ends the session of the other slot but not a batch of its
threads, and a slot that was taken over has two threads.  `intruded` becomes true when
such a thread carries out a command.  Data and disk are left to `UploadFile`; a FILE and a name
are identities that are open and allocated, or not.  Clients keep to the protocol:
a 03 or 04 follows a 02 of the same session that was answered with OK.

### Md5Sum, Md5Block, Rfc1321

`Read` is a turn of sum()'s loop with fread returning any of `Pieces` or all the rest;
`Fed` is md5() on whole blocks, `Completed` and `Ended` its last call, in which the
padding is written behind the data in the same buffer.  A state that has counted
nothing stands for the nil pointer: md5() makes one then, and is never given an empty
piece before the last.  `noMemory` marks a failed calloc, after which the code goes on
with a wrong digest or none.  A file has less than 4 GB, so that the 32-bit count does
not wrap.

What md5() makes of one block of 64 bytes is the parameter `Transform` of `Md5Sum`,
because nothing in sum() depends on it, and because its bit operations keep a module
out of the prover's reach.  `Md5Block` has the code's, with its table and its switch, and
`Md5Sum.cfg` puts it in the parameter's place.  `Rfc1321` is MD5 written from the RFC,
with other means: the message padded as one sequence (`Rfc1321Padding`), the words and
rotations by formula.  Both share `Words32`: a word is a pair of 16-bit halves, as TLC's
integers have 32 bits with sign; addition carries between the halves.  The table of
sines is one and the same, and RfcSuite is what it is checked by.

## 3. Runs

| run | instance | shows |
|---|---|---|
| `cm_sessions` | 3 clients, 3 descriptors, 3 requests, started daemon | AtMostOneLogin, SocketsOwned, OccupantServed, SlotHeldDuringSend, SessionSticky, GateKept |
| `cm_startup` | 2 clients, from process start, threads may fail | TypeOK, AtMostOneLogin, PasswordFirst, SessionServed, ForgottenOnlyByTakeover |
| `cm_live` | 2 clients, fair threads | BacklogServed, Drain |
| `cm_verified` | violation | `b_login` marks a slot, not a client (network_share.h:16) |
| `daemon` | 5 packets, 4 nodes, limit 3, 2 threads and the main one, 2 peers | TypeOK, RingShape, OwnedOnce, PacketsAccounted, RepliesToAsker, EveryInterfaceTried, IdleSpec |
| `pool_forgotten` | violation | a packet of an incomplete datagram is lost (packet_pool.c:15) |
| `framing` | up to 3 packets of 9, 11 and 12 bytes with gaps, recv of up to 10 | OverrunOnlyByLong, Prompt, DamageNoticed, InOrder, AllServed |
| `upgrade` | 2 files of one block, 3 streams, restarts | TypeOK, CurrentUsable, OkMeansStored, StoredMeansOk, VerifiedStays, VerifiedRunnable |
| `script_ok` | violation | OK and 0 although no script ran (file_manager.c:143) |
| `upload_cleared` | violation | a second 04 uses freed names (upload_file.c:75) |
| `sessions` | 2 threads, 2 slots, 3 uploads | DefinedInTime, OwnFileOnly, OwnFileChecked |
| `md5` | 16 files, three sizes of pieces | SumOfWhole, SumIsMd5, RfcSuite, PaddingFits |

Bounds.

* Client manager.  Three clients are one more than there are slots: one in each slot
  and one that takes a slot over; a fourth repeats the third.  The requests bound is
  shared by all clients, so three suffice for login, command and a second login in
  one behaviour.  `cm_startup` needs only two clients, for init can disturb two
  slots.  Descriptors suffice for every client to be connected at once; that they
  run out is not explored.  `SndBuf = 1` makes send block at the second unread reply.
* Pool and daemon.  Four nodes and a limit of three make the ring grow, wrap, fill up
  and be trimmed; 128 is the same code with more of it.  Five packets are one more
  than three users can hold while the pool is at its limit.  One list of interfaces
  has every kind but the one without an address, a running interface before and
  after those that are passed over; the other one has the interface without an address.
* Framing.  Three packets give one in the middle, and every cut of the byte stream is
  tried.  With `RecvMax` 10 the packets are shorter than a full recv, one byte longer,
  the most that main_buf always has room for, and two bytes longer, which it has not.
* Upload.  Two files of one block, which later uploads write over;
  three streams are one forgotten for each file and the current one.  Larger blocks,
  with holes and appended data, are covered by `UploadFile_proofs` and
  `UpgradeServer_proofs` for every size.
* Sessions.  With three uploads a thread can abandon one and finish one while the other
  thread has one; two slots let the threads share one or not, and threads start again.
  The proofs hold for any number of both.
* MD5.  `ReadCap` is 128 in place of 8192: both are multiples of 64 and the code's
  conditions compare with that bound only.  The lengths lie around 0, 55, 56, 63,
  64 and 128, and one file needs the buffer to be fed more than once; pieces of 9, 55
  and 64 bytes leave every kind of rest in the buffer.

Deadlock checking is off: clients are finite in number, requests, uploads, files are
bounded and processes may end, so the models stop; that threads do not stop each
other is `cm_live`'s matter.

Fairness (`cm_live`).  Weak fairness of main, of the accept thread and of each
receive thread: pthreads on a preemptive scheduler.  Clients owe nothing: they need not
connect, send, read or close.  A connected client that never reads its replies again
makes send block for ever while it holds the mutex, and then nobody is served.
BacklogServed names this case (`<>[]Blocked`) as the only exception: without it the
property is false (a client sends two logins and reads nothing while another one
waits), and any other way of keeping the mutex is a violation.  pthread mutexes give no
order, but a thread that waits for this one competes only with steps that are
bounded by the clients' requests, so weak fairness is enough.  `FrameReader` has weak
fairness of its thread and of TCP's delivery.  The other modules state none: a daemon
may wait for datagrams or commands for ever.

## 4. Proofs

### ClientManager_proofs

For every set of clients, every number of descriptors and every bound, from
`ConnsAssumption` and `BoundsAssumption` alone:

* `Typing`, `TypeCorrect`: TypeOK.  It is not inductive: `Head(buf[c])` needs a
  non-empty buffer and `src[c]` a connection where the program counter says so;
  `ThreadInv` adds that.
* `SessionsSafe`, `OneSession`: AtMostOneLogin.  A slot is marked only after the
  other one was closed in the same critical section; but main resets `b_valid`
  before `b_login` without the mutex.  `BootInv` adds what saves it: before the
  callback is set no thread is in a request, hence no slot is logged in while init
  runs over it.
* `PasswordBeforeSession`: no slot is logged in, and no thread has a session's
  rights, before a right password was processed.
* `ImplementsGate`: GateKept, the refinement of `SessionGate`, step by step: a start of a
  thread, the start and the end of a batch (`RecvDataGate`, `NextRequestRights`), a login
  (`LoginGate`) and the end of a thread (`CloseGate`) are the gate's steps, and every
  other step, init's stores included, leaves session, slots and rights alone
  (`GateStep`).  It needs AtMostOneLogin, for the session is read off two flags, BootInv,
  `FreshInv` (below) and `RightsInv`, that a thread outside a batch has no rights.

* `SessionsServed`: SessionServed, from process start and whether or not threads can be
  made.  A slot is marked by one of its own threads only (`LoginOrigin`), and a thread
  that ends takes the session of its slot with it; `FreshInv` keeps a thread that is
  started from being one that runs.
* `DescriptorsForgotten`: ForgottenOnlyByTakeover, an action property.  Closing a slot
  closes the descriptor it gives up (`CloseForgetsNothing`), and AtMostOneLogin keeps the
  slot that a new connection takes from being a session's.

In a process that can always make threads (`SpawnMayFail = FALSE`, stated inside the
properties):

* `DescriptorsOwned`: slots hold open and distinct descriptors (`OwnInv`, which adds
  that a descriptor just accepted is open).
* `SlotsServed`: every valid slot has a live thread (`ServedInv`, with `FreshInv`: a
  connection on its way through the listen queue has no thread yet, so that the
  thread started for it is a new one).
* `SendersHoldSlot`: from `OwnInv`, the mutex (`SendInv`) and `BootInv`, for init
  stores into the slots without the mutex.
* `SessionsKeepClient`: an action property from `OwnInv` and `SessionInv`.

### UploadFile_proofs, UpgradeServer_proofs

For all files, data, size bounds and numbers of streams, from `UploadAssumption` and
`ServerAssumption`:

* `Typing`, `TypeCorrect`, `RecordUsable`: TypeOK and CurrentUsable.  `StreamInv` says
  that stdio keeps at most one write and that an open stream's file exists, which
  makes a flush stay within the bound (`PutContents`, `FlushedFile`); `RecordInv` adds
  that a live name goes with a handle and that the session's file is the record's.
* `AnswerSound`: OkMeansStored is inductive as it stands, for the check reads the
  disk that fclose left and no command writes before the answer is sent.
* `AnswerFair`: StoredMeansOk needs `Faithful`: without an I/O error, the file with
  its pending write put in is the data acknowledged (`FaithfulStep`, `AnswerComplete`).

`CommandSteps` shows that a command of the daemon is a step of `UploadFile`'s Next or
leaves its variables alone, unless the process ends; the step lemmas above are used
again, and only `Killed` and `Exit` are new.  So `ServerTypeCorrect`,
`ServerRecordUsable`, `ServerAnswerSound` and `ServerAnswerFair` hold over restarts.
`StaysVerified` and `RunsVerified` need two parts more: `StreamsKnown`, every open
stream is the record's or a forgotten one, and `Unsettled`, the file the record has
open is not one that was answered with OK.  A write then reaches a verified file
only from a forgotten stream, and only exit flushes those.

### UploadSessions_proofs

For any threads, slots and uploads: `Defined`, `OwnWrites`, `OwnCheck`.  The argument is
that while `intruded` is false only the owner takes steps on the record, so `InPlace`
says for each place in the commands what the record and the thread's local variable
hold.  A thread that logs in finds whatever the last one left and may not rely on it,
hence `mine[t] = Null` until its first 02.  `Compared` is about a thread that has left
its MD5 check behind and need not be the owner any more.  The sessions are those of
`SessionGate`, and `ImplementsGate` is why the client manager's are no others.

### PacketPool_proofs

For any users, packets, nodes and any limit, from `PoolAssumption`.  The model's ring is
pointers, as the code's is; the proofs add the order `o` in which the nodes stand from
head (`Ordered`: next leads from `o[i]` to `o[i + 1]` and from the last to the first,
the first `pkt_count` nodes hold the packets, tail is the last of these).  For each
internal function a lemma says how that order and the queue of packets change
(`InsertOrdered`, `SaveOrdered`, `GetOrdered`, `DeleteOrdered`, `TrimOrdered`), and
`SetOrdered` puts them together as packet_pool_set does.

* `PoolInvariant`: `PoolInv`, the inductive invariant: the ring is `Ordered` in some way
  within its limit, and every packet is in at most one place, a node or a user's hands.
  OwnedOnce alone is not inductive: where the next packet goes, and that the node has
  none, depends on the pointers.
* `OneOwner`, `PoolTypes`: OwnedOnce and TypeOK follow.
* `RingIsShaped`: RingShape follows as well.  It follows pointers from head by the
  recursive function `NodeAt`; that this function has a value, and which, is shown by
  induction (`AtSteps`, `AtOrder`).
* `PoolIsQueue`: `Spec => IdleSpec`, the refinement of `IdlePool`.  The refinement mapping
  reads the packets off the ring (`ReadOff`: it is the queue of the order), a `Get` takes
  its oldest one or finds it empty (`GetRefines`), a `Set` appends and drops the oldest
  beyond the limit, or loses its packet and changes nothing (`SetRefines`).

### Daemon_proofs

For any packets, peers and lists of interfaces: `AskerAnswered` from `Answering` (while
a datagram is worked on, the global peer is its sender) and `InterfacesTried` from
`Looping` (tried so far are the running interfaces before the one the loop is at).
Neither needs the pool's state.

`DaemonUsesPool`: a step of the daemon is a step of the pool or leaves the pool alone.
So every theorem about the pool holds in the daemon, with main and the receive threads
as its users: `DaemonPoolTypes`, `DaemonRing`, `DaemonOneOwner`, `DaemonQueue`.
`NoOtherLoss`: PacketsAccounted, which needs `PoolInv` (a packet given back may push
another one out of the ring, and that one is freed, not lost).

### FrameReader_proofs

For every command, all data up to `RecvMax` (in the lemmas about packets: shorter than
65536 bytes), any number of packets, any stray bytes between them and any way of cutting
the stream.

* `ParseInBounds`: for any buffer, parse_packet2 uses no more than there is, makes a PDU
  only of bytes it uses, and a turn that makes one uses some; so recvLen never gets
  negative and the loop ends.
* `ParsePacket`: for a buffer that holds stray bytes (none of them a header), then what
  create_protocol_packet made, or the beginning of it, and then anything: a complete
  packet is used exactly and gives back its command and data, an incomplete one is left
  where it is, and the stray bytes go.  The packet is gone through byte by byte
  (`LengthBytes`, `PacketBytes`, `HeaderFound`).  `ParseStray`, `ParseShort`, `ParseWaits`
  give the other cases.
* `DamageRefused`: a packet one byte of which was changed, in its command, its data or its
  checksum, is refused.  `ChecksumTells` carries the difference of one byte through the
  16-bit sum.  Of a changed length or header byte nothing like it is true for all data.
* `ReaderInvariant`: `ReaderInv` is inductive.  It places the packets in the stream
  (`Layout`): where each one starts, that what was taken off the stream ends in the gap or
  the packet that is next (`Reading`), and that main_buf and the wire are what is left of
  it.  `Waits` adds what is known when the thread waits and has looked at everything: the
  rest is shorter than the next packet.  OverrunOnlyByLong alone is not inductive, for
  that is known only when the parse loop has turned.  `StreamLayout` and `StreamPrefix` give
  the places from the fold that `Stream` is, by induction over the packets.
* `OverrunByLong`: OverrunOnlyByLong.  `DispatchedPromptly`: Prompt (`WaitsPromptly`: were
  the last byte of an undispatched packet there, the rest would be that long).
* `DeliversInOrder`: `Spec => InOrder`, the refinement of `PduChannel`: a turn of the parse
  loop delivers the next PDU or none (`EndsInOrder`), also after turns that were skipped.

### Md5Sum_proofs

For all files of less than 4 GB, pieces, buffers of whole blocks, and any `Transform`.
`SumInv` is inductive: without a failed calloc there are whole blocks (`Carried`) that the
state has counted and gone through, and with the bytes in buf behind them they are what
was read of the file.  SumOfWhole alone says nothing before the end.  Two lemmas carry it: `BlocksOfTwo`, md5() of two
pieces one after the other is md5() of both in a row when the first is whole blocks (by
induction over the blocks of each), and `PaddedInPlace`, the blocks fed so far and the
last piece as md5() pads and counts it are the file as the RFC pads it.

* `CutsDoNotMatter`: SumOfWhole.
* `PaddingRoom`: PaddingFits, from `Len(buf) < ReadCap` and what `PaddingOfPiece` says of
  the padding's length.

### Induction in these proofs

The recursive functions of the models (`NodeAt`, `Blocks`, the folds behind `Stream` and
`Checksum`) are reasoned about by induction over the naturals.  The library's theorem for
that takes an operator; `SetInduction` states it for a set instead (a set with 0 and the
successor of each of its members holds all naturals), and is proved from the well-founded
order of the naturals.  A fold or a recursive function is a CHOOSE, so each needs a proof
that its equation has a solution first (`AtSteps`, `FoldExists`, `SumExists`,
`ChainExists`).

### Checked only by TLC

* Liveness, BacklogServed and Drain in `cm_live` and AllServed in `framing`: weak fairness
  is out of the prover's reach.
* DamageNoticed: for every byte of a packet, the header and the length among them, it
  holds of the three requests of the run and not of all data (bytes behind a changed
  length may happen to be the checksum).  What holds for all is `DamageRefused`.
* SumIsMd5 and RfcSuite: they are about the bit operations of one block, which the
  provers have no theory for.

## 5. What the runs found

`cm_verified`, `pool_forgotten`, `upload_cleared` and `script_ok` show where the code
does not do what its comments say; `PROJECT.json` quotes both.  Beside these, of which
no comment speaks:

* `cm_startup` reaches states in which init's store of `sock = -1` falls into a slot
  that was registered a moment before: that slot stays valid without a socket until its
  thread ends, and its descriptor is never closed.
* `cm_startup` also reaches states in which a slot is valid without a thread, because
  pthread_create failed: it stays so until another connection takes it over or a login
  closes it, but it never is a session (SessionServed).
* The descriptor of a slot that was taken over while not logged in stays open with a
  thread behind it, and a later login does not close it.  This and init's store are the
  two exceptions ForgottenOnlyByTakeover makes; no others exist.  Nor does its own thread: it
  closes the descriptor the slot has by then.  When somebody logs in, that thread has the
  rights of the session; and a batch goes on after its session was closed by another login.
* With such an intruder, `UploadSessions` reaches states in which one session writes
  to the other's file or uses a FILE that is closed.
* `framing` reaches the overrun of main_buf with packets of the largest size that the
  protocol allows, and behind bytes that were not looked at; and a client whose request
  came before the callback was set waits for an answer until it sends something more.
* `daemon` reaches the end of the process by an interface without an address and by a
  packet whose buffer could not be allocated.
* `upgrade` needs the exception in VerifiedStays: an abandoned upload's last block is
  written by exit over a file that was uploaded again and answered with OK.

## 6. Not modelled

* E0 (discover) over TCP: its reply goes to udp_sendto with a slot index for an address.
* What a packet's buffer holds, but for its being missing (`NoBuffer`); the stale bytes
  a short 03's reply quotes change nothing the model tells apart.
* A packet's length of 2^31 and more, negative in an int: undefined from there on
  (`NegativeLength` names the case); what a thread does after main_buf has overrun; MD5's 32-bit count for files of 4 GB.
* Partial sends (tcp_send repeats them under the same mutex); socket options; a listen
  queue that is full; too few descriptors.
* failing callocs other than those named; what getifaddrs' list leaves unfreed.
* base64 in md5sum.c (enc64, dec64, init64): `hex` is 1 in the only call.
* Functions nobody calls: ccc_packet_save_data and the like, packet_pool_get,
  udp_close, close_configure.
* The wording of names and paths, mkdir's loop over a path's parts, the log.
* `src/ccc_upgrade/doc/` (an older server), `build/`, `lib/`, `bin/` and the copies
  under `src/ccc_upgrade/include/`.

## 7. What the plan has left

The modules planned are written, and the safety properties of the runs are proved but for
those section 4 names.  Open are the hazards of `PROJECT.json` that no property covers:
accept without a free descriptor, negative lengths, a failed calloc in md5(), and the
interface without an address.  The models say what happens there, or that it is undefined;
nothing in the code says what should.  Other hazards have a note: the code does go wrong
in the case it names, and the properties say that it does so in no other (a client that
never reads, the batch that outlives its session, the descriptor of a slot taken over, a
stream that was forgotten, a packet without a ring node, bytes not looked at).
