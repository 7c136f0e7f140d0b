----------------------- MODULE ClientManager_proofs -----------------------
(***************************************************************************)
(* Proofs about ClientManager, for every set of clients, every number of   *)
(* descriptors and every bound.  Type correctness comes first (it needs to *)
(* know that a thread at work has a request left); then the single session *)
(* and the login gate; then the ownership of descriptors, the threads      *)
(* behind the slots and the session that keeps its client, partly for a    *)
(* process that can always make threads; last, that SessionGate is         *)
(* implemented.                                                            *)
(***************************************************************************)
EXTENDS ClientManager, SequenceTheorems, TLAPS

\* A thread inside recv is attached to a connection; one at work on a batch
\* has a request left.
ThreadInv ==
    \A c \in Conns :
        /\ pc[c] = "recv" => src[c] \in Conns
        /\ pc[c] \in {"pdu", "reply", "send"} => buf[c] # <<>>

Typed == TypeOK /\ ThreadInv

-----------------------------------------------------------------------------
(* Type correctness.                                                       *)

\* A non-empty buffer: its head is a request and its tail is a buffer, not
\* empty if there was more than one.
LEMMA RestOfBuffer ==
    ASSUME NEW q \in Seq(Requests), q # <<>>
    PROVE  /\ Head(q) \in Requests
           /\ Tail(q) \in Seq(Requests)
           /\ Len(q) > 1 => Tail(q) # <<>>
<1>1. /\ Len(q) \in Nat /\ Len(q) # 0
      /\ Head(q) \in Requests /\ Tail(q) \in Seq(Requests)
      /\ Len(Tail(q)) = Len(q) - 1
  BY HeadTailProperties, EmptySeq, LenProperties
<1>2. Len(q) > 1 => Len(Tail(q)) # 0
  BY <1>1
<1> QED
  BY <1>1, <1>2, EmptySeq

\* What recv appends is a buffer again, and not an empty one.
LEMMA LongerBuffer ==
    ASSUME NEW q \in Seq(Requests), NEW n \in Nat, n >= 1, NEW x \in Conns,
           NEW batch \in [1 .. n -> Kinds],
           NEW r, r = q \o [i \in 1 .. n |-> [from |-> x, kind |-> batch[i]]]
    PROVE  r \in Seq(Requests) /\ r # <<>>
<1> DEFINE e == [i \in 1 .. n |-> [from |-> x, kind |-> batch[i]]]
<1>1. e \in [1 .. n -> Requests]
  BY DEF Requests
<1>2. e \in Seq(Requests) /\ Len(e) = n
  BY <1>1, SeqDef, LenProperties
<1>3. r \in Seq(Requests) /\ Len(r) = Len(q) + n
  BY <1>2, ConcatProperties
<1>4. Len(q) \in Nat
  BY LenProperties
<1>5. Len(r) # 0
  BY <1>3, <1>4
<1> QED
  <2> HIDE DEF e
  <2> QED BY <1>3, <1>5, EmptySeq

\* Going on to the next request keeps the types and the thread invariant.
LEMMA NextRequestTyped ==
    ASSUME Typed, NEW c \in Conns, NextRequest(c),
           pc[c] \in {"pdu", "reply", "send"}
    PROVE  /\ buf' \in [Conns -> Seq(Requests)]
           /\ cached' \in [Conns -> BOOLEAN]
           /\ pc' \in [Conns -> {"none", "top", "call", "recv", "pdu", "reply",
                                 "send", "fail", "done"}]
           /\ \A d \in Conns : d # c => pc'[d] = pc[d] /\ buf'[d] = buf[d]
           /\ pc'[c] = "pdu" => buf'[c] # <<>>
           /\ pc'[c] \in {"pdu", "top"}
<1>1. buf[c] \in Seq(Requests) /\ buf[c] # <<>>
  BY DEF Typed, TypeOK, ThreadInv
<1>2. Tail(buf[c]) \in Seq(Requests) /\ (Len(buf[c]) > 1 => Tail(buf[c]) # <<>>)
  BY <1>1, RestOfBuffer
<1> DEFINE t == Tail(buf[c])
<1>3. buf' = [buf EXCEPT ![c] = t] /\ t \in Seq(Requests)
  BY <1>2 DEF NextRequest
<1>4. buf \in [Conns -> Seq(Requests)]
  BY DEF Typed, TypeOK
<1>5. buf' \in [Conns -> Seq(Requests)] /\ buf'[c] = t
      /\ \A d \in Conns : d # c => buf'[d] = buf[d]
  <2> HIDE DEF t
  <2> QED BY <1>3, <1>4
<1>6. CASE Len(buf[c]) > 1
  BY <1>2, <1>5, <1>6 DEF NextRequest, Typed, TypeOK
<1>7. CASE ~(Len(buf[c]) > 1)
  BY <1>5, <1>7, ZenonT(40) DEF NextRequest, Typed, TypeOK
<1> QED
  BY <1>6, <1>7

\* The initial states are typed.
LEMMA InitTyped == Init => Typed
<1> SUFFICES ASSUME Init PROVE Typed
  OBVIOUS
<1>1. <<>> \in Seq(Requests)
  BY EmptySeq
<1>2. buf \in [Conns -> Seq(Requests)]
  BY <1>1 DEF Init, NobodyYet
<1> QED
  BY <1>2, ConnsAssumption, BoundsAssumption
     DEF Init, NobodyYet, Typed, TypeOK, ThreadInv, Slot, Fds

\* Closing a slot under the mutex keeps the types of what it writes.
LEMMA InternalCloseTyped ==
    ASSUME TypeOK, NEW s \in Slot, NEW S, InternalClose(s, S)
    PROVE  /\ b_valid' \in [Slot -> BOOLEAN]
           /\ b_login' \in [Slot -> BOOLEAN]
           /\ sock' \in [Slot -> {-1, 0} \union Fds]
           /\ file' \in [Fds -> Conns \union {None}]
<1>1. file' \in [Fds -> Conns \union {None}]
  BY DEF InternalClose, CloseFd, TypeOK
<1> QED
  BY <1>1 DEF InternalClose, TypeOK

LEMMA MainTyped == Typed /\ Main => Typed'
<1> USE DEF Typed, TypeOK, ThreadInv, slotVars, lockVars, netVars, accVars,
            thrVars
<1>1. ASSUME Typed, StartAccept PROVE Typed'
  BY <1>1 DEF StartAccept
<1>2. ASSUME Typed, ClearValid PROVE Typed'
  BY <1>2 DEF ClearValid
<1>3. ASSUME Typed, ClearLogin PROVE Typed'
  BY <1>3 DEF ClearLogin
<1>4. ASSUME Typed, ClearSock PROVE Typed'
  BY <1>4 DEF ClearSock, Slot
<1>5. ASSUME Typed, SetCallback PROVE Typed'
  BY <1>5 DEF SetCallback
<1> QED
  BY <1>1, <1>2, <1>3, <1>4, <1>5 DEF Main

LEMMA ClientTyped == ASSUME NEW c \in Conns PROVE Typed /\ Client(c) => Typed'
<1>1. ASSUME Typed, Connect(c) PROVE Typed'
  BY <1>1 DEF Typed, TypeOK, ThreadInv, Connect, bootVars, slotVars, lockVars,
              accVars, thrVars
<1>2. ASSUME Typed, PeerClose(c) PROVE Typed'
  BY <1>2 DEF Typed, TypeOK, ThreadInv, PeerClose, bootVars, slotVars, lockVars,
              accVars, thrVars
<1>3. ASSUME Typed, PeerRead(c) PROVE Typed'
  <2>1. unread' \in [Conns -> Nat]
    BY <1>3 DEF Typed, TypeOK, PeerRead
  <2> QED
    BY <1>3, <2>1 DEF Typed, TypeOK, ThreadInv, PeerRead, bootVars, slotVars,
                      lockVars, accVars, thrVars
<1> QED
  BY <1>1, <1>2, <1>3 DEF Client

LEMMA AcceptTyped == Typed /\ AcceptThread => Typed'
<1>1. ASSUME Typed, NEW c \in Conns, Accept(c) PROVE Typed'
  BY <1>1 DEF Typed, TypeOK, ThreadInv, Accept, LowestFree, bootVars, slotVars,
              lockVars, thrVars
<1>2. ASSUME Typed, Register PROVE Typed'
  BY <1>2 DEF Typed, TypeOK, ThreadInv, Register, NewSlot, Slot, bootVars,
              lockVars, netVars, thrVars
<1>3. ASSUME Typed, NEW c \in Conns, Spawn(c) PROVE Typed'
  BY <1>3 DEF Typed, TypeOK, ThreadInv, Spawn, NextAccept, Slot, bootVars,
              slotVars, lockVars, netVars
<1>4. ASSUME Typed, SpawnFail PROVE Typed'
  BY <1>4 DEF Typed, TypeOK, ThreadInv, SpawnFail, NextAccept, Slot, bootVars,
              slotVars, lockVars, netVars, accVars, thrVars
<1> QED
  BY <1>1, <1>2, <1>3, <1>4 DEF AcceptThread

LEMMA ReceiverTyped == ASSUME NEW c \in Conns PROVE Typed /\ Receiver(c) => Typed'
<1> SUFFICES ASSUME Typed, Receiver(c) PROVE Typed'
  OBVIOUS
<1>1. CASE ReadSock(c)
  BY <1>1 DEF Typed, TypeOK, ThreadInv, ReadSock, bootVars, slotVars, lockVars,
              netVars, accVars
<1>2. CASE RecvCall(c)
  BY <1>2, ZenonT(40) DEF Typed, TypeOK, ThreadInv, RecvCall, Open, bootVars, slotVars,
              lockVars, netVars, accVars
<1>3. CASE RecvData(c)
  <2>1. PICK n \in 1 .. (MaxSend - sent) : \E batch \in [1 .. n -> Kinds] :
          /\ sent' = sent + n
          /\ buf' = [buf EXCEPT ![c] = buf[c] \o
                      [i \in 1 .. n |-> [from |-> src[c], kind |-> batch[i]]]]
    BY <1>3 DEF RecvData
  <2>2. PICK batch \in [1 .. n -> Kinds] :
          buf' = [buf EXCEPT ![c] = buf[c] \o
                   [i \in 1 .. n |-> [from |-> src[c], kind |-> batch[i]]]]
    BY <2>1
  <2> DEFINE r == buf[c] \o [i \in 1 .. n |-> [from |-> src[c], kind |-> batch[i]]]
  <2>3. src[c] \in Conns /\ buf[c] \in Seq(Requests) /\ n \in Nat /\ n >= 1
    BY <1>3, <2>1, BoundsAssumption DEF RecvData, Typed, TypeOK, ThreadInv
  <2>4. r \in Seq(Requests) /\ r # <<>>
    BY <2>3, LongerBuffer
  <2>5. buf' = [buf EXCEPT ![c] = r]
    BY <2>2
  <2>6. sent' \in 0 .. MaxSend
    BY <2>1, BoundsAssumption DEF Typed, TypeOK
  <2>7. buf' \in [Conns -> Seq(Requests)] /\ buf'[c] # <<>>
        /\ \A d \in Conns : d # c => buf'[d] = buf[d]
    <3> HIDE DEF r
    <3> QED BY <2>4, <2>5 DEF Typed, TypeOK
  <2>8. CASE boot = "ready"
    <3>1. cached' \in [Conns -> BOOLEAN]
      <4>1. LoginFlag(c) \in BOOLEAN
        BY DEF LoginFlag, Typed, TypeOK
      <4>2. cached' = [cached EXCEPT ![c] = LoginFlag(c)]
        BY <1>3, <2>8 DEF RecvData
      <4> QED
        BY <4>1, <4>2 DEF Typed, TypeOK
    <3>2. /\ pc' = [pc EXCEPT ![c] = "pdu"]
          /\ src' = [src EXCEPT ![c] = None]
          /\ UNCHANGED <<up, bootVars, slotVars, lockVars, file, backlog, peer,
                         unread, accVars, slotOf, rfd, verified>>
      BY <1>3, <2>8 DEF RecvData
    <3> QED
      BY <2>6, <2>7, <3>1, <3>2 DEF Typed, TypeOK, ThreadInv, bootVars,
         slotVars, lockVars, accVars
  <2>9. CASE boot # "ready"
    BY <1>3, <2>6, <2>7, <2>9, ZenonT(40) DEF RecvData, Typed, TypeOK, ThreadInv,
       bootVars, slotVars, lockVars, accVars
  <2> QED
    BY <2>8, <2>9
<1>4. CASE RecvEof(c)
  BY <1>4 DEF Typed, TypeOK, ThreadInv, RecvEof, AfterEof, bootVars, slotVars,
              lockVars, netVars, accVars
<1>5. CASE CloseSlot(c)
  <2> DEFINE s == slotOf[c]
             S == {t \in Slot : b_login[t]} \ {s}
  <2>1. s \in Slot /\ InternalClose(s, S)
    BY <1>5 DEF CloseSlot, Typed, TypeOK
  <2>2. /\ b_valid' \in [Slot -> BOOLEAN] /\ b_login' \in [Slot -> BOOLEAN]
        /\ sock' \in [Slot -> {-1, 0} \union Fds]
        /\ file' \in [Fds -> Conns \union {None}]
    <3> HIDE DEF s, S
    <3> QED BY <2>1, InternalCloseTyped DEF Typed
  <2> QED
    BY <1>5, <2>2 DEF Typed, TypeOK, ThreadInv, CloseSlot, bootVars, lockVars,
                      netVars, accVars
<1>6. CASE HandleLogin(c)
  <2> DEFINE s == slotOf[c]
  <2>1. s \in Slot /\ 1 - s \in Slot
    BY DEF Typed, TypeOK, Slot
  <2>2. InternalLogin(s)
    BY <1>6 DEF HandleLogin
  <2>3. /\ b_valid' \in [Slot -> BOOLEAN] /\ b_login' \in [Slot -> BOOLEAN]
        /\ sock' \in [Slot -> {-1, 0} \union Fds]
        /\ file' \in [Fds -> Conns \union {None}]
    <3> HIDE DEF s
    <3>1. CASE b_valid[s]
      BY <2>1, <2>2, <3>1, InternalCloseTyped DEF InternalLogin, Typed
    <3>2. CASE ~b_valid[s]
      BY <2>2, <3>2 DEF InternalLogin, Typed, TypeOK, slotVars
    <3> QED BY <3>1, <3>2
  <2>4. verified' \in [Conns -> BOOLEAN]
    BY <1>6 DEF HandleLogin, Typed, TypeOK
  <2> QED
    BY <1>6, <2>3, <2>4 DEF Typed, TypeOK, ThreadInv, HandleLogin, bootVars,
                            lockVars, netVars, accVars
<1>7. CASE HandleOther(c)
  BY <1>7 DEF Typed, TypeOK, ThreadInv, HandleOther, bootVars, slotVars,
              lockVars, netVars, accVars
<1>8. CASE Refuse(c)
  <2>1. NextRequest(c) /\ pc[c] = "pdu"
    BY <1>8 DEF Refuse
  <2>2. /\ buf' \in [Conns -> Seq(Requests)]
        /\ cached' \in [Conns -> BOOLEAN]
        /\ pc' \in [Conns -> {"none", "top", "call", "recv", "pdu", "reply",
                              "send", "fail", "done"}]
        /\ \A d \in Conns : d # c => pc'[d] = pc[d] /\ buf'[d] = buf[d]
        /\ pc'[c] = "pdu" => buf'[c] # <<>>
        /\ pc'[c] \in {"pdu", "top"}
    BY <2>1, NextRequestTyped
  <2>3. TypeOK'
    BY <1>8, <2>2 DEF Typed, TypeOK, Refuse, bootVars, slotVars, lockVars,
                      netVars, accVars
  <2>4. ThreadInv'
    BY <1>8, <2>2 DEF Typed, ThreadInv, Refuse
  <2> QED
    BY <2>3, <2>4 DEF Typed
<1>9. CASE SendBegin(c)
  <2>1. CASE b_valid[slotOf[c]] /\ Open(sock[slotOf[c]])
    BY <1>9, <2>1, ZenonT(40) DEF Typed, TypeOK, ThreadInv, SendBegin, Open, bootVars,
              slotVars, netVars, accVars
  <2>2. CASE ~(b_valid[slotOf[c]] /\ Open(sock[slotOf[c]]))
    <3>1. NextRequest(c)
      BY <1>9, <2>2 DEF SendBegin
    <3> QED
      BY <1>9, <2>2, <3>1, NextRequestTyped DEF Typed, TypeOK, ThreadInv,
              SendBegin, bootVars, slotVars, lockVars, netVars, accVars
  <2> QED BY <2>1, <2>2
<1>10. CASE SendEnd(c)
  <2>1. unread' \in [Conns -> Nat]
    <3>1. CASE UNCHANGED unread
      BY <3>1 DEF Typed, TypeOK
    <3>2. CASE unread' = [unread EXCEPT ![sendTo] = unread[sendTo] + 1]
      <4>1. CASE sendTo \in Conns
        BY <3>2, <4>1 DEF Typed, TypeOK
      <4>2. CASE sendTo \notin Conns
        BY <3>2, <4>2 DEF Typed, TypeOK
      <4> QED BY <4>1, <4>2
    <3> QED
      BY <1>10, <3>1, <3>2 DEF SendEnd
  <2>2. NextRequest(c)
    BY <1>10 DEF SendEnd
  <2> QED
    BY <1>10, <2>1, <2>2, NextRequestTyped DEF Typed, TypeOK, ThreadInv, SendEnd,
              Unlock, bootVars, slotVars, accVars
<1>11. CASE SigPipe(c)
  BY <1>11 DEF Typed, TypeOK, ThreadInv, SigPipe, bootVars, slotVars, lockVars,
              netVars, accVars, thrVars
<1> QED
  BY <1>1, <1>2, <1>3, <1>4, <1>5, <1>6, <1>7, <1>8, <1>9, <1>10, <1>11
     DEF Receiver

LEMMA StutterTyped == Typed /\ UNCHANGED vars => Typed'
  BY DEF Typed, TypeOK, ThreadInv, vars, bootVars, slotVars, lockVars, netVars,
         accVars, thrVars

\* The types, and what a thread at work relies on, hold in every reachable
\* state.
THEOREM Typing == Spec => []Typed
<1>1. Typed /\ [Next]_vars => Typed'
  BY MainTyped, ClientTyped, AcceptTyped, ReceiverTyped, StutterTyped DEF Next
<1> QED
  BY InitTyped, <1>1, PTL DEF Spec

\* Every variable of the daemon's model has its type, in every reachable state.
THEOREM TypeCorrect == Spec => []TypeOK
<1>1. Typed => TypeOK
  BY DEF Typed
<1> QED
  BY <1>1, Typing, PTL

-----------------------------------------------------------------------------
(* One session at a time, and none before a password.                      *)

\* Until the callback is published no thread is inside it, so no slot is
\* logged in; b_login is only ever set on a valid slot, alone.
BootInv ==
    boot # "ready" =>
        /\ \A s \in Slot : ~b_login[s]
        /\ \A c \in Conns : ~cached[c] /\ pc[c] \notin {"pdu", "reply", "send"}

SessionInv == BootInv /\ AtMostOneLogin

LEMMA InitSession == Init => SessionInv
  BY DEF Init, NobodyYet, SessionInv, BootInv, AtMostOneLogin, Slot

\* main writes the slots only while no session can exist.
LEMMA MainSession == Typed /\ SessionInv /\ Main => SessionInv'
<1> USE DEF Typed, TypeOK, SessionInv, BootInv, AtMostOneLogin, Slot, slotVars,
            thrVars
<1>1. ASSUME Typed, SessionInv, StartAccept PROVE SessionInv'
  BY <1>1 DEF StartAccept
<1>2. ASSUME Typed, SessionInv, ClearValid PROVE SessionInv'
  BY <1>2 DEF ClearValid
<1>3. ASSUME Typed, SessionInv, ClearLogin PROVE SessionInv'
  BY <1>3 DEF ClearLogin
<1>4. ASSUME Typed, SessionInv, ClearSock PROVE SessionInv'
  BY <1>4 DEF ClearSock
<1>5. ASSUME Typed, SessionInv, SetCallback PROVE SessionInv'
  BY <1>5 DEF SetCallback
<1> QED
  BY <1>1, <1>2, <1>3, <1>4, <1>5 DEF Main

LEMMA AcceptSession == Typed /\ SessionInv /\ AcceptThread => SessionInv'
<1> USE DEF Typed, TypeOK, SessionInv, BootInv, AtMostOneLogin, Slot, slotVars,
            thrVars, bootVars
<1>1. ASSUME Typed, SessionInv, NEW c \in Conns, Accept(c) PROVE SessionInv'
  BY <1>1 DEF Accept
<1>2. ASSUME Typed, SessionInv, Register PROVE SessionInv'
  BY <1>2 DEF Register, NewSlot
<1>3. ASSUME Typed, SessionInv, NEW c \in Conns, Spawn(c) PROVE SessionInv'
  BY <1>3 DEF Spawn
<1>4. ASSUME Typed, SessionInv, SpawnFail PROVE SessionInv'
  BY <1>4 DEF SpawnFail
<1> QED
  BY <1>1, <1>2, <1>3, <1>4 DEF AcceptThread

\* What a login or the end of a thread leaves in the two flags.
LEMMA CloseKeepsOne ==
    ASSUME Typed, AtMostOneLogin, NEW s \in Slot,
           \/ InternalClose(s, {t \in Slot : b_login[t]} \ {s})
           \/ InternalLogin(s)
    PROVE  /\ ~(b_login'[0] /\ b_login'[1])
           /\ \A t \in Slot : b_login'[t] => b_valid'[t]
  BY DEF InternalClose, InternalLogin, slotVars, AtMostOneLogin, Typed, TypeOK,
         Slot

LEMMA ReceiverSession ==
    ASSUME NEW c \in Conns PROVE Typed /\ SessionInv /\ Receiver(c) => SessionInv'
<1> SUFFICES ASSUME Typed, SessionInv, Receiver(c) PROVE SessionInv'
  OBVIOUS
<1> slotOf[c] \in Slot
  BY DEF Typed, TypeOK
<1>1. CASE ReadSock(c) \/ RecvCall(c) \/ RecvEof(c)
  <2>1. /\ UNCHANGED <<boot, b_login, b_valid, cached>>
        /\ \E p \in {"call", "recv", "fail"} : pc' = [pc EXCEPT ![c] = p]
    BY <1>1 DEF ReadSock, RecvCall, RecvEof, AfterEof, bootVars, slotVars
  <2> QED
    BY <2>1 DEF SessionInv, BootInv, AtMostOneLogin, Typed, TypeOK
<1>2. CASE RecvData(c)
  BY <1>2 DEF RecvData, SessionInv, BootInv, AtMostOneLogin, Typed, TypeOK,
              bootVars, slotVars
<1>3. CASE CloseSlot(c)
  <2>1. AtMostOneLogin'
    BY <1>3, CloseKeepsOne DEF CloseSlot, SessionInv, AtMostOneLogin
  <2>2. BootInv'
    BY <1>3 DEF CloseSlot, InternalClose, SessionInv, BootInv, Typed, TypeOK,
                Slot, bootVars
  <2> QED
    BY <2>1, <2>2 DEF SessionInv
<1>4. CASE HandleLogin(c)
  <2>1. AtMostOneLogin'
    BY <1>4, CloseKeepsOne DEF HandleLogin, SessionInv, AtMostOneLogin
  <2>2. boot = "ready" /\ boot' = boot
    BY <1>4 DEF HandleLogin, SessionInv, BootInv, bootVars
  <2> QED
    BY <2>1, <2>2 DEF SessionInv, BootInv
<1>5. CASE HandleOther(c) \/ Refuse(c) \/ SendBegin(c) \/ SendEnd(c) \/ SigPipe(c)
  <2>1. boot = "ready" /\ UNCHANGED <<boot, b_login, b_valid>>
    BY <1>5 DEF HandleOther, Refuse, SendBegin, SendEnd, SigPipe, SessionInv,
                BootInv, bootVars, slotVars
  <2> QED
    BY <2>1 DEF SessionInv, BootInv, AtMostOneLogin
<1> QED
  BY <1>1, <1>2, <1>3, <1>4, <1>5 DEF Receiver

LEMMA OtherSession ==
    ASSUME SessionInv, (\E c \in Conns : Client(c)) \/ UNCHANGED vars
    PROVE  SessionInv'
<1>1. UNCHANGED <<boot, b_login, b_valid, cached, pc>>
  BY DEF Client, Connect, PeerClose, PeerRead, vars, bootVars, slotVars, thrVars
<1> QED
  BY <1>1 DEF SessionInv, BootInv, AtMostOneLogin

LEMMA SessionStep == Typed /\ SessionInv /\ [Next]_vars => SessionInv'
  BY MainSession, AcceptSession, ReceiverSession, OtherSession DEF Next

\* BootInv and AtMostOneLogin hold together in every reachable state.
THEOREM SessionsSafe == Spec => []SessionInv
  BY InitSession, SessionStep, Typing, PTL DEF Spec

\* There is never more than one logged-in slot, whatever threads and clients
\* do during start-up or later, whether or not threads can be made.
THEOREM OneSession == Spec => []AtMostOneLogin
<1>1. SessionInv => AtMostOneLogin
  BY DEF SessionInv
<1> QED
  BY <1>1, SessionsSafe, PTL

\* b_login and the copies of it the threads hold come from a login whose
\* password was right.
LEMMA PasswordStep ==
    ASSUME Typed, SessionInv, PasswordFirst, [Next]_vars
    PROVE  PasswordFirst'
<1> DEFINE Known == \E d \in Conns : verified[d]
<1>1. CASE \E c \in Conns : HandleLogin(c)
  <2>1. PICK c \in Conns : HandleLogin(c)
    BY <1>1
  <2>2. Head(buf[c]) \in Requests
    BY <2>1, RestOfBuffer DEF HandleLogin, Typed, TypeOK, ThreadInv
  <2>3. Current(c).from \in Conns
    BY <2>2 DEF Current, Requests
  <2> DEFINE x == Current(c).from
  <2>4. verified' = [verified EXCEPT ![x] = TRUE] /\ x \in Conns
    BY <2>1, <2>3 DEF HandleLogin
  <2>5. verified'[x]
    <3> HIDE DEF x
    <3> QED BY <2>4 DEF Typed, TypeOK
  <2> QED
    BY <2>3, <2>5 DEF PasswordFirst
<1>2. CASE ~\E c \in Conns : HandleLogin(c)
  <2>1. verified' = verified
    BY <1>2 DEF Next, Main, StartAccept, ClearValid, ClearLogin, ClearSock,
       SetCallback, AcceptThread, Accept, Register, Spawn, SpawnFail, Client,
       Connect, PeerClose, PeerRead, Receiver, ReadSock, RecvCall, RecvData,
       RecvEof, CloseSlot, HandleOther, Refuse, SendBegin, SendEnd, SigPipe, vars
  <2>2. \A s \in Slot : b_login'[s] => b_login[s]
    <3>1. CASE ClearLogin
      BY <3>1 DEF ClearLogin, Typed, TypeOK
    <3>2. CASE \E c \in Conns : CloseSlot(c)
      BY <3>2 DEF CloseSlot, InternalClose
    <3>3. CASE ~ClearLogin /\ ~\E c \in Conns : CloseSlot(c)
      <4>1. b_login' = b_login
        BY <1>2, <3>3 DEF Next, Main, StartAccept, ClearValid, ClearSock,
           SetCallback, AcceptThread, Accept, Register, Spawn, SpawnFail, Client,
           Connect, PeerClose, PeerRead, Receiver, ReadSock, RecvCall, RecvData,
           RecvEof, HandleOther, Refuse, SendBegin, SendEnd, SigPipe, vars,
           slotVars
      <4> QED BY <4>1
    <3> QED BY <3>1, <3>2, <3>3
  <2>3. \A c \in Conns : cached'[c] => cached[c] \/ \E s \in Slot : b_login[s]
    <3>1. CASE \E c \in Conns : RecvData(c)
      <4>1. PICK d \in Conns : RecvData(d)
        BY <3>1
      <4>2. cached' = [cached EXCEPT ![d] = LoginFlag(d)] \/ cached' = cached
        BY <4>1 DEF RecvData
      <4>3. LoginFlag(d) => \E s \in Slot : b_login[s]
        BY DEF LoginFlag, Typed, TypeOK
      <4>4. cached'[d] => cached[d] \/ LoginFlag(d)
        <5>1. CASE cached' = [cached EXCEPT ![d] = LoginFlag(d)]
          <6>1. cached'[d] = LoginFlag(d)
            BY <5>1, Zenon DEF Typed, TypeOK
          <6> QED BY <6>1
        <5>2. CASE cached' = cached
          BY <5>2
        <5> QED BY <4>2, <5>1, <5>2
      <4>5. \A c \in Conns : c # d => cached'[c] = cached[c]
        BY <4>2 DEF Typed, TypeOK
      <4> QED BY <4>3, <4>4, <4>5
    <3>2. CASE \E c \in Conns : Refuse(c) \/ SendBegin(c) \/ SendEnd(c)
      BY <3>2 DEF Refuse, SendBegin, SendEnd, NextRequest, Typed, TypeOK
    <3>3. CASE ~\E c \in Conns : RecvData(c) \/ Refuse(c) \/ SendBegin(c) \/ SendEnd(c)
      <4>1. cached' = cached
        BY <1>2, <3>3 DEF Next, Main, StartAccept, ClearValid, ClearLogin,
           ClearSock, SetCallback, AcceptThread, Accept, Register, Spawn,
           SpawnFail, Client, Connect, PeerClose, PeerRead, Receiver, ReadSock,
           RecvCall, RecvEof, CloseSlot, HandleOther, SigPipe, vars, thrVars
      <4> QED BY <4>1
    <3> QED BY <3>1, <3>2, <3>3
  <2> QED
    BY <2>1, <2>2, <2>3 DEF PasswordFirst
<1> QED
  BY <1>1, <1>2

\* No slot is logged in, and no thread works with a session's rights, before
\* some client's right password was processed.
THEOREM PasswordBeforeSession == Spec => []PasswordFirst
<1>1. Init => PasswordFirst
  BY DEF Init, NobodyYet, PasswordFirst
<1>2. Typed /\ SessionInv /\ PasswordFirst /\ [Next]_vars => PasswordFirst'
  BY PasswordStep
<1> QED
  BY <1>1, <1>2, Typing, SessionsSafe, PTL DEF Spec

-----------------------------------------------------------------------------
(* A process that can always make threads (SpawnMayFail = FALSE): who owns *)
(* which descriptor, which thread stands behind which slot, what a sender  *)
(* holds, and that a session keeps its client.  Each needs the one before  *)
(* it.                                                                     *)

\* Descriptors in slots are open and distinct; the one still to be registered
\* is open and in no slot.
OwnInv ==
    /\ \A s \in Slot : sock[s] > 0 => Open(sock[s])
    /\ sock[0] > 0 => sock[0] # sock[1]
    /\ accPc = "register" => Open(accFd) /\ \A s \in Slot : sock[s] # accFd

\* The connection the accept thread holds, and those it has not reached yet,
\* have no receive thread.
FreshInv ==
    \A c \in Conns :
        /\ peer[c] = "absent" => c \notin backlog /\ accConn # c /\ pc[c] = "none"
        /\ c \in backlog => accConn # c /\ pc[c] = "none"
        /\ accConn = c => pc[c] = "none"

Live(c) == pc[c] \notin {"none", "done"}

\* Somebody will notice when the client of a valid slot goes away.
ServedInv ==
    \A s \in Slot : b_valid[s] =>
        \/ accPc = "spawn" /\ accSlot = s
        \/ \E c \in Conns : slotOf[c] = s /\ Live(c)

\* A sender holds the mutex and its slot leads to the client it sends to.
SendInv ==
    \A c \in Conns : pc[c] = "send" =>
        /\ mutex = c
        /\ b_valid[slotOf[c]]
        /\ Open(sock[slotOf[c]])
        /\ file[sock[slotOf[c]]] = sendTo

\* Steps that write neither slots nor descriptors nor the accept thread's state.
Quiet ==
    UNCHANGED <<b_valid, b_login, sock, file, accPc, accConn, accFd, accSlot>>

-----------------------------------------------------------------------------
(* Ownership of descriptors.                                               *)

\* Every step that is not quiet is one of these.
LEMMA WritersOfSlots ==
    ASSUME [Next]_vars
    PROVE  \/ Quiet
           \/ ClearValid \/ ClearLogin \/ ClearSock
           \/ Register \/ SpawnFail
           \/ \E c \in Conns : Accept(c) \/ Spawn(c) \/ CloseSlot(c) \/ HandleLogin(c)
<1>1. CASE StartAccept \/ SetCallback \/ UNCHANGED vars
  BY <1>1 DEF Quiet, StartAccept, SetCallback, vars, slotVars, accVars
<1>2. ASSUME NEW c \in Conns, Client(c) PROVE Quiet
  BY <1>2 DEF Quiet, Client, Connect, PeerClose, PeerRead, slotVars, accVars
<1>3. ASSUME NEW c \in Conns, Receiver(c), ~CloseSlot(c), ~HandleLogin(c)
      PROVE  Quiet
  BY <1>3 DEF Quiet, Receiver, ReadSock, RecvCall, RecvData, RecvEof,
     HandleOther, Refuse, SendBegin, SendEnd, SigPipe, slotVars, accVars
<1> QED
  BY <1>1, <1>2, <1>3 DEF Next, Main, AcceptThread

\* Closing one slot leaves the other's descriptor, and one just accepted, open.
LEMMA CloseOwn ==
    ASSUME Typed, OwnInv, NEW s \in Slot, NEW S, InternalClose(s, S),
           UNCHANGED <<accPc, accFd>>
    PROVE  /\ OwnInv'
           /\ \A t \in Slot : t # s =>
                /\ sock'[t] = sock[t]
                /\ b_valid'[t] = b_valid[t]
                /\ sock[t] \in Fds => file'[sock[t]] = file[sock[t]]
<1>1. /\ sock'[s] = -1
      /\ \A t \in Slot : t # s => sock'[t] = sock[t] /\ b_valid'[t] = b_valid[t]
  BY DEF InternalClose, Typed, TypeOK
<1>2. \A f \in Fds : f # sock[s] => file'[f] = file[f]
  BY DEF InternalClose, CloseFd, Typed, TypeOK
<1>3. \A t \in Slot : t # s /\ sock[t] > 0 => sock[t] # sock[s]
  BY DEF OwnInv, Slot
<1>4. \A f \in Fds : f > 0
  BY BoundsAssumption DEF Fds
<1>5. \A f : Open(f) /\ f # sock[s] => Open(f)'
  BY <1>2 DEF Open
<1>6. OwnInv'
  BY <1>1, <1>3, <1>4, <1>5 DEF OwnInv, Slot, Open
<1> QED
  BY <1>1, <1>2, <1>3, <1>4, <1>6

LEMMA OwnStep ==
    ASSUME SpawnMayFail = FALSE, Typed, OwnInv, [Next]_vars
    PROVE  OwnInv'
<1>1. CASE Quiet
  BY <1>1 DEF Quiet, OwnInv, Open
<1>2. CASE ClearValid \/ ClearLogin
  BY <1>2 DEF ClearValid, ClearLogin, OwnInv, Open, accVars
<1>3. CASE ClearSock
  <2>1. \A s \in Slot : sock'[s] = -1 \/ sock'[s] = sock[s]
    BY <1>3 DEF ClearSock, Typed, TypeOK
  <2>2. UNCHANGED <<file, accPc, accFd>>
    BY <1>3 DEF ClearSock, accVars
  <2>3. accPc = "register" => accFd # -1
    BY BoundsAssumption DEF OwnInv, Open, Fds
  <2> QED
    BY <2>1, <2>2, <2>3 DEF OwnInv, Open, Slot
<1>4. CASE Register
  BY <1>4 DEF Register, NewSlot, OwnInv, Open, Typed, TypeOK, Slot, Fds
<1>5. ASSUME NEW c \in Conns, Accept(c) PROVE OwnInv'
  <2>1. PICK f \in Fds : LowestFree(f) /\ file' = [file EXCEPT ![f] = c] /\ accFd' = f
    BY <1>5 DEF Accept
  <2>2. c # None /\ UNCHANGED sock /\ \A g : Open(g) => Open(g)' /\ g # f
    BY <1>5, <2>1, ConnsAssumption DEF Accept, LowestFree, Open, Typed, TypeOK,
       slotVars
  <2>3. Open(f)' /\ f > 0
    BY <2>1, <2>2, BoundsAssumption DEF Open, Typed, TypeOK, Fds
  <2> QED
    BY <2>1, <2>2, <2>3 DEF OwnInv, Slot
<1>6. ASSUME NEW c \in Conns, Spawn(c) PROVE OwnInv'
  BY <1>6 DEF Spawn, NextAccept, OwnInv, Open, slotVars
<1>7. ASSUME NEW c \in Conns, CloseSlot(c) PROVE OwnInv'
  <2>1. slotOf[c] \in Slot /\ UNCHANGED <<accPc, accFd>>
    BY <1>7 DEF CloseSlot, Typed, TypeOK, accVars
  <2> QED
    BY <1>7, <2>1, CloseOwn DEF CloseSlot
<1>8. ASSUME NEW c \in Conns, HandleLogin(c) PROVE OwnInv'
  <2>1. 1 - slotOf[c] \in Slot /\ UNCHANGED <<accPc, accFd>>
    <3>1. slotOf[c] \in Slot
      BY DEF Typed, TypeOK
    <3> QED BY <1>8, <3>1 DEF HandleLogin, Slot, accVars
  <2>2. InternalLogin(slotOf[c])
    BY <1>8 DEF HandleLogin
  <2>3. CASE UNCHANGED <<slotVars, file>>
    BY <2>1, <2>3 DEF OwnInv, Open, slotVars
  <2>4. CASE InternalClose(1 - slotOf[c], {slotOf[c]})
    BY <2>1, <2>4, CloseOwn
  <2> QED
    BY <2>2, <2>3, <2>4 DEF InternalLogin
<1> QED
  BY <1>1, <1>2, <1>3, <1>4, <1>5, <1>6, <1>7, <1>8, WritersOfSlots DEF SpawnFail

LEMMA InitOwn == Init => OwnInv
  BY DEF Init, NobodyYet, OwnInv, Slot

\* While threads can be made, no descriptor is used by two slots or after it
\* was closed through one, and none is lost between accept and registration.
THEOREM DescriptorsOwned == Spec => []SocketsOwned
<1>1. ASSUME SpawnMayFail = FALSE PROVE Spec => []OwnInv
  <2>1. Typed /\ OwnInv /\ [Next]_vars => OwnInv'
    BY <1>1, OwnStep
  <2> QED
    BY InitOwn, <2>1, Typing, PTL DEF Spec
<1>2. OwnInv => SocketsOwned
  BY DEF OwnInv, SocketsOwned
<1>3. CASE SpawnMayFail = FALSE
  BY <1>1, <1>2, <1>3, PTL
<1>4. CASE SpawnMayFail # FALSE
  <2>1. SocketsOwned
    BY <1>4 DEF SocketsOwned
  <2> QED
    BY <2>1, PTL
<1> QED
  BY <1>3, <1>4

-----------------------------------------------------------------------------
(* Every valid slot has a thread.                                          *)

LEMMA InitServed == Init => FreshInv /\ ServedInv /\ SendInv
  BY ConnsAssumption DEF Init, NobodyYet, FreshInv, ServedInv, SendInv, Slot

\* How a step moves the threads: it leaves them alone, starts the one of the
\* connection being accepted, ends one, or keeps a live one alive.
LEMMA ThreadSteps ==
    ASSUME Typed, [Next]_vars
    PROVE  /\ \A c \in Conns : Live(c) =>
                \/ Live(c)' /\ slotOf'[c] = slotOf[c]
                \/ CloseSlot(c)
                \/ Spawn(c)
           /\ \A c \in Conns : ~Live(c) => pc'[c] = pc[c] \/ Spawn(c)
<1> USE DEF Live
<1>1. CASE Main \/ Register \/ SpawnFail \/ (\E c \in Conns : Accept(c) \/ Client(c))
           \/ UNCHANGED vars
  <2>1. UNCHANGED <<pc, slotOf>>
    BY <1>1 DEF Main, StartAccept, ClearValid, ClearLogin, ClearSock, SetCallback,
       Register, SpawnFail, Accept, Client, Connect, PeerClose, PeerRead, vars,
       thrVars
  <2> QED BY <2>1
<1>2. ASSUME NEW c \in Conns, Spawn(c)
      PROVE  \A d \in Conns : d # c => pc'[d] = pc[d] /\ slotOf'[d] = slotOf[d]
  BY <1>2 DEF Spawn, Typed, TypeOK
<1>3. ASSUME NEW c \in Conns, Receiver(c)
      PROVE  /\ slotOf' = slotOf
             /\ \A d \in Conns : d # c => pc'[d] = pc[d]
             /\ Live(c) /\ (Live(c)' \/ CloseSlot(c))
  <2>1. CASE ReadSock(c) \/ RecvCall(c) \/ RecvData(c) \/ RecvEof(c) \/ CloseSlot(c)
    BY <2>1 DEF ReadSock, RecvCall, RecvData, RecvEof, AfterEof, CloseSlot, Typed,
       TypeOK
  <2>2. CASE HandleLogin(c) \/ HandleOther(c) \/ SigPipe(c)
    BY <2>2 DEF HandleLogin, HandleOther, SigPipe, Typed, TypeOK, thrVars
  <2>3. CASE Refuse(c) \/ SendBegin(c) \/ SendEnd(c)
    <3>1. pc[c] \in {"pdu", "reply", "send"} /\ slotOf' = slotOf
      BY <2>3 DEF Refuse, SendBegin, SendEnd
    <3>2. \E p \in {"pdu", "top", "send"} : pc' = [pc EXCEPT ![c] = p]
      BY <2>3 DEF Refuse, SendBegin, SendEnd, NextRequest
    <3> QED
      BY <3>1, <3>2 DEF Typed, TypeOK
  <2> QED
    BY <1>3, <2>1, <2>2, <2>3 DEF Receiver
<1>4. ASSUME NEW c \in Conns, Receiver(c)
      PROVE  /\ \A d \in Conns : Live(d) =>
                  (Live(d)' /\ slotOf'[d] = slotOf[d]) \/ CloseSlot(d)
             /\ \A d \in Conns : ~Live(d) => pc'[d] = pc[d]
  BY <1>3, <1>4
<1> QED
  BY <1>1, <1>2, <1>4 DEF Next, AcceptThread

LEMMA FreshStep ==
    ASSUME Typed, FreshInv, [Next]_vars
    PROVE  FreshInv'
<1>1. \A c \in Conns : pc[c] = "none" => pc'[c] = "none" \/ Spawn(c)
  BY ThreadSteps DEF Live
<1>2. ASSUME NEW c \in Conns, Spawn(c) PROVE FreshInv'
  <2>1. accConn = c /\ accConn' = None /\ UNCHANGED <<peer, backlog>>
    BY <1>2 DEF Spawn, NextAccept, netVars
  <2>2. \A d \in Conns : d # c => pc'[d] = pc[d]
    BY <1>2 DEF Spawn, Typed, TypeOK
  <2> QED
    BY <2>1, <2>2, ConnsAssumption DEF FreshInv
<1>3. ASSUME NEW c \in Conns, Accept(c) PROVE FreshInv'
  <2>1. c \in backlog /\ backlog' = backlog \ {c} /\ accConn' = c
        /\ UNCHANGED <<peer, pc>>
    BY <1>3 DEF Accept, thrVars
  <2> QED
    BY <2>1 DEF FreshInv
<1>4. ASSUME NEW c \in Conns, Connect(c) PROVE FreshInv'
  <2>1. peer[c] = "absent" /\ peer' = [peer EXCEPT ![c] = "up"]
        /\ backlog' = backlog \union {c} /\ UNCHANGED <<accConn, pc>>
    BY <1>4 DEF Connect, thrVars, accVars
  <2> QED
    BY <2>1 DEF FreshInv, Typed, TypeOK
<1>5. ASSUME NEW c \in Conns, PeerClose(c) PROVE FreshInv'
  <2>1. peer[c] = "up" /\ peer' = [peer EXCEPT ![c] = "closed"]
        /\ UNCHANGED <<accConn, pc, backlog>>
    BY <1>5 DEF PeerClose, thrVars, accVars
  <2> QED
    BY <2>1 DEF FreshInv, Typed, TypeOK
<1>6. CASE UNCHANGED <<peer, backlog, accConn>> /\ ~\E c \in Conns : Spawn(c)
  BY <1>1, <1>6 DEF FreshInv
<1>7. \/ UNCHANGED <<peer, backlog, accConn>>
      \/ SpawnFail
      \/ \E c \in Conns : Spawn(c) \/ Accept(c) \/ Connect(c) \/ PeerClose(c)
  <2>1. ASSUME NEW c \in Conns, Receiver(c) PROVE UNCHANGED <<peer, backlog, accConn>>
    BY <2>1 DEF Receiver, ReadSock, RecvCall, RecvData, RecvEof, CloseSlot,
       HandleLogin, HandleOther, Refuse, SendBegin, SendEnd, SigPipe, netVars,
       accVars
  <2>2. CASE Main \/ Register \/ (\E c \in Conns : PeerRead(c)) \/ UNCHANGED vars
    BY <2>2 DEF Main, StartAccept, ClearValid, ClearLogin, ClearSock, SetCallback,
       Register, PeerRead, vars, netVars, accVars
  <2> QED
    BY <2>1, <2>2 DEF Next, AcceptThread, Client
<1>8. CASE SpawnFail
  <2>1. /\ UNCHANGED <<peer, backlog, pc>>
        /\ accConn' = None \/ accConn' = accConn
    BY <1>8 DEF SpawnFail, NextAccept, netVars, thrVars, accVars
  <2> QED
    BY <2>1, ConnsAssumption DEF FreshInv
<1> QED
  BY <1>2, <1>3, <1>4, <1>5, <1>6, <1>7, <1>8

LEMMA ServedStep ==
    ASSUME SpawnMayFail = FALSE, Typed, OwnInv, FreshInv, ServedInv, [Next]_vars
    PROVE  ServedInv'
<1> USE DEF Live
<1>1. ASSUME NEW c \in Conns, Spawn(c) PROVE ServedInv'
  <2>1. /\ accConn = c /\ accPc = "spawn" /\ b_valid' = b_valid
        /\ pc'[c] = "top" /\ slotOf'[c] = accSlot
        /\ \A d \in Conns : d # c => pc'[d] = pc[d] /\ slotOf'[d] = slotOf[d]
    BY <1>1 DEF Spawn, slotVars, Typed, TypeOK
  <2>2. pc[c] = "none"
    BY <2>1 DEF FreshInv
  <2> QED
    BY <2>1, <2>2 DEF ServedInv
<1>2. ASSUME NEW c \in Conns, CloseSlot(c) PROVE ServedInv'
  <2>1. /\ b_valid' = [b_valid EXCEPT ![slotOf[c]] = FALSE]
        /\ UNCHANGED <<accPc, accSlot, slotOf>>
        /\ pc' = [pc EXCEPT ![c] = "done"]
    BY <1>2 DEF CloseSlot, InternalClose, accVars
  <2> QED
    BY <2>1 DEF ServedInv, Typed, TypeOK
<1>3. CASE ~\E c \in Conns : Spawn(c) \/ CloseSlot(c)
  <2>1. \A c \in Conns : Live(c) => Live(c)' /\ slotOf'[c] = slotOf[c]
    BY <1>3, ThreadSteps
  <2>2. CASE Register
    <3>1. /\ accPc = "register" /\ accPc' = "spawn" /\ accSlot' = NewSlot
          /\ b_valid' = [b_valid EXCEPT ![NewSlot] = TRUE]
      BY <2>2 DEF Register
    <3>2. \A s \in Slot : b_valid'[s] => s = accSlot' \/ b_valid[s]
      BY <3>1 DEF Typed, TypeOK
    <3> QED
      BY <2>1, <3>1, <3>2 DEF ServedInv
  <2>3. CASE UNCHANGED <<accPc, accSlot>> \/ accPc # "spawn"
    <3>1. (\A s \in Slot : b_valid'[s] => b_valid[s]) \/ Register
      <4>1. ASSUME NEW c \in Conns, HandleLogin(c)
            PROVE  \A s \in Slot : b_valid'[s] => b_valid[s]
        BY <4>1 DEF HandleLogin, InternalLogin, InternalClose, slotVars, Typed,
           TypeOK
      <4>2. CASE ClearValid
        BY <4>2 DEF ClearValid, Typed, TypeOK
      <4>3. CASE Quiet \/ ClearLogin \/ ClearSock \/ \E c \in Conns : Accept(c)
        BY <4>3 DEF Quiet, ClearLogin, ClearSock, Accept, slotVars
      <4> QED
        BY <1>3, <4>1, <4>2, <4>3, WritersOfSlots DEF SpawnFail
    <3> QED
      BY <2>1, <2>2, <2>3, <3>1 DEF ServedInv
  <2>4. Register \/ UNCHANGED <<accPc, accSlot>> \/ accPc # "spawn"
    BY <1>3, WritersOfSlots DEF Quiet, ClearValid, ClearLogin, ClearSock,
       SpawnFail, Accept, HandleLogin, accVars
  <2> QED
    BY <2>2, <2>3, <2>4
<1> QED
  BY <1>1, <1>2, <1>3

\* While threads can be made, a valid slot is never left without a thread that
\* will see its client go.
THEOREM SlotsServed == Spec => []OccupantServed
<1>1. ASSUME SpawnMayFail = FALSE PROVE Spec => [](FreshInv /\ ServedInv)
  <2>1. Typed /\ OwnInv /\ [Next]_vars => OwnInv'
    BY <1>1, OwnStep
  <2>2. Typed /\ OwnInv /\ FreshInv /\ ServedInv /\ [Next]_vars
          => FreshInv' /\ ServedInv'
    BY <1>1, FreshStep, ServedStep
  <2> QED
    BY InitOwn, InitServed, <2>1, <2>2, Typing, PTL DEF Spec
<1>2. FreshInv /\ ServedInv => OccupantServed
  BY DEF ServedInv, OccupantServed, Live
<1>3. CASE SpawnMayFail = FALSE
  BY <1>1, <1>2, <1>3, PTL
<1>4. CASE SpawnMayFail # FALSE
  <2>1. OccupantServed
    BY <1>4 DEF OccupantServed
  <2> QED
    BY <2>1, PTL
<1> QED
  BY <1>3, <1>4

-----------------------------------------------------------------------------
(* A session does not outlive its threads, and no session's descriptor is  *)
(* forgotten: both also when threads cannot be made.                       *)

\* Only a login through the slot's own thread marks a slot.
LEMMA LoginOrigin ==
    ASSUME Typed, [Next]_vars, NEW s \in Slot, b_login'[s]
    PROVE  b_login[s] \/ \E c \in Conns : HandleLogin(c) /\ slotOf[c] = s
<1>1. CASE Quiet
  BY <1>1 DEF Quiet
<1>2. CASE ClearLogin
  BY <1>2 DEF ClearLogin, Typed, TypeOK
<1>3. CASE ClearValid \/ ClearSock \/ Register \/ SpawnFail
  BY <1>3 DEF ClearValid, ClearSock, Register, SpawnFail, slotVars
<1>4. ASSUME NEW c \in Conns, Accept(c) \/ Spawn(c) PROVE b_login[s]
  BY <1>4 DEF Accept, Spawn, slotVars
<1>5. ASSUME NEW c \in Conns, CloseSlot(c) PROVE b_login[s]
  BY <1>5 DEF CloseSlot, InternalClose
<1>6. ASSUME NEW c \in Conns, HandleLogin(c) PROVE b_login[s] \/ slotOf[c] = s
  BY <1>6 DEF HandleLogin, InternalLogin, InternalClose, slotVars
<1> QED
  BY <1>1, <1>2, <1>3, <1>4, <1>5, <1>6, WritersOfSlots

LEMMA SessionServedStep ==
    ASSUME Typed, FreshInv, SessionServed, [Next]_vars
    PROVE  SessionServed'
<1> SUFFICES ASSUME NEW s \in Slot, b_login'[s]
             PROVE  \E c \in Conns : slotOf'[c] = s /\ Live(c)'
  BY DEF SessionServed, Live
<1>1. CASE b_login[s]
  <2>1. PICK c \in Conns : slotOf[c] = s /\ Live(c)
    BY <1>1 DEF SessionServed, Live
  <2>2. ~CloseSlot(c)
    BY <2>1 DEF CloseSlot, InternalClose
  <2>3. ~Spawn(c)
    BY <2>1 DEF Spawn, FreshInv, Live
  <2>4. Live(c)' /\ slotOf'[c] = slotOf[c]
    BY <2>1, <2>2, <2>3, ThreadSteps
  <2> QED
    BY <2>1, <2>4
<1>2. ASSUME NEW c \in Conns, HandleLogin(c), slotOf[c] = s
      PROVE  slotOf'[c] = s /\ Live(c)'
  BY <1>2 DEF HandleLogin, Live, Typed, TypeOK
<1> QED
  BY <1>1, <1>2, LoginOrigin

\* A slot that is logged in has a live thread, during start-up and after threads
\* could not be made too: the session ends when its client goes.
THEOREM SessionsServed == Spec => []SessionServed
<1>1. Init => FreshInv /\ SessionServed
  BY ConnsAssumption DEF Init, NobodyYet, FreshInv, SessionServed
<1>2. Typed /\ FreshInv /\ SessionServed /\ [Next]_vars
      => FreshInv' /\ SessionServed'
  BY FreshStep, SessionServedStep
<1> QED
  BY <1>1, <1>2, Typing, PTL DEF Spec

\* A slot that is closed has its descriptor closed, and the other slot is left alone.
LEMMA CloseForgetsNothing ==
    ASSUME Typed, NEW s \in Slot, NEW S, InternalClose(s, S),
           NEW t \in Slot, Open(sock[t]), sock'[t] # sock[t]
    PROVE  file'[sock[t]] # file[sock[t]]
<1>1. t = s
  BY DEF InternalClose, Typed, TypeOK
<1>2. sock[s] \in Fds /\ sock[s] > 0 /\ file[sock[s]] # None
  BY <1>1, BoundsAssumption DEF Open, Fds
<1>3. file' = [file EXCEPT ![sock[s]] = None]
  BY <1>2 DEF InternalClose, CloseFd
<1> QED
  BY <1>1, <1>2, <1>3 DEF Typed, TypeOK

LEMMA ForgottenStep ==
    ASSUME Typed, SessionInv, [Next]_vars, NEW s \in Slot,
           Open(sock[s]), sock'[s] # sock[s], file'[sock[s]] = file[sock[s]]
    PROVE  \/ accPc = "register" /\ s = NewSlot /\ ~b_login[s]
           \/ boot = "sock" /\ s = k
<1>1. CASE Register
  <2>1. accPc = "register" /\ s = NewSlot
    BY <1>1 DEF Register, Typed, TypeOK
  <2>2. ~b_login[NewSlot]
    BY DEF NewSlot, SessionInv, AtMostOneLogin, Slot
  <2> QED
    BY <2>1, <2>2
<1>2. CASE ClearSock
  BY <1>2 DEF ClearSock, Typed, TypeOK
<1>3. ASSUME NEW c \in Conns, CloseSlot(c) PROVE FALSE
  <2>1. slotOf[c] \in Slot
        /\ InternalClose(slotOf[c], {t \in Slot : b_login[t]} \ {slotOf[c]})
    BY <1>3 DEF CloseSlot, Typed, TypeOK
  <2> QED
    BY <2>1, CloseForgetsNothing
<1>4. ASSUME NEW c \in Conns, HandleLogin(c) PROVE FALSE
  <2>1. sock' # sock
    OBVIOUS
  <2>2. 1 - slotOf[c] \in Slot
    <3>1. slotOf[c] \in Slot
      BY DEF Typed, TypeOK
    <3> QED
      BY <3>1 DEF Slot
  <2>3. InternalClose(1 - slotOf[c], {slotOf[c]})
    BY <1>4, <2>1 DEF HandleLogin, InternalLogin, slotVars
  <2> QED
    BY <2>2, <2>3, CloseForgetsNothing
<1>5. CASE Quiet \/ ClearValid \/ ClearLogin \/ SpawnFail
  BY <1>5 DEF Quiet, ClearValid, ClearLogin, SpawnFail, slotVars
<1>6. ASSUME NEW c \in Conns, Accept(c) \/ Spawn(c) PROVE FALSE
  BY <1>6 DEF Accept, Spawn, slotVars
<1> QED
  BY <1>1, <1>2, <1>3, <1>4, <1>5, <1>6, WritersOfSlots

\* The only descriptors that are lost are those of a slot nobody is logged in to,
\* taken over by a new connection, and those client_manager_init runs over.
THEOREM DescriptorsForgotten == Spec => ForgottenOnlyByTakeover
<1>1. Typed /\ SessionInv /\ [Next]_vars
      => [\A s \in Slot :
            Open(sock[s]) /\ sock'[s] # sock[s] /\ file'[sock[s]] = file[sock[s]] =>
                \/ accPc = "register" /\ s = NewSlot /\ ~b_login[s]
                \/ boot = "sock" /\ s = k]_vars
  BY ForgottenStep
<1> QED
  BY <1>1, Typing, SessionsSafe, PTL DEF Spec, ForgottenOnlyByTakeover

-----------------------------------------------------------------------------
(* What a sender holds.                                                    *)

LEMMA SendStep ==
    ASSUME SpawnMayFail = FALSE, Typed, SessionInv, OwnInv, SendInv, [Next]_vars
    PROVE  SendInv'
<1> DEFINE Holds(c) == /\ mutex = c
                       /\ b_valid[slotOf[c]]
                       /\ Open(sock[slotOf[c]])
                       /\ file[sock[slotOf[c]]] = sendTo
<1>1. ASSUME NEW c \in Conns, pc[c] = "send", pc'[c] = "send",
             UNCHANGED <<mutex, sendTo, b_valid, sock, file, slotOf>>
      PROVE  Holds(c)'
  BY <1>1 DEF SendInv, Open
<1>2. CASE Main
  <2>1. CASE boot = "ready"
    BY <2>1, <1>2 DEF Main, StartAccept, ClearValid, ClearLogin, ClearSock, SetCallback
  <2>2. CASE boot # "ready"
    <3>1. pc' = pc
      BY <1>2 DEF Main, StartAccept, ClearValid, ClearLogin, ClearSock,
         SetCallback, thrVars
    <3> QED
      BY <2>2, <3>1 DEF SessionInv, BootInv, SendInv
  <2> QED BY <2>1, <2>2
<1>3. CASE UNCHANGED <<pc, mutex, sendTo, b_valid, sock, file, slotOf>>
  BY <1>3 DEF SendInv, Open
<1>4. CASE UNCHANGED vars \/ \E c \in Conns : Client(c)
  <2>1. UNCHANGED <<pc, mutex, sendTo, b_valid, sock, file, slotOf>>
    BY <1>4 DEF vars, Client, Connect, PeerClose, PeerRead, thrVars, slotVars,
       lockVars
  <2> QED BY <1>3, <2>1
<1>5. ASSUME NEW c \in Conns, Accept(c) PROVE SendInv'
  <2>1. PICK f \in Fds : LowestFree(f) /\ file' = [file EXCEPT ![f] = c]
    BY <1>5 DEF Accept
  <2>2. UNCHANGED <<pc, mutex, sendTo, b_valid, sock, slotOf>>
    BY <1>5 DEF Accept, slotVars, lockVars, thrVars
  <2>3. \A g : Open(g) => file'[g] = file[g] /\ Open(g)'
    BY <2>1 DEF LowestFree, Open, Typed, TypeOK
  <2> QED
    BY <2>2, <2>3 DEF SendInv, Open
<1>6. CASE Register
  <2>1. mutex = None /\ pc' = pc
    BY <1>6 DEF Register, CanLock, thrVars
  <2> QED
    BY <2>1, ConnsAssumption DEF SendInv
<1>7. ASSUME NEW c \in Conns, Spawn(c) PROVE SendInv'
  <2>1. UNCHANGED <<mutex, sendTo, b_valid, sock, file>>
        /\ pc'[c] = "top"
        /\ \A d \in Conns : d # c => pc'[d] = pc[d] /\ slotOf'[d] = slotOf[d]
    BY <1>7 DEF Spawn, slotVars, lockVars, Typed, TypeOK
  <2> QED
    BY <2>1 DEF SendInv, Open
<1>8. ASSUME NEW c \in Conns, Receiver(c) PROVE SendInv'
  <2>1. CASE CloseSlot(c) \/ HandleLogin(c)
    <3>1. mutex = None /\ pc'[c] # "send"
          /\ \A d \in Conns : d # c => pc'[d] = pc[d]
      BY <2>1 DEF CloseSlot, HandleLogin, CanLock, Typed, TypeOK
    <3> QED
      BY <3>1, ConnsAssumption DEF SendInv
  <2>2. CASE ReadSock(c) \/ RecvCall(c) \/ RecvData(c) \/ RecvEof(c)
             \/ HandleOther(c) \/ Refuse(c) \/ SigPipe(c)
    <3>1. UNCHANGED <<mutex, sendTo, b_valid, sock, file, slotOf>>
      BY <2>2 DEF ReadSock, RecvCall, RecvData, RecvEof, HandleOther, Refuse,
         SigPipe, lockVars, slotVars, thrVars
    <3>2. CASE SigPipe(c)
      BY <1>3, <3>1, <3>2 DEF SigPipe, thrVars
    <3>3. CASE ~SigPipe(c)
      <4>1. \E p \in {"call", "recv", "fail", "pdu", "top", "reply"} :
               pc' = [pc EXCEPT ![c] = p]
        BY <2>2, <3>3 DEF ReadSock, RecvCall, RecvData, RecvEof, AfterEof,
           HandleOther, Refuse, NextRequest
      <4>2. pc'[c] # "send" /\ \A d \in Conns : d # c => pc'[d] = pc[d]
        BY <4>1 DEF Typed, TypeOK
      <4> QED
        BY <3>1, <4>2 DEF SendInv, Open
    <3> QED BY <3>2, <3>3
  <2>3. CASE SendBegin(c)
    <3>1. mutex = None /\ UNCHANGED <<b_valid, sock, file, slotOf>>
      BY <2>3 DEF SendBegin, CanLock, slotVars
    <3>2. \A d \in Conns : d # c => pc'[d] = pc[d]
      BY <2>3 DEF SendBegin, NextRequest, Typed, TypeOK
    <3>3. \A d \in Conns : pc[d] # "send"
      BY <3>1, ConnsAssumption DEF SendInv
    <3>4. pc'[c] = "send" => Holds(c)'
      BY <2>3, <3>1 DEF SendBegin, NextRequest, Open, Typed, TypeOK
    <3> QED
      BY <3>2, <3>3, <3>4 DEF SendInv
  <2>4. CASE SendEnd(c)
    <3>1. pc[c] = "send" /\ pc'[c] # "send"
          /\ \A d \in Conns : d # c => pc'[d] = pc[d]
      BY <2>4 DEF SendEnd, NextRequest, Typed, TypeOK
    <3>2. \A d \in Conns : d # c => pc[d] # "send"
      BY <3>1 DEF SendInv
    <3> QED
      BY <3>1, <3>2 DEF SendInv
  <2> QED
    BY <1>8, <2>1, <2>2, <2>3, <2>4 DEF Receiver
<1> QED
  BY <1>2, <1>4, <1>5, <1>6, <1>7, <1>8 DEF Next, AcceptThread, SpawnFail

\* While threads can be made, the slot a reply goes through is held from the
\* moment the mutex is taken to the moment send returns.
THEOREM SendersHoldSlot == Spec => []SlotHeldDuringSend
<1>1. ASSUME SpawnMayFail = FALSE PROVE Spec => []SendInv
  <2>1. Typed /\ OwnInv /\ [Next]_vars => OwnInv'
    BY <1>1, OwnStep
  <2>2. Typed /\ SessionInv /\ OwnInv /\ SendInv /\ [Next]_vars => SendInv'
    BY <1>1, SendStep
  <2> QED
    BY InitOwn, InitServed, <2>1, <2>2, Typing, SessionsSafe, PTL DEF Spec
<1>2. SendInv => SlotHeldDuringSend
  BY DEF SendInv, SlotHeldDuringSend
<1>3. CASE SpawnMayFail = FALSE
  BY <1>1, <1>2, <1>3, PTL
<1>4. CASE SpawnMayFail # FALSE
  <2>1. SlotHeldDuringSend
    BY <1>4 DEF SlotHeldDuringSend
  <2> QED
    BY <2>1, PTL
<1> QED
  BY <1>3, <1>4

-----------------------------------------------------------------------------
(* A session keeps its client.                                             *)

LEMMA StickyStep ==
    ASSUME SpawnMayFail = FALSE, Typed, SessionInv, OwnInv, [Next]_vars,
           NEW s \in Slot, b_login[s], b_login'[s]
    PROVE  Occupant(s)' = Occupant(s)
<1>1. CASE Quiet
  BY <1>1 DEF Quiet, Occupant, Open
<1>2. boot = "ready"
  BY DEF SessionInv, BootInv
<1>3. CASE Register
  <2>1. NewSlot # s
    BY DEF NewSlot, SessionInv, AtMostOneLogin, Slot
  <2>2. sock'[s] = sock[s] /\ file' = file
    BY <1>3, <2>1 DEF Register, Typed, TypeOK
  <2> QED
    BY <2>2 DEF Occupant, Open
<1>4. ASSUME NEW c \in Conns, Accept(c) PROVE Occupant(s)' = Occupant(s)
  <2>1. PICK f \in Fds : LowestFree(f) /\ file' = [file EXCEPT ![f] = c]
    BY <1>4 DEF Accept
  <2>2. sock' = sock
    BY <1>4 DEF Accept, slotVars
  <2>3. sock[s] # f
    BY <2>1, BoundsAssumption DEF LowestFree, OwnInv, Fds
  <2>4. sock[s] \in Fds => file'[sock[s]] = file[sock[s]]
    BY <2>1, <2>3 DEF Typed, TypeOK
  <2> QED
    BY <2>2, <2>4 DEF Occupant, Open
<1>5. ASSUME NEW c \in Conns, CloseSlot(c) PROVE Occupant(s)' = Occupant(s)
  <2>1. slotOf[c] \in Slot /\ UNCHANGED <<accPc, accFd>>
        /\ InternalClose(slotOf[c], {t \in Slot : b_login[t]} \ {slotOf[c]})
    BY <1>5 DEF CloseSlot, accVars, Typed, TypeOK
  <2>2. slotOf[c] # s
    BY <2>1 DEF InternalClose
  <2>3. sock'[s] = sock[s] /\ (sock[s] \in Fds => file'[sock[s]] = file[sock[s]])
    BY <2>1, <2>2, CloseOwn
  <2> QED
    BY <2>3 DEF Occupant, Open
<1>6. ASSUME NEW c \in Conns, HandleLogin(c) PROVE Occupant(s)' = Occupant(s)
  <2>1. InternalLogin(slotOf[c]) /\ UNCHANGED <<accPc, accFd>>
    BY <1>6 DEF HandleLogin, accVars
  <2>2. CASE UNCHANGED <<slotVars, file>>
    BY <2>2 DEF Occupant, Open, slotVars
  <2>3. CASE InternalClose(1 - slotOf[c], {slotOf[c]})
    <3>1. slotOf[c] \in Slot
      BY DEF Typed, TypeOK
    <3>2. slotOf[c] = s
      BY <2>3 DEF InternalClose
    <3>3. 1 - slotOf[c] \in Slot /\ 1 - slotOf[c] # s
      BY <3>1, <3>2 DEF Slot
    <3>4. sock'[s] = sock[s] /\ (sock[s] \in Fds => file'[sock[s]] = file[sock[s]])
      BY <2>1, <2>3, <3>3, CloseOwn
    <3> QED
      BY <3>4 DEF Occupant, Open
  <2> QED
    BY <2>1, <2>2, <2>3 DEF InternalLogin
<1>7. CASE ClearValid \/ ClearLogin \/ ClearSock
  BY <1>2, <1>7 DEF ClearValid, ClearLogin, ClearSock
<1>8. ASSUME NEW c \in Conns, Spawn(c) PROVE Occupant(s)' = Occupant(s)
  BY <1>8 DEF Spawn, Occupant, Open, slotVars
<1> QED
  BY <1>1, <1>3, <1>4, <1>5, <1>6, <1>7, <1>8, WritersOfSlots DEF SpawnFail

\* While threads can be made, a slot that stays logged in leads to the same
\* client from one step to the next: no accept, close or new connection takes
\* the session away from it.
THEOREM SessionsKeepClient == Spec => SessionSticky
<1>1. ASSUME SpawnMayFail = FALSE PROVE Spec => []OwnInv
  <2>1. Typed /\ OwnInv /\ [Next]_vars => OwnInv'
    BY <1>1, OwnStep
  <2> QED
    BY InitOwn, <2>1, Typing, PTL DEF Spec
<1>2. ASSUME SpawnMayFail = FALSE
      PROVE  Typed /\ SessionInv /\ OwnInv /\ [Next]_vars
               => [SpawnMayFail = FALSE =>
                    \A s \in Slot : b_login[s] /\ b_login'[s] =>
                        Occupant(s)' = Occupant(s)]_vars
  BY <1>2, StickyStep
<1>3. CASE SpawnMayFail = FALSE
  BY <1>1, <1>2, <1>3, Typing, SessionsSafe, PTL DEF Spec, SessionSticky
<1>4. CASE SpawnMayFail # FALSE
  <2>1. [SpawnMayFail = FALSE =>
          \A s \in Slot : b_login[s] /\ b_login'[s] =>
              Occupant(s)' = Occupant(s)]_vars
    BY <1>4
  <2> QED
    BY <2>1, PTL DEF SessionSticky
<1> QED
  BY <1>3, <1>4

-----------------------------------------------------------------------------
(* The gate: sessions, seen from the commands behind it.                   *)

\* Outside a batch a thread has no rights.
RightsInv == \A c \in Conns : cached[c] => pc[c] \in {"pdu", "reply", "send"}

\* The slot that is logged in is the session.
LEMMA SessionOfSlot ==
    ASSUME AtMostOneLogin, NEW s \in Slot, b_login[s] PROVE Session = s
  BY DEF AtMostOneLogin, Slot, Session

\* The end of a request leaves the thread its rights or takes them, with the batch.
LEMMA NextRequestRights ==
    ASSUME Typed, RightsInv, NEW c \in Conns, NextRequest(c)
    PROVE  /\ RightsInv'
           /\ Entitled' = Entitled \/ Entitled' = Entitled \ {c}
<1>1. CASE Len(buf[c]) > 1
  <2>1. pc' = [pc EXCEPT ![c] = "pdu"] /\ cached' = cached
    BY <1>1 DEF NextRequest
  <2> QED
    BY <2>1 DEF Typed, TypeOK, RightsInv, Entitled
<1>2. CASE ~(Len(buf[c]) > 1)
  <2>1. pc' = [pc EXCEPT ![c] = "top"] /\ cached' = [cached EXCEPT ![c] = FALSE]
    BY <1>2 DEF NextRequest
  <2>2. /\ ~cached'[c]
        /\ \A d \in Conns : d # c => cached'[d] = cached[d] /\ pc'[d] = pc[d]
    BY <2>1 DEF Typed, TypeOK
  <2> QED
    BY <2>2 DEF RightsInv, Entitled
<1> QED
  BY <1>1, <1>2

\* Requests come in: the rights are those of the slot's session.
LEMMA RecvDataGate ==
    ASSUME Typed, SessionInv, RightsInv, NEW c \in Conns, RecvData(c)
    PROVE  RightsInv' /\ (Gate!Begin(c) \/ UNCHANGED <<Session, slotOf, Entitled>>)
<1>1. pc[c] = "recv" /\ slotOf[c] \in Slot /\ UNCHANGED <<b_login, slotOf>>
  BY DEF RecvData, slotVars, Typed, TypeOK
<1>2. ~cached[c]
  BY <1>1 DEF RightsInv
<1>3. Session' = Session
  BY <1>1 DEF Session
<1>4. CASE boot = "ready"
  <2>1. /\ cached' = [cached EXCEPT ![c] = b_login[slotOf[c]]]
        /\ pc' = [pc EXCEPT ![c] = "pdu"]
    BY <1>4 DEF RecvData, LoginFlag
  <2>2. /\ cached'[c] = b_login[slotOf[c]] /\ pc'[c] = "pdu"
        /\ \A d \in Conns : d # c => cached'[d] = cached[d] /\ pc'[d] = pc[d]
    BY <2>1 DEF Typed, TypeOK
  <2>3. RightsInv'
    BY <2>2 DEF RightsInv
  <2>4. CASE b_login[slotOf[c]]
    <3>1. Session = slotOf[c]
      BY <1>1, <2>4, SessionOfSlot DEF SessionInv
    <3>2. Entitled' = Entitled \union {c}
      BY <2>2, <2>4 DEF Entitled
    <3> QED
      BY <1>1, <1>3, <2>3, <3>1, <3>2 DEF Gate!Begin
  <2>5. CASE ~b_login[slotOf[c]]
    <3>1. Entitled' = Entitled
      BY <1>2, <2>2, <2>5 DEF Entitled
    <3> QED
      BY <1>1, <1>3, <2>3, <3>1
  <2> QED
    BY <2>4, <2>5
<1>5. CASE boot # "ready"
  <2>1. cached' = cached /\ pc' = [pc EXCEPT ![c] = "top"]
    BY <1>5 DEF RecvData
  <2>2. RightsInv'
    BY <1>2, <2>1 DEF RightsInv, Typed, TypeOK
  <2> QED
    BY <1>1, <1>3, <2>1, <2>2 DEF Entitled
<1> QED
  BY <1>4, <1>5

\* The end of a thread takes the session of its slot with it, and no other.
LEMMA CloseGate ==
    ASSUME Typed, SessionInv, RightsInv, NEW c \in Conns, CloseSlot(c)
    PROVE  RightsInv' /\ (Gate!Leave(c) \/ UNCHANGED <<Session, slotOf, Entitled>>)
<1>1. /\ pc[c] = "fail" /\ pc' = [pc EXCEPT ![c] = "done"]
      /\ slotOf[c] \in Slot
      /\ UNCHANGED <<slotOf, cached>>
      /\ b_login' = [t \in Slot |-> t \in {u \in Slot : b_login[u]} \ {slotOf[c]}]
  BY DEF CloseSlot, InternalClose, Typed, TypeOK
<1>2. ~cached[c] /\ c \notin Entitled /\ Entitled' = Entitled
  BY <1>1 DEF RightsInv, Entitled
<1>3. RightsInv'
  BY <1>1, <1>2 DEF RightsInv, Typed, TypeOK
<1>4. \A t \in Slot : b_login'[t] <=> b_login[t] /\ t # slotOf[c]
  BY <1>1
<1>5. CASE b_login[slotOf[c]]
  <2>1. Session = slotOf[c]
    BY <1>1, <1>5, SessionOfSlot DEF SessionInv
  <2>2. Session' = None
    BY <1>1, <1>4, <1>5 DEF Session, SessionInv, AtMostOneLogin, Slot
  <2> QED
    BY <1>1, <1>2, <1>3, <2>1, <2>2 DEF Gate!Leave
<1>6. CASE ~b_login[slotOf[c]]
  <2>1. Session' = Session
    BY <1>4, <1>6 DEF Session, Slot
  <2> QED
    BY <1>1, <1>2, <1>3, <2>1
<1> QED
  BY <1>5, <1>6

\* A right password gives the session to the thread's slot, if it is valid.
LEMMA LoginGate ==
    ASSUME Typed, RightsInv, NEW c \in Conns, HandleLogin(c)
    PROVE  RightsInv' /\ (Gate!Enter(c) \/ UNCHANGED <<Session, slotOf, Entitled>>)
<1>1. /\ pc' = [pc EXCEPT ![c] = "reply"] /\ slotOf[c] \in Slot
      /\ UNCHANGED <<slotOf, cached>>
  BY DEF HandleLogin, Typed, TypeOK
<1>2. RightsInv' /\ Entitled' = Entitled
  BY <1>1 DEF RightsInv, Entitled, Typed, TypeOK
<1>3. CASE b_valid[slotOf[c]]
  <2>1. b_login' = [t \in Slot |-> t \in {slotOf[c]}]
    BY <1>3 DEF HandleLogin, InternalLogin, InternalClose
  <2>2. Session' = slotOf[c]
    BY <1>1, <2>1 DEF Session, Slot
  <2> QED
    BY <1>1, <1>2, <2>2 DEF Gate!Enter
<1>4. CASE ~b_valid[slotOf[c]]
  <2>1. Session' = Session
    BY <1>4 DEF HandleLogin, InternalLogin, slotVars, Session
  <2> QED
    BY <1>1, <1>2, <2>1
<1> QED
  BY <1>3, <1>4

\* Every step of the client manager is one of the gate's, or none.
LEMMA GateStep ==
    ASSUME Typed, SessionInv, FreshInv, RightsInv, [Next]_vars
    PROVE  /\ RightsInv'
           /\ [Gate!Next]_<<Session, slotOf, Entitled>>
<1>1. CASE \/ UNCHANGED vars \/ \E c \in Conns : Client(c) \/ Accept(c)
           \/ StartAccept \/ ClearValid \/ ClearSock \/ SetCallback
           \/ Register \/ SpawnFail
  <2>1. UNCHANGED <<b_login, slotOf, cached, pc>>
    BY <1>1 DEF vars, slotVars, thrVars, Client, Connect, PeerClose, PeerRead,
       Accept, StartAccept, ClearValid, ClearSock, SetCallback, Register, SpawnFail
  <2> QED
    BY <2>1 DEF RightsInv, Session, Entitled
<1>2. CASE ClearLogin
  <2>1. /\ boot # "ready" /\ UNCHANGED <<slotOf, cached, pc>>
        /\ b_login' = [b_login EXCEPT ![k] = FALSE]
    BY <1>2 DEF ClearLogin, thrVars
  <2>2. \A s \in Slot : ~b_login[s] /\ ~b_login'[s]
    BY <2>1 DEF SessionInv, BootInv, Typed, TypeOK
  <2>3. Session' = Session
    BY <2>2 DEF Session, Slot
  <2> QED
    BY <2>1, <2>3 DEF RightsInv, Entitled
<1>3. ASSUME NEW c \in Conns, Spawn(c)
      PROVE  RightsInv' /\ Gate!Start(c)
  <2>1. /\ accConn = c /\ accSlot \in Slot
        /\ UNCHANGED <<b_login, cached>>
        /\ pc' = [pc EXCEPT ![c] = "top"]
        /\ slotOf' = [slotOf EXCEPT ![c] = accSlot]
    BY <1>3 DEF Spawn, slotVars, Typed, TypeOK
  <2>2. ~cached[c]
    BY <2>1 DEF FreshInv, RightsInv
  <2>3. RightsInv'
    BY <2>1, <2>2 DEF RightsInv, Typed, TypeOK
  <2>4. c \notin Entitled /\ Entitled' = Entitled /\ Session' = Session
    BY <2>1, <2>2 DEF Entitled, Session
  <2> QED
    BY <2>1, <2>3, <2>4 DEF Gate!Start
<1>4. ASSUME NEW c \in Conns,
             \/ ReadSock(c) \/ RecvCall(c) \/ RecvEof(c)
             \/ HandleOther(c) \/ SigPipe(c)
      PROVE  RightsInv' /\ UNCHANGED <<Session, slotOf, Entitled>>
  <2>1. UNCHANGED <<b_login, slotOf, cached>>
    BY <1>4 DEF ReadSock, RecvCall, RecvEof, HandleOther, SigPipe, slotVars, thrVars
  <2>2. \/ pc[c] \notin {"pdu", "reply", "send"}
           /\ \A d \in Conns : d # c => pc'[d] = pc[d]
        \/ pc' = [pc EXCEPT ![c] = "reply"]
        \/ pc' = pc
    BY <1>4 DEF ReadSock, RecvCall, RecvEof, HandleOther, SigPipe, thrVars, Typed,
       TypeOK
  <2>3. RightsInv'
    BY <2>1, <2>2 DEF RightsInv, Typed, TypeOK
  <2> QED
    BY <2>1, <2>3 DEF Session, Entitled
<1>5. ASSUME NEW c \in Conns, Refuse(c) \/ SendBegin(c) \/ SendEnd(c)
      PROVE  RightsInv' /\ (Gate!End(c) \/ UNCHANGED <<Session, slotOf, Entitled>>)
  <2>1. /\ UNCHANGED <<b_login, slotOf>>
        /\ \/ NextRequest(c)
           \/ cached' = cached /\ pc' = [pc EXCEPT ![c] = "send"]
    <3>1. CASE Refuse(c)
      BY <3>1 DEF Refuse, slotVars
    <3>2. CASE SendBegin(c)
      BY <3>2 DEF SendBegin, slotVars
    <3>3. CASE SendEnd(c)
      BY <3>3 DEF SendEnd, slotVars
    <3> QED
      BY <1>5, <3>1, <3>2, <3>3
  <2>2. Session' = Session
    BY <2>1 DEF Session
  <2>3. CASE NextRequest(c)
    BY <2>1, <2>2, <2>3, NextRequestRights DEF Gate!End
  <2>4. CASE cached' = cached /\ pc' = [pc EXCEPT ![c] = "send"]
    BY <2>1, <2>2, <2>4 DEF RightsInv, Entitled, Typed, TypeOK
  <2> QED
    BY <2>1, <2>3, <2>4
<1>6. ASSUME NEW c \in Conns, Receiver(c)
      PROVE  /\ RightsInv'
             /\ \/ Gate!Begin(c) \/ Gate!End(c) \/ Gate!Enter(c) \/ Gate!Leave(c)
                \/ UNCHANGED <<Session, slotOf, Entitled>>
  BY <1>4, <1>5, <1>6, RecvDataGate, CloseGate, LoginGate DEF Receiver
<1> QED
  BY <1>1, <1>2, <1>3, <1>6 DEF Next, Main, AcceptThread, Gate!Next

\* The client manager implements SessionGate, from process start and whether or not
\* threads can be made.
THEOREM ImplementsGate == Spec => GateKept
<1>1. Init => RightsInv /\ FreshInv /\ Gate!Init
  BY ConnsAssumption DEF Init, NobodyYet, RightsInv, FreshInv, Gate!Init, Session,
     Entitled, Slot
<1>2. /\ Typed /\ SessionInv /\ FreshInv /\ RightsInv /\ [Next]_vars
      => /\ FreshInv' /\ RightsInv'
         /\ [Gate!Next]_<<Session, slotOf, Entitled>>
  BY FreshStep, GateStep
<1> QED
  BY <1>1, <1>2, Typing, SessionsSafe, PTL DEF Spec, GateKept, Gate!Spec
=============================================================================
