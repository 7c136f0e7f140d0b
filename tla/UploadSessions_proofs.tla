------------------------ MODULE UploadSessions_proofs ------------------------
(***************************************************************************)
(* Proofs about UploadSessions, for any number of threads, slots and       *)
(* uploads: as long as only the thread that logged in last carries out     *)
(* commands, what it finds in l_upload_current is what it put there.       *)
(***************************************************************************)
EXTENDS UploadSessions, TLAPS

Places == {"ready", "save path", "save handle", "write", "close", "get path",
           "check", "free", "clear"}

Types ==
    /\ session \in Slots \union {Null}
    /\ slotOf \in [Threads -> Slots]
    /\ entitled \subseteq Threads
    /\ owner \in Threads \union {Null}
    /\ pc \in [Threads -> Places]
    /\ at \in [Threads -> Uploads \union {Null}]
    /\ mine \in [Threads -> Uploads \union {Null}]
    /\ handle \in Uploads \union {Null} /\ path \in Uploads \union {Null}
    /\ open \subseteq Uploads /\ named \subseteq Uploads
    /\ opener \in [Uploads -> Threads \union {Null}]
    /\ writers \in [Uploads -> SUBSET Threads]
    /\ intruded \in BOOLEAN /\ undefined \in BOOLEAN

\* The record is thread t's own upload, which is open and has its name.
Holds(t) == /\ handle = mine[t] /\ path = mine[t]
            /\ mine[t] \in open /\ mine[t] \in named
            /\ opener[mine[t]] = t

\* The stream of t's own upload is closed, its name still recorded.
Closing(t) == /\ mine[t] # Null /\ path = mine[t]
              /\ mine[t] \in named /\ mine[t] \notin open
              /\ opener[mine[t]] = t

\* What the thread that logged in last finds, place by place.
InPlace(t) ==
    /\ pc[t] \in {"ready", "write", "close"} /\ mine[t] # Null => Holds(t)
    /\ pc[t] \in {"write", "close"} => mine[t] # Null /\ at[t] = mine[t]
    /\ pc[t] \in {"save path", "save handle"} =>
         at[t] \in open /\ at[t] \in named /\ opener[at[t]] = t
    /\ pc[t] = "save handle" => path = at[t]
    /\ pc[t] \in {"get path", "check", "free"} => Closing(t)
    /\ pc[t] \in {"check", "free"} => at[t] = mine[t]

\* A thread about to free has compared its own file, which stays closed even
\* when another thread logs in meanwhile.
Compared(t) == pc[t] = "free" => /\ at[t] \in Uploads /\ at[t] = mine[t]
                                 /\ at[t] \notin open
                                 /\ opener[at[t]] # Null

Sound == /\ ~undefined
         /\ \A u \in Uploads : writers[u] \subseteq {opener[u]}
         /\ \A t \in Threads : Compared(t)
         /\ owner # Null => InPlace(owner)

Inv == Types /\ (~intruded => Sound)

-----------------------------------------------------------------------------
LEMMA InitInv == Init => Inv
  BY SessionsAssumption
  DEF Init, Gate!Init, Inv, Types, Sound, Compared, InPlace, Places

\* Types, for every step.
LEMMA TypesStep == Types /\ [Next]_vars => Types'
<1> SUFFICES ASSUME Types, [Next]_vars PROVE Types'
  OBVIOUS
<1> USE DEF Types, Places, Step, Take, gate, record, memory
<1>1. CASE UNCHANGED vars
  BY <1>1 DEF vars
<1>2. ASSUME NEW t \in Threads, Started(t) \/ Login(t) \/ Disconnect(t)
      PROVE  Types'
  <2> USE DEF Outside
  <2>1. CASE Started(t)
    BY <2>1 DEF Started, Gate!Start
  <2>2. CASE Login(t)
    BY <2>2 DEF Login, Gate!Enter
  <2>3. CASE Disconnect(t)
    BY <2>3 DEF Disconnect, Gate!Leave
  <2> QED
    BY <1>2, <2>1, <2>2, <2>3
<1>3. ASSUME NEW t \in Threads, OpenFile(t) \/ OpenFails(t) PROVE Types'
  <2>1. CASE OpenFile(t)
    <3> PICK u \in Uploads : /\ open' = open \union {u}
                             /\ named' = named \union {u}
                             /\ opener' = [opener EXCEPT ![u] = t]
                             /\ at' = [at EXCEPT ![t] = u]
      BY <2>1 DEF OpenFile
    <3> QED
      BY <2>1 DEF OpenFile
  <2>2. CASE OpenFails(t)
    BY <2>2 DEF OpenFails
  <2> QED
    BY <1>3, <2>1, <2>2
<1>4. ASSUME NEW t \in Threads, SavePath(t) \/ SaveHandle(t) PROVE Types'
  <2>1. CASE SavePath(t)
    BY <2>1 DEF SavePath, PathSaved
  <2>2. CASE SaveHandle(t)
    BY <2>2 DEF SaveHandle, HandleSaved
  <2> QED
    BY <1>4, <2>1, <2>2
<1>5. ASSUME NEW t \in Threads, GetHandle(t) PROVE Types'
  BY <1>5 DEF GetHandle
<1>6. ASSUME NEW t \in Threads, WriteFile(t) PROVE Types'
  BY <1>6 DEF WriteFile
<1>7. ASSUME NEW t \in Threads, CloseFile(t) \/ GetPath(t) \/ CheckFile(t)
      PROVE  Types'
  <2>1. CASE CloseFile(t)
    BY <2>1 DEF CloseFile
  <2>2. CASE GetPath(t)
    BY <2>2 DEF GetPath
  <2>3. CASE CheckFile(t)
    BY <2>3 DEF CheckFile
  <2> QED
    BY <1>7, <2>1, <2>2, <2>3
<1>8. ASSUME NEW t \in Threads, FreePath(t) \/ ClearHandle(t) PROVE Types'
  BY <1>8, ZenonT(40) DEF FreePath, ClearHandle
<1>9. ASSUME NEW t \in Threads, BatchBegins(t) \/ BatchEnds(t) PROVE Types'
  BY <1>9 DEF Outside, BatchBegins, BatchEnds, Gate!Begin, Gate!End
<1> QED
  BY <1>1, <1>2, <1>3, <1>4, <1>5, <1>6, <1>7, <1>8, <1>9 DEF Next

\* Sessions come and go: a thread that starts or logs in has nothing of its own yet.
LEMMA SessionStep ==
    ASSUME Types, Sound, NEW t \in Threads,
           \/ Started(t) \/ Login(t) \/ Disconnect(t)
           \/ BatchBegins(t) \/ BatchEnds(t)
    PROVE  Sound'
<1> USE DEF Types, Sound, Outside, record, memory
<1>1. CASE Started(t) \/ Login(t)
  <2>1. /\ pc[t] = "ready" /\ mine'[t] = Null
        /\ \A q \in Threads : q # t => mine'[q] = mine[q]
        /\ UNCHANGED <<pc, at, handle, path, open, named, opener, writers, undefined>>
    BY <1>1 DEF Started, Login
  <2>2. InPlace(t)'
    BY <2>1 DEF InPlace
  <2>3. \A q \in Threads : Compared(q)'
    BY <2>1 DEF Compared
  <2>4. owner' \in {t, Null} \/ (owner' = owner /\ owner # t)
    BY <1>1 DEF Started, Login
  <2>5. ASSUME owner' = owner, owner # Null, owner # t PROVE InPlace(owner)'
    <3>1. InPlace(owner) /\ owner \in Threads
      BY <2>5
    <3>2. mine'[owner] = mine[owner]
      BY <2>1, <2>5, <3>1
    <3> HIDE DEF Types, Sound
    <3> QED
      BY <2>1, <2>5, <3>1, <3>2 DEF InPlace, Holds, Closing
  <2> QED
    BY <2>1, <2>2, <2>3, <2>4, <2>5
<1>2. CASE Disconnect(t) \/ BatchBegins(t) \/ BatchEnds(t)
  <2>1. UNCHANGED <<owner, pc, at, mine, handle, path, open, named, opener,
                    writers, undefined>>
    BY <1>2 DEF Disconnect, BatchBegins, BatchEnds
  <2> QED
    BY <2>1 DEF InPlace, Holds, Closing, Compared
<1> QED
  BY <1>1, <1>2

\* A 02 opens what nobody had before, and records it.
LEMMA OpenStep ==
    ASSUME Types, Sound, NEW t \in Threads, ~intruded',
           OpenFile(t) \/ OpenFails(t) \/ SavePath(t) \/ SaveHandle(t)
    PROVE  Sound'
<1> USE DEF Types, Sound, Step, Take, record, memory
<1>1. owner = t /\ owner' = t /\ t # Null
  BY SessionsAssumption DEF OpenFile, OpenFails, SavePath, SaveHandle
<1>2. InPlace(t)
  BY <1>1
<1>3. CASE OpenFile(t)
  <2> PICK u \in {v \in Uploads : opener[v] = Null} :
         /\ open' = open \union {u}
         /\ named' = named \union {u}
         /\ opener' = [opener EXCEPT ![u] = t]
         /\ Take(t, u)
    BY <1>3 DEF OpenFile
  <2>1. /\ pc' = [pc EXCEPT ![t] = "save path"] /\ at' = [at EXCEPT ![t] = u]
        /\ UNCHANGED <<mine, handle, path, writers, undefined>>
    BY <1>3 DEF OpenFile
  <2>2. InPlace(t)'
    <3>1. pc'[t] = "save path" /\ at'[t] = u
      BY <2>1
    <3>2. u \in open' /\ u \in named' /\ opener'[u] = t
      OBVIOUS
    <3> HIDE DEF Types, Sound, Step, Take, record, memory
    <3> QED
      BY <3>1, <3>2 DEF InPlace
  <2>3. ASSUME NEW q \in Threads PROVE Compared(q)'
    <3>1. ASSUME pc'[q] = "free" PROVE q # t /\ pc[q] = "free" /\ at'[q] = at[q]
      BY <2>1, <3>1
    <3>2. ASSUME pc[q] = "free"
          PROVE  /\ at[q] \in Uploads /\ at[q] = mine[q] /\ at[q] \notin open
                 /\ opener[at[q]] # Null /\ at[q] # u
      BY <3>2 DEF Compared
    <3>3. ASSUME pc[q] = "free" PROVE at[q] \notin open' /\ opener'[at[q]] # Null
      BY <3>2, <3>3
    <3>4. mine' = mine
      BY <2>1
    <3> HIDE DEF Types, Sound, Step, Take, record, memory
    <3> QED
      BY <3>1, <3>2, <3>3, <3>4 DEF Compared
  <2>4. \A v \in Uploads : writers'[v] \subseteq {opener'[v]}
    <3>1. writers[u] \subseteq {Null} /\ writers[u] \subseteq Threads
      OBVIOUS
    <3>2. writers[u] = {}
      BY <3>1, SessionsAssumption
    <3> QED
      BY <2>1, <3>2
  <2> QED
    BY <1>1, <2>1, <2>2, <2>3, <2>4
<1>4. CASE OpenFails(t)
  BY <1>1, <1>4 DEF OpenFails, InPlace, Compared
<1>5. CASE SavePath(t)
  <2>1. /\ pc[t] = "save path" /\ pc' = [pc EXCEPT ![t] = "save handle"]
        /\ path' = at[t]
        /\ UNCHANGED <<at, mine, handle, open, named, opener, writers, undefined>>
    BY <1>5 DEF SavePath, PathSaved
  <2>2. InPlace(t)'
    BY <1>2, <2>1 DEF InPlace
  <2>3. \A q \in Threads : Compared(q)'
    BY <2>1 DEF Compared
  <2> QED
    BY <1>1, <2>1, <2>2, <2>3
<1>6. CASE SaveHandle(t)
  <2>1. /\ pc[t] = "save handle" /\ pc' = [pc EXCEPT ![t] = "ready"]
        /\ handle' = at[t] /\ mine' = [mine EXCEPT ![t] = at[t]]
        /\ UNCHANGED <<at, path, open, named, opener, writers, undefined>>
    BY <1>6 DEF SaveHandle, HandleSaved
  <2>2. InPlace(t)'
    BY <1>2, <2>1 DEF InPlace, Holds
  <2>3. \A q \in Threads : Compared(q)'
    BY <2>1 DEF Compared
  <2> QED
    BY <1>1, <2>1, <2>2, <2>3
<1> QED
  BY <1>3, <1>4, <1>5, <1>6

\* A 03 and the beginning of a 04 get the thread's own stream, which is open.
LEMMA WriteStep ==
    ASSUME Types, Sound, NEW t \in Threads, ~intruded',
           GetHandle(t) \/ WriteFile(t) \/ CloseFile(t)
    PROVE  Sound'
<1> USE DEF Types, Sound, Step, Take, record, memory
<1>1. owner = t /\ owner' = t /\ t # Null
  BY SessionsAssumption DEF GetHandle, WriteFile, CloseFile
<1>2. InPlace(t)
  BY <1>1
<1>3. CASE GetHandle(t)
  <2> PICK next \in {"write", "close"} : Step(t, "ready", next)
    BY <1>3 DEF GetHandle
  <2>1. /\ mine[t] # Null /\ pc[t] = "ready" /\ pc' = [pc EXCEPT ![t] = next]
        /\ at' = [at EXCEPT ![t] = handle]
        /\ UNCHANGED <<mine, handle, path, open, named, opener, writers, undefined>>
    BY <1>3 DEF GetHandle
  <2>2. InPlace(t)'
    BY <1>2, <2>1 DEF InPlace, Holds
  <2>3. \A q \in Threads : Compared(q)'
    BY <2>1 DEF Compared
  <2> QED
    BY <1>1, <2>1, <2>2, <2>3
<1>4. CASE WriteFile(t)
  <2>1. /\ pc[t] = "write" /\ pc' = [pc EXCEPT ![t] = "ready"]
        /\ undefined' = (at[t] # Null /\ at[t] \notin open)
        /\ writers' = [u \in Uploads |->
                         writers[u] \union IF u = at[t] THEN {t} ELSE {}]
        /\ UNCHANGED <<at, mine, handle, path, open, named, opener>>
    BY <1>4 DEF WriteFile
  <2>2. Holds(t) /\ at[t] = mine[t]
    BY <1>2, <2>1 DEF InPlace
  <2>3. ~undefined' /\ InPlace(t)'
    BY <2>1, <2>2 DEF InPlace, Holds
  <2>4. \A u \in Uploads : writers'[u] \subseteq {opener'[u]}
    BY <2>1, <2>2 DEF Holds
  <2>5. \A q \in Threads : Compared(q)'
    BY <2>1 DEF Compared
  <2> QED
    BY <1>1, <2>3, <2>4, <2>5
<1>5. CASE CloseFile(t)
  <2>1. /\ pc[t] = "close" /\ pc' = [pc EXCEPT ![t] = "get path"]
        /\ undefined' = (at[t] # Null /\ at[t] \notin open)
        /\ open' = open \ {at[t]}
        /\ UNCHANGED <<at, mine, handle, path, named, opener, writers>>
    BY <1>5 DEF CloseFile
  <2>2. Holds(t) /\ at[t] = mine[t] /\ mine[t] # Null
    BY <1>2, <2>1 DEF InPlace
  <2>3. ~undefined' /\ InPlace(t)'
    BY <2>1, <2>2 DEF InPlace, Holds, Closing
  <2>4. \A q \in Threads : Compared(q)'
    BY <2>1 DEF Compared
  <2> QED
    BY <1>1, <2>1, <2>3, <2>4
<1> QED
  BY <1>3, <1>4, <1>5

\* The rest of a 04 reads and frees the name the thread's own 02 recorded.
LEMMA FinishStep ==
    ASSUME Types, Sound, NEW t \in Threads, ~intruded',
           GetPath(t) \/ CheckFile(t) \/ FreePath(t) \/ ClearHandle(t)
    PROVE  Sound'
<1> USE DEF Types, Sound, Step, Take, record, memory
<1>1. owner = t /\ owner' = t /\ t # Null
  BY SessionsAssumption DEF GetPath, CheckFile, FreePath, ClearHandle
<1>2. InPlace(t)
  BY <1>1
<1>3. CASE GetPath(t)
  <2>1. /\ pc[t] = "get path" /\ pc' = [pc EXCEPT ![t] = "check"]
        /\ at' = [at EXCEPT ![t] = path]
        /\ UNCHANGED <<mine, handle, path, open, named, opener, writers, undefined>>
    BY <1>3 DEF GetPath
  <2>2. InPlace(t)'
    BY <1>2, <2>1 DEF InPlace, Closing
  <2>3. \A q \in Threads : Compared(q)'
    BY <2>1 DEF Compared
  <2> QED
    BY <1>1, <2>1, <2>2, <2>3
<1>4. CASE CheckFile(t)
  <2>1. /\ pc[t] = "check" /\ pc' = [pc EXCEPT ![t] = "free"]
        /\ undefined' = (at[t] # Null /\ at[t] \notin named)
        /\ UNCHANGED <<at, mine, handle, path, open, named, opener, writers>>
    BY <1>4 DEF CheckFile
  <2>2. Closing(t) /\ at[t] = mine[t]
    BY <1>2, <2>1 DEF InPlace
  <2>3. ~undefined' /\ InPlace(t)'
    BY <2>1, <2>2 DEF InPlace, Closing
  <2>4. \A q \in Threads : Compared(q)'
    BY <1>1, <2>1, <2>2 DEF Compared, Closing
  <2> QED
    BY <1>1, <2>1, <2>3, <2>4
<1>5. CASE FreePath(t)
  <2>1. /\ pc[t] = "free" /\ pc' = [pc EXCEPT ![t] = "clear"]
        /\ undefined' = (path # Null /\ path \notin named)
        /\ UNCHANGED <<at, mine, handle, path, open, opener, writers>>
    BY <1>5 DEF FreePath
  <2>2. Closing(t)
    BY <1>2, <2>1 DEF InPlace
  <2>3. ~undefined' /\ InPlace(t)'
    BY <2>1, <2>2 DEF InPlace, Closing
  <2>4. \A q \in Threads : Compared(q)'
    BY <2>1 DEF Compared
  <2> QED
    BY <1>1, <2>1, <2>3, <2>4
<1>6. CASE ClearHandle(t)
  <2>1. /\ pc[t] = "clear" /\ pc' = [pc EXCEPT ![t] = "ready"]
        /\ mine' = [mine EXCEPT ![t] = Null]
        /\ UNCHANGED <<at, path, open, named, opener, writers, undefined>>
    BY <1>6 DEF ClearHandle
  <2>2. InPlace(t)'
    BY <2>1 DEF InPlace
  <2>3. \A q \in Threads : Compared(q)'
    BY <2>1 DEF Compared
  <2> QED
    BY <1>1, <2>1, <2>2, <2>3
<1> QED
  BY <1>3, <1>4, <1>5, <1>6

\* No step of the thread that logged in last breaks what it relies on.
LEMMA InvStep == Inv /\ [Next]_vars => Inv'
<1> SUFFICES ASSUME Inv, [Next]_vars PROVE Inv'
  OBVIOUS
<1>1. Types'
  BY TypesStep DEF Inv
<1>2. ASSUME ~intruded' PROVE Sound'
  <2>1. CASE UNCHANGED vars
    BY <1>2, <2>1 DEF Inv, Sound, vars, gate, record, memory, InPlace, Holds, Closing, Compared
  <2>2. ASSUME NEW t \in Threads,
               \/ Started(t) \/ Login(t) \/ Disconnect(t)
               \/ BatchBegins(t) \/ BatchEnds(t)
        PROVE  Sound'
    <3>1. intruded' = intruded
      BY <2>2 DEF Started, Login, Disconnect, BatchBegins, BatchEnds, Outside
    <3> QED
      BY <1>2, <2>2, <3>1, SessionStep DEF Inv
  <2>3. ASSUME NEW t \in Threads,
               OpenFile(t) \/ OpenFails(t) \/ SavePath(t) \/ SaveHandle(t)
        PROVE  Sound'
    BY <1>2, <2>3, OpenStep DEF Inv, Step, OpenFile, OpenFails, SavePath, SaveHandle
  <2>4. ASSUME NEW t \in Threads, GetHandle(t) \/ WriteFile(t) \/ CloseFile(t)
        PROVE  Sound'
    BY <1>2, <2>4, WriteStep DEF Inv, Step, GetHandle, WriteFile, CloseFile
  <2>5. ASSUME NEW t \in Threads,
               GetPath(t) \/ CheckFile(t) \/ FreePath(t) \/ ClearHandle(t)
        PROVE  Sound'
    BY <1>2, <2>5, FinishStep DEF Inv, Step, GetPath, CheckFile, FreePath, ClearHandle
  <2> QED
    BY <2>1, <2>2, <2>3, <2>4, <2>5 DEF Next
<1> QED
  BY <1>1, <1>2 DEF Inv

\* What holds in every reachable state.
THEOREM Invariance == Spec => []Inv
  BY InitInv, InvStep, PTL DEF Spec

\* As long as only the thread that logged in last carries out commands, no closed
\* FILE and no freed name is used, for any number of threads, slots and uploads.
THEOREM Defined == Spec => []DefinedInTime
<1>1. Inv => DefinedInTime
  BY DEF Inv, Sound, DefinedInTime
<1> QED
  BY <1>1, Invariance, PTL

\* As long as only the thread that logged in last carries out commands, data goes
\* to the file of the session that sent it.
THEOREM OwnWrites == Spec => []OwnFileOnly
<1>1. Inv => OwnFileOnly
  BY DEF Inv, Sound, OwnFileOnly
<1> QED
  BY <1>1, Invariance, PTL

\* As long as only the thread that logged in last carries out commands, an MD5 is
\* compared with the closed file of the session that sent it.
THEOREM OwnCheck == Spec => []OwnFileChecked
<1>1. Inv => OwnFileChecked
  BY DEF Inv, Sound, Compared, OwnFileChecked
<1> QED
  BY <1>1, Invariance, PTL
=============================================================================
