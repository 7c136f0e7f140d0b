--------------------------- MODULE UploadSessions ---------------------------
(***************************************************************************)
(* The one l_upload_current of file_manager/upload_file.c under several    *)
(* receive threads, call by call.  It has no lock: that one thread at a    *)
(* time uses it rests on the client manager's sessions (SessionGate).      *)
(* These let two threads at it all the same: a batch of requests goes on   *)
(* when another connection has logged in meanwhile, and a slot that was    *)
(* taken over has two threads with one session.                            *)
(*                                                                         *)
(* A 02 allocates a FILE and a name, which live and die apart; together    *)
(* they are an upload here.  Data and disk are UploadFile's business.      *)
(* Clients keep to the protocol: data and the end of an upload are sent    *)
(* after a 02 of the same session was answered with OK.                    *)
(***************************************************************************)
EXTENDS Naturals

CONSTANTS Threads,   \* receive threads; an ended one may be used for a new one
          Slots,     \* of l_connect_info
          Uploads,   \* bound: the memory of as many 02s
          Null

ASSUME SessionsAssumption == Null \notin Threads \union Slots \union Uploads

VARIABLES session, slotOf, entitled,   \* the client manager's, see SessionGate
          owner,     \* the thread that logged in last, or Null
          pc,        \* where t is in a command
          at,        \* at[t]: the FILE or name t has in a local variable
          mine,      \* mine[t]: the upload t's client was told is open
          handle, path,   \* l_upload_current: file_handle, filename_tx
          open,      \* FILEs that are open
          named,     \* names that are allocated
          opener,    \* opener[u]: the thread that opened u, Null before
          writers,   \* writers[u]: the threads that wrote to u
          intruded,  \* a thread other than owner has carried out a command
          undefined  \* a closed FILE or a freed name was used

Gate == INSTANCE SessionGate WITH None <- Null

gate == <<session, slotOf, entitled>>
record == <<handle, path>>
memory == <<open, named, opener, writers>>
vars == <<gate, owner, pc, at, mine, record, memory, intruded, undefined>>

Init == /\ Gate!Init
        /\ owner = Null
        /\ pc = [t \in Threads |-> "ready"]
        /\ at = [t \in Threads |-> Null]
        /\ mine = [t \in Threads |-> Null]
        /\ handle = Null /\ path = Null
        /\ open = {} /\ named = {}
        /\ opener = [u \in Uploads |-> Null]
        /\ writers = [u \in Uploads |-> {}]
        /\ intruded = FALSE
        /\ undefined = FALSE

-----------------------------------------------------------------------------
(* Sessions, as the client manager keeps them.  None of these steps is     *)
(* inside a command.                                                       *)

Outside(t) == /\ ~undefined
              /\ pc[t] = "ready"
              /\ UNCHANGED <<pc, at, record, memory, intruded, undefined>>

\* A connection gets its thread.
Started(t) ==
    /\ Outside(t) /\ Gate!Start(t)
    /\ owner' = IF owner = t THEN Null ELSE owner
    /\ mine' = [mine EXCEPT ![t] = Null]

\* E1, first or again; the other connection is closed, a batch of that goes on.
Login(t) ==
    /\ Outside(t) /\ Gate!Enter(t)
    /\ owner' = t
    /\ mine' = [mine EXCEPT ![t] = Null]

\* recv has brought requests, and the slot's b_login is read; or they are all
\* carried out.
BatchBegins(t) == Outside(t) /\ Gate!Begin(t) /\ UNCHANGED <<owner, mine>>
BatchEnds(t)   == Outside(t) /\ Gate!End(t) /\ UNCHANGED <<owner, mine>>

\* End of file after the batch: the thread closes its slot.
Disconnect(t)  == Outside(t) /\ Gate!Leave(t) /\ UNCHANGED <<owner, mine>>

-----------------------------------------------------------------------------
(* Commands.                                                               *)

\* Thread t takes the step of a command that is at `from'.
Step(t, from, to) ==
    /\ ~undefined
    /\ t \in entitled /\ pc[t] = from
    /\ pc' = [pc EXCEPT ![t] = to]
    /\ intruded' = (intruded \/ owner # t)
    /\ UNCHANGED <<gate, owner>>

Take(t, x) == at' = [at EXCEPT ![t] = x]

\* 02: fopen and the path, which nobody else knows yet.
OpenFile(t) ==
    /\ Step(t, "ready", "save path")
    /\ \E u \in {v \in Uploads : opener[v] = Null} :
         /\ open' = open \union {u}
         /\ named' = named \union {u}
         /\ opener' = [opener EXCEPT ![u] = t]
         /\ Take(t, u)
    /\ UNCHANGED <<mine, record, writers, undefined>>

\* 02 answered with an error; the client sends no data then.
OpenFails(t) ==
    /\ Step(t, "ready", "ready")
    /\ mine' = [mine EXCEPT ![t] = Null]
    /\ UNCHANGED <<at, record, memory, undefined>>

\* Mutant: a name that is there is kept.
PathKept(t) == IF path = Null THEN at[t] ELSE path

PathSaved(t) == at[t]

\* internal_upload_file_save, store by store.
SavePath(t) ==
    /\ Step(t, "save path", "save handle")
    /\ path' = PathSaved(t)
    /\ UNCHANGED <<at, mine, handle, memory, undefined>>

\* Mutant: a handle that is there is kept.
HandleKept(t) == IF handle = Null THEN at[t] ELSE handle

HandleSaved(t) == at[t]

SaveHandle(t) ==
    /\ Step(t, "save handle", "ready")
    /\ handle' = HandleSaved(t)
    /\ mine' = [mine EXCEPT ![t] = at[t]]
    /\ UNCHANGED <<at, path, memory, undefined>>

\* 03 and 04 begin with upload_file_get_handle.
GetHandle(t) ==
    /\ mine[t] # Null
    /\ \E next \in {"write", "close"} : Step(t, "ready", next)
    /\ Take(t, handle)
    /\ UNCHANGED <<mine, record, memory, undefined>>

\* 03: fseek and fwrite on that handle, if there is one.
WriteFile(t) ==
    /\ Step(t, "write", "ready")
    /\ undefined' = (at[t] # Null /\ at[t] \notin open)
    /\ writers' = [u \in Uploads |->
                     writers[u] \union IF u = at[t] THEN {t} ELSE {}]
    /\ UNCHANGED <<at, mine, record, open, named, opener>>

\* 04: fclose on that handle.
CloseFile(t) ==
    /\ Step(t, "close", "get path")
    /\ undefined' = (at[t] # Null /\ at[t] \notin open)
    /\ open' = open \ {at[t]}
    /\ UNCHANGED <<at, mine, record, named, opener, writers>>

GetPath(t) ==
    /\ Step(t, "get path", "check")
    /\ Take(t, path)
    /\ UNCHANGED <<mine, record, memory, undefined>>

\* check_file_by_md5 opens the file of that name.
CheckFile(t) ==
    /\ Step(t, "check", "free")
    /\ undefined' = (at[t] # Null /\ at[t] \notin named)
    /\ UNCHANGED <<at, mine, record, memory>>

\* internal_upload_file_clear: free what filename_tx points to now...
FreePath(t) ==
    /\ Step(t, "free", "clear")
    /\ undefined' = (path # Null /\ path \notin named)
    /\ named' = named \ {path}
    /\ UNCHANGED <<at, mine, record, open, opener, writers>>

\* ... and reset file_handle.
ClearHandle(t) ==
    /\ Step(t, "clear", "ready")
    /\ handle' = Null
    /\ mine' = [mine EXCEPT ![t] = Null]
    /\ UNCHANGED <<at, path, memory, undefined>>

Next == \E t \in Threads :
            \/ Started(t) \/ Login(t) \/ Disconnect(t)
            \/ BatchBegins(t) \/ BatchEnds(t)
            \/ OpenFile(t) \/ OpenFails(t) \/ SavePath(t) \/ SaveHandle(t)
            \/ GetHandle(t) \/ WriteFile(t)
            \/ CloseFile(t) \/ GetPath(t) \/ CheckFile(t)
            \/ FreePath(t) \/ ClearHandle(t)

Spec == Init /\ [][Next]_vars

-----------------------------------------------------------------------------
(* Correctness: what the missing lock costs, and when.                     *)

\* As long as only the thread that logged in last carries out commands, no closed
\* FILE and no freed name is used, whatever order sessions and their uploads come
\* and go in.
DefinedInTime == ~intruded => ~undefined

\* As long as only the thread that logged in last carries out commands, a thread
\* writes to the file its own session opened.
OwnFileOnly ==
    ~intruded => \A u \in Uploads : writers[u] \subseteq {opener[u]}

\* As long as only the thread that logged in last carries out commands, the MD5 a
\* client sends is compared with the file that this client's session opened and
\* that is closed by then.
OwnFileChecked ==
    ~intruded => \A t \in Threads :
                     pc[t] = "free" => at[t] = mine[t] /\ at[t] \notin open
=============================================================================
