------------------------------ MODULE MainFrame ------------------------------
(***************************************************************************)
(* The main window, the database it is connected to and the NewTableHandler *)
(* thread that polls that database (dbhandler/mainframe.cpp,               *)
(* dbhandler/newtablehandler.cpp).                                         *)
(*                                                                         *)
(* The thread polls until wxThread::Delete() is called for it; the main    *)
(* thread calls it before it deletes the database, and then waits until    *)
(* the destructor of the thread has cleared m_handler.  Except in Entry()  *)
(* the lock objects are unnamed temporaries: they wait for the mutex and   *)
(* let it go at once, and what follows runs without it.                    *)
(***************************************************************************)
EXTENDS Naturals

CONSTANTS
  Databases,   (* the Database objects that ConnectToDb may return (bound) *)
  Pollers,     (* the NewTableHandler threads that may be created (bound)  *)
  Docs,        (* the documents that may be opened (bound)                 *)
  Free,        (* the mutex, when nobody owns it                           *)
  None,        (* a null pointer                                           *)
  Careful      (* the user changes profile only when no window is open     *)

ASSUME NoneAssumption ==
  /\ None \notin Databases \cup Pollers /\ Free \notin Pollers
  /\ Careful \in BOOLEAN

VARIABLES
  mutex,       (* Database::Impl::my_mutex: the polling thread or Free     *)
  db,          (* "none", "open" or "freed": the life of a Database object *)
  m_db,        (* the database of the main frame                           *)
  m_handler,   (* the polling thread of the main frame                     *)
  pc,          (* where a polling thread is in Entry() or its destructor   *)
  pollDb,      (* m_db of a polling thread                                 *)
  cancel,      (* the flag wxThread::Delete() sets and TestDestroy() reads *)
  errors,      (* errorMsg of Entry(), which lives as long as the thread:  *)
               (* whether it holds a message                               *)
  main,        (* what the main thread is doing                            *)
  frame,       (* "open", "dying" after Destroy(), "gone"                  *)
  docs         (* the database of an open document, or None                *)

threadVars == <<pc, pollDb, cancel, errors>>
frameVars  == <<db, m_db, m_handler, frame, docs>>
vars == <<mutex, threadVars, frameVars, main>>

-----------------------------------------------------------------------------
(* main.new is the database ConnectToDb has returned, main.held the pointer *)
(* read from m_handler, main.then what comes after the thread is stopped.   *)

At == {"idle", "stop", "check", "delete", "spin", "look", "stopped", "discard",
       "window", "destroy"}
Then == {"nothing", "window", "close"}
Idle == [at |-> "idle", new |-> None, held |-> None, then |-> "nothing"]
MainAt(here) == main.at = here
MainGoto(there) == main' = [main EXCEPT !.at = there]

Pc == {"unborn", "test", "lock", "poll", "boxes", "dtor", "clear", "dead"}
Alive(t) == pc[t] \notin {"unborn", "dead"}

Init ==
  /\ mutex = Free
  /\ db = [d \in Databases |-> "none"]
  /\ m_db = None /\ m_handler = None
  /\ pc = [t \in Pollers |-> "unborn"]
  /\ pollDb = [t \in Pollers |-> None]
  /\ cancel = [t \in Pollers |-> FALSE]
  /\ errors = [t \in Pollers |-> FALSE]
  /\ main = Idle
  /\ frame = "open"
  /\ docs = [o \in Docs |-> None]

-----------------------------------------------------------------------------
(* NewTableHandler: Entry() and destructor. *)

At_(t, here) == pc[t] = here
Goto(t, there) == pc' = [pc EXCEPT ![t] = there]

(* while( !TestDestroy() ), and the message boxes if there are messages. *)
TestDestroy(t) ==
  /\ At_(t, "test")
  /\ Goto(t, IF ~cancel[t] THEN "lock" ELSE IF errors[t] THEN "boxes" ELSE "dtor")
  /\ UNCHANGED <<mutex, pollDb, cancel, errors, frameVars, main>>

Lock(t) ==
  /\ At_(t, "lock")
  /\ mutex = Free /\ mutex' = t
  /\ Goto(t, "poll")
  /\ UNCHANGED <<pollDb, cancel, errors, frameVars, main>>

(* A plausible slip: a poll that fails does end the thread. *)
FailureEndsThread(t) ==
  /\ At_(t, "poll")
  /\ \/ UNCHANGED <<errors, cancel>>
     \/ errors' = [errors EXCEPT ![t] = TRUE] /\ cancel' = [cancel EXCEPT ![t] = TRUE]
  /\ mutex' = Free
  /\ Goto(t, "test")
  /\ UNCHANGED <<pollDb, frameVars, main>>

(* NewTableCreation; on failure the thread calls its own Delete(), which    *)
(* wxThread refuses: it goes on polling.  Then it sleeps.                  *)
NewTableCreation(t) ==
  /\ At_(t, "poll")
  /\ errors' = errors \/ errors' = [errors EXCEPT ![t] = TRUE]
  /\ mutex' = Free
  /\ Goto(t, "test")
  /\ UNCHANGED <<pollDb, cancel, frameVars, main>>

(* The last wxMessageBox has been answered. *)
ShowErrors(t) ==
  /\ At_(t, "boxes")
  /\ Goto(t, "dtor")
  /\ UNCHANGED <<mutex, pollDb, cancel, errors, frameVars, main>>

(* ~NewTableHandler: the temporary lock object ... *)
WaitForMutex(t) ==
  /\ At_(t, "dtor")
  /\ mutex = Free
  /\ Goto(t, "clear")
  /\ UNCHANGED <<mutex, pollDb, cancel, errors, frameVars, main>>

(* ... and pCs->m_handler = NULL without the lock. *)
ClearHandler(t) ==
  /\ At_(t, "clear")
  /\ m_handler' = None
  /\ Goto(t, "dead")
  /\ UNCHANGED <<mutex, pollDb, cancel, errors, db, m_db, frame, docs, main>>

PollerStep(t) ==
  \/ TestDestroy(t) \/ Lock(t) \/ NewTableCreation(t) \/ ShowErrors(t)
  \/ WaitForMutex(t) \/ ClearHandler(t)

-----------------------------------------------------------------------------
(* The main thread: what the user asks for. *)

Ready == MainAt("idle") /\ frame = "open"

(* A document of the window the user asked for: it keeps the pointer. *)
OpenDocument(o) == docs[o] = None /\ docs' = [docs EXCEPT ![o] = m_db]

(* ConnectToDb returns a database, or none when the user cancels. *)
Connect(then) ==
  \/ UNCHANGED <<db, main>>
  \/ \E d \in Databases :
       /\ db[d] = "none"
       /\ db' = [db EXCEPT ![d] = "open"]
       /\ main' = [at |-> IF m_db = None THEN "stopped" ELSE "stop",
                   new |-> d, held |-> None, then |-> then]

(* A plausible slip: the window's handler connects again when connected. *)
OnWindowReconnects ==
  /\ Ready
  /\ Connect("window")
  /\ UNCHANGED <<mutex, threadVars, m_db, m_handler, frame, docs>>

(* OnDatabase, OnQuery, OnTable: Connect() only when there is no database. *)
OnWindow ==
  /\ Ready
  /\ \/ m_db = None /\ Connect("window")
     \/ m_db # None /\ MainGoto("window") /\ db' = db
  /\ UNCHANGED <<mutex, threadVars, m_db, m_handler, frame, docs>>

(* The end of OnDatabase, OnQuery, OnTable: CreateDatabaseWindow, or no      *)
(* window when its library cannot be loaded (or no document is left).  That *)
(* OnTable then tests lib, a null pointer, and crashes is left out          *)
(* (mainframe.cpp:534): it takes an incomplete installation.               *)
CreateDatabaseWindow ==
  /\ MainAt("window")
  /\ docs' = docs \/ \E o \in Docs : OpenDocument(o)
  /\ main' = Idle
  /\ UNCHANGED <<mutex, threadVars, db, m_db, m_handler, frame>>

CloseDocument(o) ==
  /\ Ready
  /\ docs[o] # None
  /\ docs' = [docs EXCEPT ![o] = None]
  /\ UNCHANGED <<mutex, threadVars, db, m_db, m_handler, frame, main>>

(* A database window opens a window on the data of a table, and passes on   *)
(* the database it has itself.                                             *)
OnTableDataEdit(o) ==
  /\ Ready
  /\ docs[o] # None
  /\ \E n \in Docs : docs[n] = None /\ docs' = [docs EXCEPT ![n] = docs[o]]
  /\ UNCHANGED <<mutex, threadVars, db, m_db, m_handler, frame, main>>

(* Connect() whether or not there is a database, or open windows on it. *)
OnDatabaseProfile ==
  /\ Ready
  /\ Careful => \A o \in Docs : docs[o] = None
  /\ Connect("nothing")
  /\ UNCHANGED <<mutex, threadVars, m_db, m_handler, frame, docs>>

(* OnClose: stop the thread if there is a database, then Destroy(). *)
OnClose ==
  /\ Ready
  /\ \/ /\ m_db # None
        /\ main' = [Idle EXCEPT !.at = "stop", !.then = "close"]
        /\ frame' = frame
     \/ m_db = None /\ main' = main /\ frame' = "dying"
  /\ UNCHANGED <<mutex, threadVars, db, m_db, m_handler, docs>>

-----------------------------------------------------------------------------
(* The main thread: stopping the polling thread (Connect and OnClose).     *)

(* The temporary lock object. *)
AwaitMutex ==
  /\ MainAt("stop") \/ MainAt("spin")
  /\ mutex = Free
  /\ MainGoto(IF main.at = "stop" THEN "check" ELSE "look")
  /\ UNCHANGED <<mutex, threadVars, frameVars>>

(* if( m_handler ) *)
CheckHandler ==
  /\ MainAt("check")
  /\ main' = [main EXCEPT !.at = IF m_handler = None THEN "spin" ELSE "delete",
                          !.held = m_handler]
  /\ UNCHANGED <<mutex, threadVars, frameVars>>

(* m_handler->Delete() on another thread asks it to stop. *)
DeleteHandler ==
  /\ MainAt("delete")
  /\ cancel' = [cancel EXCEPT ![main.held] = TRUE]
  /\ main' = [main EXCEPT !.at = "spin", !.held = None]
  /\ UNCHANGED <<mutex, pc, pollDb, errors, frameVars>>

(* A plausible slip: the thread is asked to stop and not waited for. *)
DontWait ==
  /\ MainAt("look")
  /\ MainGoto("stopped")
  /\ UNCHANGED <<mutex, threadVars, frameVars>>

(* if( !m_handler ) break; *)
LookAtHandler ==
  /\ MainAt("look")
  /\ MainGoto(IF m_handler = None THEN "stopped" ELSE "spin")
  /\ UNCHANGED <<mutex, threadVars, frameVars>>

(* The rest of Connect(): the old database goes, the new one gets a thread. *)
Replaced == IF m_db = None THEN db ELSE [db EXCEPT ![m_db] = "freed"]

(* A plausible slip: the constructor of the thread does not store m_db. *)
ReplaceUninitialised ==
  /\ MainAt("stopped") /\ main.then # "close"
  /\ db' = Replaced
  /\ m_db' = main.new
  /\ \E t \in Pollers : pc[t] = "unborn" /\ m_handler' = t /\ Goto(t, "test")
  /\ main' = IF main.then = "window" THEN [Idle EXCEPT !.at = "window"] ELSE Idle
  /\ UNCHANGED <<mutex, pollDb, cancel, errors, frame, docs>>

(* Run() starts the thread. *)
Replace ==
  /\ MainAt("stopped") /\ main.then # "close"
  /\ db' = Replaced
  /\ m_db' = main.new
  /\ \E t \in Pollers :
       /\ pc[t] = "unborn"
       /\ pollDb' = [pollDb EXCEPT ![t] = main.new]
       /\ m_handler' = t
       /\ Goto(t, "test")
  /\ main' = IF main.then = "window" THEN [Idle EXCEPT !.at = "window"] ELSE Idle
  /\ UNCHANGED <<mutex, cancel, errors, frame, docs>>

(* Run() fails. *)
ReplaceFails ==
  /\ MainAt("stopped") /\ main.then # "close"
  /\ db' = Replaced
  /\ m_db' = main.new
  /\ \E t \in Pollers :
       /\ pc[t] = "unborn"
       /\ pollDb' = [pollDb EXCEPT ![t] = main.new]
       /\ m_handler' = t
       /\ Goto(t, "dead")
  /\ main' = [Idle EXCEPT !.at = "discard"]
  /\ UNCHANGED <<mutex, cancel, errors, frame, docs>>

(* A plausible slip: the database is left with nobody to poll it. *)
DiscardThreadOnly ==
  /\ MainAt("discard")
  /\ mutex = Free
  /\ m_handler' = None
  /\ main' = Idle
  /\ UNCHANGED <<mutex, threadVars, db, m_db, frame, docs>>

(* delete m_handler, whose destructor waits for the mutex, Disconnect and   *)
(* delete m_db.                                                            *)
Discard ==
  /\ MainAt("discard")
  /\ mutex = Free
  /\ m_handler' = None
  /\ db' = [db EXCEPT ![m_db] = "freed"]
  /\ m_db' = None
  /\ main' = Idle
  /\ UNCHANGED <<mutex, threadVars, frame, docs>>

(* The end of OnClose: Destroy() puts the frame on the list of wxWidgets. *)
Destroy ==
  /\ MainAt("stopped") /\ main.then = "close"
  /\ frame' = "dying"
  /\ main' = Idle
  /\ UNCHANGED <<mutex, threadVars, db, m_db, m_handler, docs>>

(* The idle loop deletes the frame: ~MainFrame begins. *)
BeginDestruction ==
  /\ MainAt("idle") /\ frame = "dying"
  /\ MainGoto("destroy")
  /\ UNCHANGED <<mutex, threadVars, frameVars>>

(* A plausible slip: ~MainFrame disconnects but keeps the object. *)
DestroyFrameOnly ==
  /\ MainAt("destroy")
  /\ m_db # None => mutex = Free
  /\ m_db' = None
  /\ frame' = "gone"
  /\ main' = Idle
  /\ UNCHANGED <<mutex, threadVars, db, m_handler, docs>>

(* ~MainFrame: the temporary lock object, Disconnect and delete m_db. *)
DestroyFrame ==
  /\ MainAt("destroy")
  /\ m_db # None => mutex = Free
  /\ db' = Replaced
  /\ m_db' = None
  /\ frame' = "gone"
  /\ main' = Idle
  /\ UNCHANGED <<mutex, threadVars, m_handler, docs>>

MainStep ==
  \/ AwaitMutex \/ CheckHandler \/ DeleteHandler \/ LookAtHandler
  \/ Replace \/ ReplaceFails \/ Discard \/ CreateDatabaseWindow \/ Destroy
  \/ BeginDestruction \/ DestroyFrame

UserStep ==
  \/ OnWindow \/ OnDatabaseProfile \/ OnClose
  \/ \E o \in Docs : CloseDocument(o) \/ OnTableDataEdit(o)

Next == MainStep \/ UserStep \/ \E t \in Pollers : PollerStep(t)

Spec == Init /\ [][Next]_vars

-----------------------------------------------------------------------------
(* Properties. *)

(* Every variable stays within its type, and a thread that was created has  *)
(* a database (the constructor at newtablehandler.cpp:18).                 *)
TypeOK ==
  /\ mutex \in Pollers \cup {Free}
  /\ db \in [Databases -> {"none", "open", "freed"}]
  /\ m_db \in Databases \cup {None}
  /\ m_handler \in Pollers \cup {None}
  /\ pc \in [Pollers -> Pc]
  /\ pollDb \in [Pollers -> Databases \cup {None}]
  /\ \A t \in Pollers : pc[t] # "unborn" => pollDb[t] # None
  /\ cancel \in [Pollers -> BOOLEAN]
  /\ errors \in [Pollers -> BOOLEAN]
  /\ main \in [at : At, new : Databases \cup {None}, held : Pollers \cup {None},
               then : Then]
  /\ frame \in {"open", "dying", "gone"}
  /\ docs \in [Docs -> Databases \cup {None}]

(* Whatever the user does, neither the database nor the frame is deleted     *)
(* while the thread can still reach them through m_db and pCs: the main      *)
(* thread waits, without a lock, for the destructor whose last use of m_db   *)
(* and pCs clears m_handler (mainframe.cpp:299-312, newtablehandler.cpp:32). *)
PollerPointersValid ==
  \A t \in Pollers :
    Alive(t) =>
      /\ pc[t] # "clear" => db[pollDb[t]] = "open"
      /\ frame # "gone"

(* The main thread never calls Delete() on a thread object that is gone,    *)
(* though it reads m_handler and calls without the lock: a thread ends only *)
(* when asked to, even when a poll fails and it calls its own Delete().     *)
DeleteFindsThread == main.at = "delete" => pc[main.held] # "dead"

(* At most one thread polls at a time, across changes of profile: the       *)
(* threads share one static mutex and one m_handler, which the destructor   *)
(* of an older thread would clear for the newer one.                       *)
OnePoller == \A t, u \in Pollers : Alive(t) /\ Alive(u) => t = u

(* Between two commands of the user the frame has a database if and only if *)
(* a live thread polls that very database.                                 *)
ConnectedIsPolled ==
  main.at = "idle" /\ frame = "open" =>
    /\ m_db = None <=> m_handler = None
    /\ m_db # None => pollDb[m_handler] = m_db /\ Alive(m_handler)

(* No database outlives the frame: each path of Connect() and ~MainFrame    *)
(* deletes what ConnectToDb returned.                                      *)
NoDatabaseLeft == frame = "gone" => \A d \in Databases : db[d] # "open"
=============================================================================
