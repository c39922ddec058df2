------------------------------- MODULE Program -------------------------------
(***************************************************************************)
(* The main frame together with the threads that retrieve the rows of data *)
(* windows (libtabledataedit/dbtableedit.cpp).                             *)
(*                                                                         *)
(* A retrieval keeps its mutex while the main thread displays its rows; the *)
(* main thread displays nothing while it stops the polling thread, and the *)
(* polling thread cannot stop before it gets its own mutex.  Whether the   *)
(* two mutexes are one depends on the build: Database::Impl::my_mutex is a *)
(* static member that five libraries define.  Both outcomes are initial    *)
(* states.                                                                 *)
(*                                                                         *)
(* Of a retrieval this module keeps what concerns the mutex, the database  *)
(* and the main thread; TableRetrieval has the rest.                       *)
(***************************************************************************)
EXTENDS MainFrame

CONSTANTS
  Retrievals,      (* the threads that may retrieve rows (bound)            *)
  CreatesDatabases (* the user may create a database from a database window *)

ASSUME RetrievalsAssumption == Free \notin Retrievals /\ CreatesDatabases \in BOOLEAN

VARIABLES
  shared,      (* the retrievals use the mutex of the polling thread       *)
  held,        (* which retrieval holds their mutex, or Free               *)
  retr,        (* where a retrieval is in Entry() or in its destructor     *)
  retrDb,      (* m_db of a retrieval                                      *)
  rash         (* the user has changed the profile or closed the frame     *)
               (* during a retrieval, or created a database                *)

retrVars == <<shared, held, retr, retrDb, rash>>
programVars == <<vars, retrVars>>

RetrAt == {"unborn", "lock", "fetch", "row", "dtor", "dead"}
Active(r) == retr[r] \notin {"unborn", "dead"}

ProgramInit ==
  /\ Init
  /\ shared \in BOOLEAN
  /\ held = Free
  /\ retr = [r \in Retrievals |-> "unborn"]
  /\ retrDb = [r \in Retrievals |-> None]
  /\ rash = FALSE

-----------------------------------------------------------------------------
(* A thread that retrieves rows. *)

RetrGoes(r, here, there) == retr[r] = here /\ retr' = [retr EXCEPT ![r] = there]

(* The mutex of a retrieval is free. *)
RetrievalMutexFree == held = Free /\ (shared => mutex = Free)

(* A plausible slip: the retrieval does not look at the polling thread. *)
LockOwnMutex(r) ==
  /\ held = Free
  /\ RetrGoes(r, "lock", "fetch")
  /\ held' = r
  /\ UNCHANGED <<vars, shared, retrDb, rash>>

LockRetrieval(r) ==
  /\ RetrievalMutexFree
  /\ RetrGoes(r, "lock", "fetch")
  /\ held' = r
  /\ UNCHANGED <<vars, shared, retrDb, rash>>

(* There is a row: it is posted to the main thread and awaited. *)
PostRetrieved(r) ==
  /\ RetrGoes(r, "fetch", "row")
  /\ UNCHANGED <<vars, shared, held, retrDb, rash>>

(* A plausible slip: the thread leaves Entry() without letting go. *)
EndRetrievalLocked(r) ==
  /\ RetrGoes(r, "fetch", "dtor")
  /\ UNCHANGED <<vars, shared, held, retrDb, rash>>

(* No more rows, an error, or cancelled. *)
EndRetrieval(r) ==
  /\ RetrGoes(r, "fetch", "dtor")
  /\ held' = Free
  /\ UNCHANGED <<vars, shared, retrDb, rash>>

(* ~DBTableEdit takes the mutex once more. *)
LeaveRetrieval(r) ==
  /\ RetrievalMutexFree
  /\ RetrGoes(r, "dtor", "dead")
  /\ UNCHANGED <<vars, shared, held, retrDb, rash>>

RetrievalStep(r) ==
  LockRetrieval(r) \/ PostRetrieved(r) \/ EndRetrieval(r) \/ LeaveRetrieval(r)

(* The main loop displays a row; a program without a frame has no loop. *)
DisplayRetrieved(r) ==
  /\ MainAt("idle") /\ frame # "gone"
  /\ RetrGoes(r, "row", "fetch")
  /\ UNCHANGED <<vars, shared, held, retrDb, rash>>

-----------------------------------------------------------------------------
(* The frame and the polling thread, which may meet a retrieval on the mutex. *)

PollerMutexFree == shared => held = Free

MainAwaitsMutex ==
  main.at \in {"stop", "spin", "discard"} \/ (main.at = "destroy" /\ m_db # None)

FrameStep ==
  /\ MainStep
  /\ MainAwaitsMutex => PollerMutexFree
  /\ UNCHANGED retrVars

PollStep(t) ==
  /\ PollerStep(t)
  /\ pc[t] \in {"lock", "dtor"} => PollerMutexFree
  /\ UNCHANGED retrVars

(* The commands that stop the polling thread. *)
StopCommand ==
  /\ OnDatabaseProfile \/ OnClose
  /\ rash' = (rash \/ (main' # main /\ \E r \in Retrievals : Active(r)))
  /\ UNCHANGED <<shared, held, retr, retrDb>>

WindowCommand ==
  /\ OnWindow \/ \E o \in Docs : CloseDocument(o)
  /\ UNCHANGED retrVars

(* A plausible slip: the thread is not given the database of the window. *)
OpenDataWindowBare(o) ==
  /\ OnTableDataEdit(o)
  /\ \E r \in Retrievals : RetrGoes(r, "unborn", "lock")
  /\ UNCHANGED <<shared, held, retrDb, rash>>

(* The new data window starts a retrieval, unless Run() fails. *)
OpenDataWindow(o) ==
  /\ OnTableDataEdit(o)
  /\ \/ \E r \in Retrievals :
          /\ RetrGoes(r, "unborn", "lock")
          /\ retrDb' = [retrDb EXCEPT ![r] = docs[o]]
     \/ UNCHANGED <<retr, retrDb>>
  /\ UNCHANGED <<shared, held, rash>>

(* Create Database of a database window: when ConnectToDb returns one, that *)
(* of the document, which is also the frame's, is deleted under everybody, *)
(* and nobody keeps the new one.  ConnectToDb is called with fewer          *)
(* arguments than it has (databaseview.cpp:121, dbloader.cpp:110); what     *)
(* the missing ones do to it is left out, and the call returns as others.   *)
OnCreateDatabase(o) ==
  /\ CreatesDatabases
  /\ Ready
  /\ docs[o] # None
  /\ \E d \in Databases :
       db[d] = "none" /\ db' = [db EXCEPT ![d] = "open", ![docs[o]] = "freed"]
  /\ rash' = TRUE
  /\ UNCHANGED <<mutex, threadVars, m_db, m_handler, frame, docs, main,
                 shared, held, retr, retrDb>>

ProgramNext ==
  \/ FrameStep \/ StopCommand \/ WindowCommand
  \/ \E t \in Pollers : PollStep(t)
  \/ \E r \in Retrievals : RetrievalStep(r) \/ DisplayRetrieved(r)
  \/ \E o \in Docs : OpenDataWindow(o) \/ OnCreateDatabase(o)

ProgramSpec == ProgramInit /\ [][ProgramNext]_programVars

(* Strong fairness of the main thread: it tries once a millisecond for a      *)
(* mutex that the polling thread leaves alone for five seconds between two *)
(* polls.  A thread that can run runs.                                     *)
ProgramFairSpec ==
  /\ ProgramSpec
  /\ SF_programVars(FrameStep)
  /\ \A t \in Pollers : WF_programVars(PollStep(t))
  /\ \A r \in Retrievals : WF_programVars(RetrievalStep(r))

-----------------------------------------------------------------------------
(* Properties. *)

(* The types of the variables this module adds; a retrieval that was begun   *)
(* has a database (the constructor at dbtableedit.cpp:33).                 *)
ProgramTypeOK ==
  /\ shared \in BOOLEAN
  /\ held \in Retrievals \cup {Free}
  /\ retr \in [Retrievals -> RetrAt]
  /\ retrDb \in [Retrievals -> Databases \cup {None}]
  /\ \A r \in Retrievals : Active(r) => retrDb[r] # None
  /\ rash \in BOOLEAN

(* Where the libraries share one mutex, no row is fetched on the connection *)
(* while the polling thread reads the catalog (newtablehandler.cpp:51,     *)
(* dbtableedit.cpp:63).  Where they do not, nothing keeps the two apart.   *)
PollExcludesRetrieval ==
  shared /\ held # Free => \A t \in Pollers : pc[t] # "poll"

(* Connect() and ~MainFrame wait for the polling thread but for no retrieval *)
(* (mainframe.cpp:312, 169); a careful user who waits for the rows never     *)
(* has a database deleted under a thread, be it the profile that changes, a *)
(* thread that does not start or the program that ends.                    *)
DatabasesOutliveThreads ==
  Careful /\ ~rash =>
    /\ \A r \in Retrievals : Active(r) => db[retrDb[r]] = "open"
    /\ \A t \in Pollers : Alive(t) /\ pc[t] # "clear" => db[pollDb[t]] = "open"

(* A user who closes the windows before changing the profile, waits for the *)
(* rows and creates no database never has a window open on a deleted one or *)
(* on another than the frame's, because OnDatabase, OnQuery and OnTable     *)
(* connect only once (mainframe.cpp:387, 466, 510) and data windows take    *)
(* the database of the window they come from (databaseview.cpp:2096).      *)
DocumentsShareDatabase ==
  Careful /\ ~rash /\ frame # "gone" =>
    \A o \in Docs : docs[o] # None => docs[o] = m_db /\ db[docs[o]] = "open"

(* The main thread is kept from coming back by one thing only: one mutex,    *)
(* and a retrieval that holds it and waits for a row to be displayed.  A     *)
(* retrieval on a mutex of its own, or without a row, never stops Connect()  *)
(* and OnClose() (mainframe.cpp:207, 302; dbtableedit.cpp:80).             *)
MainReturnsUnlessBlocked ==
  main.at # "idle" ~>
    main.at = "idle" \/ (shared /\ \E r \in Retrievals : held = r /\ retr[r] = "row")
=============================================================================
