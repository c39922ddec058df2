--------------------------- MODULE MainFrameProofs ---------------------------
(***************************************************************************)
(* Safety of MainFrame for any number of databases, threads and documents, *)
(* whether or not the user is careful.                                     *)
(***************************************************************************)
EXTENDS MainFrame, TLAPS

(* The states of the main thread in which it stops the polling thread. *)
Stopping == {"stop", "check", "delete", "spin", "look"}

(* A live thread is the one of the frame, and polls its database. *)
PollerInv ==
  \A t \in Pollers : Alive(t) => m_handler = t /\ pollDb[t] = m_db

(* m_handler points to a live thread, or to one that is about to be deleted *)
(* because it did not start, and only while there is a database.           *)
HandlerInv ==
  m_handler # None =>
    m_db # None /\ (Alive(m_handler) <=> main.at # "discard")

(* The open databases are that of the frame and the new one of Connect().  *)
DbInv ==
  /\ m_db # None => db[m_db] = "open"
  /\ main.new # None => db[main.new] = "open" /\ main.new # m_db
  /\ \A d \in Databases : db[d] = "open" => d = m_db \/ d = main.new

(* Where the main thread is tells what it has and what is still to stop.   *)
MainInv ==
  /\ main.at \in Stopping \cup {"discard"} => m_db # None
  /\ main.at = "stopped" => m_handler = None
  /\ main.at \in Stopping \cup {"stopped"} =>
       (main.then = "close" <=> main.new = None)
  /\ main.at \in {"idle", "window", "discard", "destroy"} => main.new = None
  /\ main.at \in {"idle", "window"} /\ frame = "open" /\ m_db # None =>
       m_handler # None
  /\ main.at = "delete" => main.held # None /\ main.held = m_handler

(* The frame is destroyed after the thread, and the database with it.      *)
FrameInv ==
  /\ main.at \notin {"idle", "destroy"} => frame = "open"
  /\ main.at = "destroy" => frame = "dying"
  /\ frame # "open" => m_handler = None
  /\ frame = "gone" => m_db = None

(* A thread ends only when asked to, and is asked to only once the main     *)
(* thread waits for it.                                                    *)
CancelInv ==
  \A t \in Pollers :
    /\ cancel[t] => pc[t] # "unborn" /\ (Alive(t) => main.at \in {"spin", "look"})
    /\ pc[t] \in {"boxes", "dtor", "clear"} => cancel[t]

(* The inductive invariant. *)
IInv ==
  TypeOK /\ PollerInv /\ HandlerInv /\ DbInv /\ MainInv /\ FrameInv /\ CancelInv

-----------------------------------------------------------------------------
(* The invariant holds before the first command. *)
LEMMA InitInv == Init => IInv
<1> SUFFICES ASSUME Init PROVE IInv
  OBVIOUS
<1>1. TypeOK
  BY DEF Init, TypeOK, Idle, At, Then, Pc
<1>2. PollerInv /\ HandlerInv /\ DbInv /\ MainInv /\ FrameInv /\ CancelInv
  BY DEF Init, Idle, PollerInv, HandlerInv, DbInv, MainInv, FrameInv, CancelInv,
     Alive, Stopping
<1>3. QED
  BY <1>1, <1>2 DEF IInv

(* A step of the polling thread: it ends only while it is waited for. *)
LEMMA PollerStepInv ==
  ASSUME IInv, NEW t \in Pollers, PollerStep(t)
  PROVE  IInv'
<1> USE NoneAssumption
    DEF IInv, TypeOK, PollerInv, HandlerInv, DbInv, MainInv, FrameInv, CancelInv,
        Alive, Pc, Stopping, frameVars, At_, Goto
<1>1. CASE TestDestroy(t)
  BY <1>1 DEF TestDestroy
<1>2. CASE Lock(t)
  BY <1>2 DEF Lock
<1>3. CASE NewTableCreation(t)
  BY <1>3 DEF NewTableCreation
<1>4. CASE ShowErrors(t)
  BY <1>4 DEF ShowErrors
<1>5. CASE WaitForMutex(t)
  BY <1>5 DEF WaitForMutex
<1>6. CASE ClearHandler(t)
  <2>1. main.at \in {"spin", "look"}
    BY <1>6 DEF ClearHandler
  <2>2. QED
    BY <1>6, <2>1 DEF ClearHandler
<1>7. QED
  BY <1>1, <1>2, <1>3, <1>4, <1>5, <1>6 DEF PollerStep

(* The main thread stops the polling thread, or opens the window asked for. *)
LEMMA StopStepInv ==
  ASSUME IInv, AwaitMutex \/ CheckHandler \/ DeleteHandler \/ LookAtHandler
                 \/ CreateDatabaseWindow \/ Destroy
  PROVE  IInv'
<1> USE NoneAssumption
    DEF IInv, TypeOK, PollerInv, HandlerInv, DbInv, MainInv, FrameInv, CancelInv,
        Alive, Pc, Stopping, frameVars, threadVars, MainAt, MainGoto, At, Then, Idle
<1>1. CASE AwaitMutex
  BY <1>1 DEF AwaitMutex
<1>2. CASE CheckHandler
  BY <1>2 DEF CheckHandler
<1>3. CASE DeleteHandler
  BY <1>3 DEF DeleteHandler
<1>4. CASE LookAtHandler
  BY <1>4 DEF LookAtHandler
<1>5. CASE CreateDatabaseWindow
  BY <1>5 DEF CreateDatabaseWindow, OpenDocument
<1>6. CASE Destroy
  BY <1>6 DEF Destroy
<1>7. QED
  BY <1>1, <1>2, <1>3, <1>4, <1>5, <1>6

(* A database goes, another comes, or neither: the thread is gone by then. *)
LEMMA ReplaceStepInv ==
  ASSUME IInv, Replace \/ ReplaceFails \/ Discard \/ BeginDestruction \/ DestroyFrame
  PROVE  IInv'
<1> USE NoneAssumption
    DEF IInv, TypeOK, PollerInv, HandlerInv, DbInv, MainInv, FrameInv, CancelInv,
        Alive, Pc, Stopping, frameVars, threadVars, MainAt, MainGoto, At, Then,
        Idle, Goto
<1>1. CASE Replace
  BY <1>1 DEF Replace, Replaced
<1>2. CASE ReplaceFails
  BY <1>2 DEF ReplaceFails, Replaced
<1>3. CASE Discard
  BY <1>3 DEF Discard
<1>4. CASE DestroyFrame
  BY <1>4 DEF DestroyFrame, Replaced
<1>5. CASE BeginDestruction
  BY <1>5 DEF BeginDestruction
<1>6. QED
  BY <1>1, <1>2, <1>3, <1>4, <1>5

(* ConnectToDb returns a database that is neither open nor known before.  *)
LEMMA ConnectStepInv ==
  ASSUME IInv, Ready, NEW then \in {"nothing", "window"}, Connect(then),
         UNCHANGED <<mutex, threadVars, m_db, m_handler, frame, docs>>
  PROVE  IInv'
<1> USE NoneAssumption
    DEF IInv, TypeOK, PollerInv, HandlerInv, DbInv, MainInv, FrameInv, CancelInv,
        Alive, Pc, Stopping, threadVars, MainAt, At, Then, Ready
<1>1. CASE UNCHANGED <<db, main>>
  BY <1>1
<1>2. CASE \E d \in Databases :
             /\ db[d] = "none"
             /\ db' = [db EXCEPT ![d] = "open"]
             /\ main' = [at |-> IF m_db = None THEN "stopped" ELSE "stop",
                         new |-> d, held |-> None, then |-> then]
  <2>1. PICK d \in Databases :
          /\ db[d] = "none"
          /\ db' = [db EXCEPT ![d] = "open"]
          /\ main' = [at |-> IF m_db = None THEN "stopped" ELSE "stop",
                      new |-> d, held |-> None, then |-> then]
    BY <1>2
  <2>2. d # m_db /\ d # None
    BY <2>1
  <2>3. TypeOK' /\ PollerInv' /\ HandlerInv' /\ FrameInv' /\ CancelInv'
    BY <2>1, <2>2
  <2>4. DbInv' /\ MainInv'
    BY <2>1, <2>2
  <2>5. QED
    BY <2>3, <2>4
<1>3. QED
  BY <1>1, <1>2 DEF Connect

(* A command of the user finds the main thread idle. *)
LEMMA UserStepInv ==
  ASSUME IInv, UserStep
  PROVE  IInv'
<1> USE NoneAssumption
    DEF IInv, TypeOK, PollerInv, HandlerInv, DbInv, MainInv, FrameInv, CancelInv,
        Alive, Pc, Stopping, frameVars, threadVars, MainAt, MainGoto, At, Then,
        Idle, Ready
<1>1. CASE OnWindow
  <2>1. CASE m_db = None /\ Connect("window")
    BY <1>1, <2>1, ConnectStepInv DEF OnWindow
  <2>2. CASE m_db # None /\ MainGoto("window") /\ db' = db
    BY <1>1, <2>2 DEF OnWindow
  <2>3. QED
    BY <1>1, <2>1, <2>2 DEF OnWindow
<1>2. CASE OnDatabaseProfile
  BY <1>2, ConnectStepInv DEF OnDatabaseProfile
<1>3. CASE OnClose
  <2>1. CASE m_db # None
    <3>1. main' = [at |-> "stop", new |-> None, held |-> None, then |-> "close"]
      BY <1>3, <2>1 DEF OnClose
    <3>2. QED
      BY <1>3, <2>1, <3>1 DEF OnClose
  <2>2. CASE m_db = None
    BY <1>3, <2>2 DEF OnClose
  <2>3. QED
    BY <2>1, <2>2
<1>4. CASE \E o \in Docs : CloseDocument(o) \/ OnTableDataEdit(o)
  BY <1>4 DEF CloseDocument, OnTableDataEdit
<1>5. QED
  BY <1>1, <1>2, <1>3, <1>4 DEF UserStep

(* The invariant is inductive. *)
LEMMA NextInv == IInv /\ [Next]_vars => IInv'
<1> SUFFICES ASSUME IInv, [Next]_vars PROVE IInv'
  OBVIOUS
<1>1. CASE UNCHANGED vars
  BY <1>1 DEF vars, threadVars, frameVars, IInv, TypeOK, PollerInv, HandlerInv,
     DbInv, MainInv, FrameInv, CancelInv, Alive
<1>2. CASE Next
  BY <1>2, PollerStepInv, StopStepInv, ReplaceStepInv, UserStepInv
     DEF Next, MainStep
<1>3. QED
  BY <1>1, <1>2

-----------------------------------------------------------------------------
(* The inductive invariant holds in every state of the program. *)
THEOREM Invariance == Spec => []IInv
BY InitInv, NextInv, PTL DEF Spec

(* Every variable keeps its type, for any number of databases and threads. *)
THEOREM TypeCorrect == Spec => []TypeOK
<1>1. IInv => TypeOK
  BY DEF IInv
<1>2. QED
  BY <1>1, Invariance, PTL

(* The database and the frame outlive the thread that uses them: Connect()  *)
(* and ~MainFrame delete only after m_handler was seen to be null.         *)
THEOREM PointersValid == Spec => []PollerPointersValid
<1>1. IInv => PollerPointersValid
  BY NoneAssumption
     DEF IInv, TypeOK, PollerInv, HandlerInv, DbInv, FrameInv, PollerPointersValid
<1>2. QED
  BY <1>1, Invariance, PTL

(* Delete() is called on a thread that lives, though without the lock.     *)
THEOREM DeleteSafe == Spec => []DeleteFindsThread
<1>1. IInv => DeleteFindsThread
  BY DEF IInv, HandlerInv, MainInv, DeleteFindsThread, Alive
<1>2. QED
  BY <1>1, Invariance, PTL

(* There is at most one polling thread, however often the profile changes. *)
THEOREM Single == Spec => []OnePoller
<1>1. IInv => OnePoller
  BY DEF IInv, PollerInv, OnePoller
<1>2. QED
  BY <1>1, Invariance, PTL

(* Connected means polled, also after a thread that did not start.         *)
THEOREM Polled == Spec => []ConnectedIsPolled
<1>1. IInv => ConnectedIsPolled
  BY NoneAssumption
     DEF IInv, TypeOK, PollerInv, HandlerInv, MainInv, ConnectedIsPolled
<1>2. QED
  BY <1>1, Invariance, PTL

(* Every database that ConnectToDb returned is deleted with the frame.     *)
THEOREM NothingLeft == Spec => []NoDatabaseLeft
<1>1. IInv => NoDatabaseLeft
  <2> SUFFICES ASSUME DbInv, MainInv, FrameInv, frame = "gone",
                      NEW d \in Databases, db[d] = "open"
               PROVE  FALSE
    BY DEF IInv, NoDatabaseLeft
  <2>1. main.at = "idle"
    BY DEF FrameInv
  <2>2. main.new = None
    BY <2>1 DEF MainInv
  <2>3. m_db = None
    BY DEF FrameInv
  <2>4. d = m_db \/ d = main.new
    BY DEF DbInv
  <2>5. QED
    BY <2>2, <2>3, <2>4, NoneAssumption
<1>2. QED
  BY <1>1, Invariance, PTL

-----------------------------------------------------------------------------
(* With a careful user the documents keep the database of the frame until   *)
(* the frame is gone, and none is open while Connect() is at work.         *)
DocsInv ==
  frame # "gone" =>
    /\ \A o \in Docs : docs[o] # None => docs[o] = m_db
    /\ main.new # None \/ main.at = "discard" => \A o \in Docs : docs[o] = None

(* A change of profile finds no document; OnDatabase, OnQuery and OnTable   *)
(* connect only without a database, hence without a document.              *)
LEMMA DocsStep ==
  ASSUME Careful, IInv, DocsInv, [Next]_vars
  PROVE  DocsInv'
<1> USE NoneAssumption DEF DocsInv, IInv, TypeOK
<1>1. CASE UNCHANGED vars
  BY <1>1 DEF vars, threadVars, frameVars
<1>2. ASSUME NEW t \in Pollers, PollerStep(t)
      PROVE  DocsInv'
  BY <1>2 DEF PollerStep, TestDestroy, Lock, NewTableCreation, ShowErrors,
     WaitForMutex, ClearHandler, frameVars
<1>3. CASE AwaitMutex \/ CheckHandler \/ DeleteHandler \/ LookAtHandler \/ Destroy
  <2>1. CASE AwaitMutex \/ CheckHandler \/ DeleteHandler \/ LookAtHandler
    <3>1. UNCHANGED <<m_db, frame, docs>> /\ main'.new = main.new
      BY <1>3, <2>1 DEF AwaitMutex, CheckHandler, DeleteHandler, LookAtHandler,
         frameVars, MainGoto
    <3>2. main'.at # "discard"
      BY <2>1 DEF AwaitMutex, CheckHandler, DeleteHandler, LookAtHandler, MainGoto
    <3>3. QED
      BY <3>1, <3>2
  <2>2. CASE Destroy
    BY <2>2 DEF Destroy, MainAt, Idle, FrameInv
  <2>3. QED
    BY <1>3, <2>1, <2>2
<1>4. CASE CreateDatabaseWindow
  BY <1>4 DEF CreateDatabaseWindow, OpenDocument, MainAt, Idle, MainInv
<1>5. CASE Replace \/ ReplaceFails
  BY <1>5 DEF Replace, ReplaceFails, MainAt, Idle, MainInv, Stopping
<1>6. CASE Discard \/ BeginDestruction \/ DestroyFrame
  BY <1>6 DEF Discard, BeginDestruction, DestroyFrame, Idle, MainAt, MainGoto,
     frameVars
<1>7. CASE OnWindow
  BY <1>7 DEF OnWindow, Connect, Ready, MainAt, MainGoto, MainInv
<1>8. CASE OnDatabaseProfile
  BY <1>8 DEF OnDatabaseProfile, Connect, Ready, MainAt
<1>9. CASE OnClose
  BY <1>9 DEF OnClose, Ready, MainAt, Idle
<1>10. CASE \E o \in Docs : CloseDocument(o) \/ OnTableDataEdit(o)
  BY <1>10 DEF CloseDocument, OnTableDataEdit, Ready, MainAt, MainInv
<1>11. QED
  BY <1>1, <1>2, <1>3, <1>4, <1>5, <1>6, <1>7, <1>8, <1>9, <1>10
     DEF Next, MainStep, UserStep
=============================================================================
