---------------------------- MODULE ProgramProofs ----------------------------
(***************************************************************************)
(* The frame keeps what MainFrameProofs shows of it when retrievals run    *)
(* beside it, on the same mutex or on another, for any number of threads;  *)
(* and the databases outlive the retrievals of a careful user.             *)
(***************************************************************************)
EXTENDS Program, MainFrameProofs

(* A step of a retrieval leaves the frame alone, a step of the frame is one *)
(* of MainFrame that has waited longer for the mutex.                      *)
LEMMA StepRefines ==
  ASSUME [ProgramNext]_programVars, ~\E o \in Docs : OnCreateDatabase(o)
  PROVE  [Next]_vars
<1>1. CASE UNCHANGED programVars
  BY <1>1 DEF programVars
<1>2. CASE FrameStep \/ \E t \in Pollers : PollStep(t)
  BY <1>2 DEF FrameStep, PollStep, Next
<1>3. CASE StopCommand \/ WindowCommand
  BY <1>3 DEF StopCommand, WindowCommand, Next, UserStep
<1>4. CASE \E r \in Retrievals : RetrievalStep(r) \/ DisplayRetrieved(r)
  BY <1>4 DEF RetrievalStep, DisplayRetrieved, LockRetrieval, PostRetrieved,
     EndRetrieval, LeaveRetrieval
<1>5. CASE \E o \in Docs : OpenDataWindow(o)
  BY <1>5 DEF OpenDataWindow, Next, UserStep
<1>6. QED
  BY <1>1, <1>2, <1>3, <1>4, <1>5 DEF ProgramNext

(* Without Create Database, the program implements MainFrame: retrievals may *)
(* delay a step of the frame, and do nothing else to it.                   *)
THEOREM Refinement == ~CreatesDatabases => (ProgramSpec => Spec)
<1> SUFFICES ASSUME ~CreatesDatabases PROVE ProgramSpec => Spec
  OBVIOUS
<1>1. ProgramInit => Init
  BY DEF ProgramInit
<1>2. [ProgramNext]_programVars => [Next]_vars
  BY StepRefines DEF OnCreateDatabase
<1>3. QED
  BY <1>1, <1>2, PTL DEF ProgramSpec, Spec

(* In particular the polling thread never meets a deleted database or frame, *)
(* wherever the retrievals are when the program is closed or reconnected.  *)
THEOREM PointersStayValid ==
  ~CreatesDatabases => (ProgramSpec => []PollerPointersValid)
BY Refinement, PointersValid

-----------------------------------------------------------------------------
(* The part of the frame's type that holds whatever the user does. *)
PointerTypes ==
  /\ m_db \in Databases \cup {None}
  /\ m_handler \in Pollers \cup {None}
  /\ main \in [at : At, new : Databases \cup {None}, held : Pollers \cup {None},
               then : Then]
  /\ docs \in [Docs -> Databases \cup {None}]

(* Pointers stay pointers to databases and threads, or null. *)
LEMMA PointerTypesStep ==
  ASSUME PointerTypes, [ProgramNext]_programVars
  PROVE  PointerTypes'
<1> USE DEF PointerTypes, At, Then, Idle, MainGoto, frameVars, threadVars
<1>1. CASE UNCHANGED vars
  BY <1>1 DEF vars
<1>2. CASE \E o \in Docs : OnCreateDatabase(o)
  BY <1>2 DEF OnCreateDatabase
<1>3. ASSUME NEW t \in Pollers, PollerStep(t)
      PROVE  PointerTypes'
  BY <1>3 DEF PollerStep, TestDestroy, Lock, NewTableCreation, ShowErrors,
     WaitForMutex, ClearHandler
<1>4. CASE AwaitMutex \/ CheckHandler \/ DeleteHandler \/ LookAtHandler
             \/ BeginDestruction
  BY <1>4 DEF AwaitMutex, CheckHandler, DeleteHandler, LookAtHandler, BeginDestruction
<1>5. CASE Replace \/ ReplaceFails \/ Discard
  BY <1>5 DEF Replace, ReplaceFails, Discard
<1>6. CASE CreateDatabaseWindow \/ Destroy \/ DestroyFrame
  BY <1>6 DEF CreateDatabaseWindow, OpenDocument, Destroy, DestroyFrame
<1>7. CASE UserStep
  <2>1. CASE OnWindow
    BY <2>1 DEF OnWindow, Connect
  <2>2. CASE OnDatabaseProfile
    BY <2>2 DEF OnDatabaseProfile, Connect
  <2>3. CASE OnClose
    BY <2>3 DEF OnClose
  <2>4. CASE \E o \in Docs : CloseDocument(o) \/ OnTableDataEdit(o)
    BY <2>4 DEF CloseDocument, OnTableDataEdit
  <2>5. QED
    BY <1>7, <2>1, <2>2, <2>3, <2>4 DEF UserStep
<1>8. QED
  BY <1>1, <1>2, <1>3, <1>4, <1>5, <1>6, <1>7, StepRefines DEF Next, MainStep

(* A step of the program keeps the types of what the composition adds. *)
LEMMA ProgramTypeStep ==
  ASSUME PointerTypes, ProgramTypeOK, [ProgramNext]_programVars
  PROVE  ProgramTypeOK'
<1> USE NoneAssumption DEF ProgramTypeOK, PointerTypes, Active, RetrAt
<1>1. CASE UNCHANGED retrVars
  BY <1>1 DEF retrVars
<1>2. CASE StopCommand
  BY <1>2 DEF StopCommand
<1>3. CASE \E r \in Retrievals : RetrievalStep(r) \/ DisplayRetrieved(r)
  BY <1>3 DEF RetrievalStep, DisplayRetrieved, LockRetrieval, PostRetrieved,
     EndRetrieval, LeaveRetrieval, RetrGoes
<1>4. CASE \E o \in Docs : OpenDataWindow(o)
  <2>1. PICK o \in Docs : OpenDataWindow(o)
    BY <1>4
  <2>2. docs[o] \in Databases
    BY <2>1 DEF OpenDataWindow, OnTableDataEdit
  <2>3. CASE UNCHANGED <<retr, retrDb>>
    BY <2>1, <2>3 DEF OpenDataWindow
  <2>4. CASE \E r \in Retrievals :
               /\ RetrGoes(r, "unborn", "lock")
               /\ retrDb' = [retrDb EXCEPT ![r] = docs[o]]
    BY <2>1, <2>2, <2>4 DEF OpenDataWindow, RetrGoes
  <2>5. QED
    BY <2>1, <2>3, <2>4 DEF OpenDataWindow
<1>5. CASE \E o \in Docs : OnCreateDatabase(o)
  BY <1>5 DEF OnCreateDatabase
<1>6. QED
  BY <1>1, <1>2, <1>3, <1>4, <1>5
     DEF ProgramNext, FrameStep, PollStep, WindowCommand, programVars

(* The types hold at the start. *)
LEMMA ProgramTypeInit == ProgramInit => PointerTypes /\ ProgramTypeOK
<1> SUFFICES ASSUME ProgramInit PROVE PointerTypes /\ ProgramTypeOK
  OBVIOUS
<1>1. PointerTypes
  BY DEF ProgramInit, Init, PointerTypes, At, Then, Idle
<1>2. ProgramTypeOK
  BY DEF ProgramInit, ProgramTypeOK, Active, RetrAt
<1>3. QED
  BY <1>1, <1>2

(* Every variable of the composition keeps its type, whatever the user does. *)
THEOREM ProgramTypeCorrect == ProgramSpec => []ProgramTypeOK
<1>1. PointerTypes /\ ProgramTypeOK /\ [ProgramNext]_programVars
        => PointerTypes' /\ ProgramTypeOK'
  BY PointerTypesStep, ProgramTypeStep
<1>2. QED
  BY <1>1, ProgramTypeInit, PTL DEF ProgramSpec

-----------------------------------------------------------------------------
(* A thread polls only with the mutex, and a retrieval fetches only with its *)
(* own; where these are one, one of them is free.                          *)
ExclusionInv ==
  /\ pc \in [Pollers -> Pc]
  /\ \A t \in Pollers : pc[t] = "poll" => mutex = t
  /\ shared => held = Free \/ mutex = Free

(* Each side takes its mutex when both are free, if they are one. *)
LEMMA ExclusionStep ==
  ASSUME ExclusionInv, [ProgramNext]_programVars
  PROVE  ExclusionInv'
<1> USE NoneAssumption DEF ExclusionInv, Pc
<1>1. CASE UNCHANGED <<pc, mutex, shared, held>>
  BY <1>1
<1>2. ASSUME NEW t \in Pollers, PollStep(t)
      PROVE  ExclusionInv'
  <2>1. UNCHANGED <<shared, held>>
    BY <1>2 DEF PollStep, retrVars
  <2>2. CASE Lock(t)
    <3>1. pc[t] = "lock" /\ mutex = Free /\ mutex' = t
            /\ pc' = [pc EXCEPT ![t] = "poll"]
      BY <2>2 DEF Lock, At_, Goto
    <3>2. shared => held = Free
      BY <1>2, <3>1 DEF PollStep, PollerMutexFree
    <3>3. QED
      BY <2>1, <3>1, <3>2
  <2>3. CASE NewTableCreation(t)
    BY <2>1, <2>3 DEF NewTableCreation, At_, Goto
  <2>4. CASE TestDestroy(t) \/ ShowErrors(t) \/ WaitForMutex(t) \/ ClearHandler(t)
    BY <2>1, <2>4 DEF TestDestroy, ShowErrors, WaitForMutex, ClearHandler, At_, Goto
  <2>5. QED
    BY <1>2, <2>2, <2>3, <2>4 DEF PollStep, PollerStep
<1>3. CASE FrameStep
  <2>1. UNCHANGED <<mutex, shared, held>>
    BY <1>3 DEF FrameStep, MainStep, AwaitMutex, CheckHandler, DeleteHandler,
       LookAtHandler, Replace, ReplaceFails, Discard, CreateDatabaseWindow, Destroy,
       BeginDestruction, DestroyFrame, retrVars
  <2>2. pc' = pc \/ \E t \in Pollers : Goto(t, "test") \/ Goto(t, "dead")
    BY <1>3 DEF FrameStep, MainStep, AwaitMutex, CheckHandler, DeleteHandler,
       LookAtHandler, Replace, ReplaceFails, Discard, CreateDatabaseWindow, Destroy,
       BeginDestruction, DestroyFrame, threadVars
  <2>3. QED
    BY <2>1, <2>2 DEF Goto
<1>4. ASSUME NEW r \in Retrievals, RetrievalStep(r) \/ DisplayRetrieved(r)
      PROVE  ExclusionInv'
  <2>1. UNCHANGED <<pc, mutex, shared>>
    BY <1>4 DEF RetrievalStep, DisplayRetrieved, LockRetrieval, PostRetrieved,
       EndRetrieval, LeaveRetrieval, vars, threadVars
  <2>2. held' = held \/ held' = Free \/ (shared => mutex = Free)
    BY <1>4 DEF RetrievalStep, DisplayRetrieved, LockRetrieval, PostRetrieved,
       EndRetrieval, LeaveRetrieval, RetrievalMutexFree
  <2>3. QED
    BY <2>1, <2>2
<1>5. CASE StopCommand \/ WindowCommand
             \/ \E o \in Docs : OpenDataWindow(o) \/ OnCreateDatabase(o)
  <2>1. UNCHANGED <<pc, mutex, shared, held>>
    BY <1>5 DEF StopCommand, WindowCommand, OpenDataWindow, OnCreateDatabase,
       OnDatabaseProfile, OnClose, OnWindow, CloseDocument, OnTableDataEdit,
       threadVars, retrVars
  <2>2. QED
    BY <2>1
<1>6. QED
  BY <1>1, <1>2, <1>3, <1>4, <1>5
     DEF ProgramNext, programVars, vars, threadVars, retrVars

(* Where the mutex is one, a poll and a retrieval never overlap.           *)
THEOREM Exclusive == ProgramSpec => []PollExcludesRetrieval
<1>1. ProgramInit => ExclusionInv
  BY DEF ProgramInit, Init, ExclusionInv, Pc
<1>2. ExclusionInv /\ [ProgramNext]_programVars => ExclusionInv'
  BY ExclusionStep
<1>3. ExclusionInv => PollExcludesRetrieval
  BY NoneAssumption DEF ExclusionInv, PollExcludesRetrieval
<1>4. QED
  BY <1>1, <1>2, <1>3, PTL DEF ProgramSpec

-----------------------------------------------------------------------------
(* While the user is not rash, a retrieval runs only beside an idle main     *)
(* thread, on the database of the frame.                                   *)
RetrInv ==
  \A r \in Retrievals : Active(r) =>
    /\ retrDb[r] = m_db /\ m_db # None
    /\ main.at \in {"idle", "window"}
    /\ frame = "open"

SafeInv == ~rash => IInv /\ DocsInv /\ RetrInv

(* A command that stops the polling thread finds no retrieval, or is rash;   *)
(* without a database there is no retrieval that Connect() could meet.     *)
LEMMA SafeStep ==
  ASSUME Careful, SafeInv, PointerTypes, ProgramTypeOK, [ProgramNext]_programVars
  PROVE  SafeInv'
<1> SUFFICES ASSUME ~rash' PROVE (IInv /\ DocsInv /\ RetrInv)'
  BY DEF SafeInv
<1>1. ~rash /\ IInv /\ DocsInv /\ RetrInv
  <2>1. rash' = rash \/ rash' = (rash \/ (main' # main /\ \E r \in Retrievals : Active(r)))
          \/ rash' = TRUE
    BY DEF ProgramNext, FrameStep, PollStep, StopCommand, WindowCommand,
       RetrievalStep, DisplayRetrieved, LockRetrieval, PostRetrieved, EndRetrieval,
       LeaveRetrieval, OpenDataWindow, OnCreateDatabase, retrVars, programVars
  <2>2. ~rash
    BY <2>1
  <2>3. QED
    BY <2>2 DEF SafeInv
<1>2. ~\E o \in Docs : OnCreateDatabase(o)
  BY DEF OnCreateDatabase
<1>3. IInv' /\ DocsInv'
  BY <1>1, <1>2, StepRefines, NextInv, DocsStep
<1>4. RetrInv'
  <2> USE <1>1, NoneAssumption DEF RetrInv, Active, PointerTypes
  <2>1. CASE UNCHANGED programVars
    BY <2>1 DEF programVars, vars, frameVars, retrVars
  <2>2. ASSUME NEW r \in Retrievals, RetrievalStep(r) \/ DisplayRetrieved(r)
        PROVE  RetrInv'
    BY <2>2 DEF RetrievalStep, DisplayRetrieved, LockRetrieval, PostRetrieved,
       EndRetrieval, LeaveRetrieval, RetrGoes, vars, frameVars, ProgramTypeOK
  <2>3. ASSUME NEW t \in Pollers, PollStep(t)
        PROVE  RetrInv'
    BY <2>3 DEF PollStep, PollerStep, TestDestroy, Lock, NewTableCreation, ShowErrors,
       WaitForMutex, ClearHandler, frameVars, retrVars
  <2>4. CASE FrameStep
    <3>1. UNCHANGED <<retr, retrDb>>
      BY <2>4 DEF FrameStep, retrVars
    <3>2. CASE main.at \in {"idle", "window"}
      BY <2>4, <3>1, <3>2 DEF FrameStep, MainStep, AwaitMutex, CheckHandler,
         DeleteHandler, LookAtHandler, Replace, ReplaceFails, Discard,
         CreateDatabaseWindow, Destroy, BeginDestruction, DestroyFrame, MainAt,
         Idle, frameVars
    <3>3. CASE main.at \notin {"idle", "window"}
      BY <3>1, <3>3
    <3>4. QED
      BY <3>2, <3>3
  <2>5. CASE StopCommand
    <3>1. UNCHANGED <<retr, retrDb, m_db>>
      BY <2>5 DEF StopCommand, OnDatabaseProfile, OnClose
    <3>2. CASE \E r \in Retrievals : Active(r)
      <4>1. main' = main
        BY <2>5, <3>2 DEF StopCommand
      <4>2. frame' = frame
        BY <2>5, <3>2, <4>1 DEF StopCommand, OnDatabaseProfile, OnClose, Idle,
           Ready, MainAt
      <4>3. QED
        BY <3>1, <4>1, <4>2
    <3>3. CASE ~\E r \in Retrievals : Active(r)
      BY <3>1, <3>3
    <3>4. QED
      BY <3>2, <3>3
  <2>6. CASE WindowCommand
    <3>1. UNCHANGED <<retr, retrDb, m_db, frame>>
      BY <2>6 DEF WindowCommand, OnWindow, CloseDocument, retrVars
    <3>2. CASE m_db = None
      BY <3>1, <3>2
    <3>3. CASE m_db # None
      BY <2>6, <3>1, <3>3 DEF WindowCommand, OnWindow, CloseDocument, MainGoto
    <3>4. QED
      BY <3>2, <3>3
  <2>7. ASSUME NEW o \in Docs, OpenDataWindow(o)
        PROVE  RetrInv'
    <3>1. UNCHANGED <<m_db, frame, main>> /\ Ready /\ docs[o] # None
      BY <2>7 DEF OpenDataWindow, OnTableDataEdit
    <3>2. docs[o] = m_db
      BY <3>1 DEF DocsInv, Ready
    <3>3. CASE UNCHANGED <<retr, retrDb>>
      BY <3>1, <3>3
    <3>4. CASE \E r \in Retrievals :
                 /\ RetrGoes(r, "unborn", "lock")
                 /\ retrDb' = [retrDb EXCEPT ![r] = docs[o]]
      BY <3>1, <3>2, <3>4 DEF RetrGoes, Ready, MainAt, ProgramTypeOK
    <3>5. QED
      BY <2>7, <3>3, <3>4 DEF OpenDataWindow
  <2>8. QED
    BY <1>2, <2>1, <2>2, <2>3, <2>4, <2>5, <2>6, <2>7 DEF ProgramNext
<1>5. QED
  BY <1>3, <1>4

(* No thread of a careful user's program, polling or retrieving, is left     *)
(* with a deleted database, unless the user stops the polling thread or     *)
(* creates a database while rows are retrieved.                            *)
THEOREM DatabasesSafe == Careful => (ProgramSpec => []DatabasesOutliveThreads)
<1> SUFFICES ASSUME Careful PROVE ProgramSpec => []DatabasesOutliveThreads
  OBVIOUS
<1>1. ProgramInit => SafeInv
  BY InitInv DEF ProgramInit, Init, SafeInv, DocsInv, RetrInv, Active, Idle
<1>2. SafeInv /\ PointerTypes /\ ProgramTypeOK /\ [ProgramNext]_programVars
        => SafeInv' /\ PointerTypes' /\ ProgramTypeOK'
  BY SafeStep, PointerTypesStep, ProgramTypeStep
<1>3. SafeInv => DatabasesOutliveThreads
  <2> SUFFICES ASSUME ~rash, IInv, RetrInv PROVE DatabasesOutliveThreads
    BY DEF SafeInv, DatabasesOutliveThreads
  <2>1. \A r \in Retrievals : Active(r) => db[retrDb[r]] = "open"
    BY DEF IInv, RetrInv, DbInv
  <2>2. \A t \in Pollers : Alive(t) /\ pc[t] # "clear" => db[pollDb[t]] = "open"
    BY NoneAssumption DEF IInv, TypeOK, PollerInv, HandlerInv, DbInv
  <2>3. QED
    BY <2>1, <2>2 DEF DatabasesOutliveThreads
<1>4. QED
  BY <1>1, <1>2, <1>3, ProgramTypeInit, PTL DEF ProgramSpec

(* Nor is a window of such a user, who creates no database, left with one   *)
(* that is deleted or no longer the frame's, however many profiles are      *)
(* tried and however Connect() fails (mainframe.cpp:312, 344).              *)
THEOREM DocumentsValid == Careful => (ProgramSpec => []DocumentsShareDatabase)
<1> SUFFICES ASSUME Careful PROVE ProgramSpec => []DocumentsShareDatabase
  OBVIOUS
<1>1. ProgramInit => SafeInv
  BY InitInv DEF ProgramInit, Init, SafeInv, DocsInv, RetrInv, Active, Idle
<1>2. SafeInv /\ PointerTypes /\ ProgramTypeOK /\ [ProgramNext]_programVars
        => SafeInv' /\ PointerTypes' /\ ProgramTypeOK'
  BY SafeStep, PointerTypesStep, ProgramTypeStep
<1>3. SafeInv => DocumentsShareDatabase
  BY DEF SafeInv, IInv, DbInv, DocsInv, DocumentsShareDatabase
<1>4. QED
  BY <1>1, <1>2, <1>3, ProgramTypeInit, PTL DEF ProgramSpec
=============================================================================
