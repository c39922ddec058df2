--------------------------- MODULE TableRetrieval ---------------------------
(***************************************************************************)
(* Retrieval of a table's rows into a grid (libtabledataedit).             *)
(*                                                                         *)
(* Every TableEditView starts a detached DBTableEdit thread.  The thread   *)
(* holds Database::Impl::my_mutex from the preparation of the SELECT to    *)
(* its finalization; every row goes to the main thread by CallAfter and    *)
(* the thread polls the flag of its DataRetriever until the row has been   *)
(* displayed.  A last thread event makes the view wait, in the main        *)
(* thread, until the destructor of the thread has cleared m_handler.       *)
(*                                                                         *)
(* One action is one stretch of code between two points where another      *)
(* thread can interfere: a lock, an unlock, an event posted, a flag read.  *)
(***************************************************************************)
EXTENDS Integers, Sequences, SequencesExt

CONSTANTS
  Views,       (* the TableEditView windows                                *)
  Threads,     (* the DBTableEdit threads that may ever be created (bound) *)
  App,         (* wxTheApp as an event handler                             *)
  Free,        (* the mutex, when nobody owns it                           *)
  None,        (* a null pointer                                           *)
  NumRows,     (* the number of rows the SELECT returns (bound)            *)
  MaxClicks,   (* how often the user presses Cancel/Execute (bound)        *)
  Eager,       (* the user acts on views that have not settled             *)
  Syntax,      (* another window exports the creation syntax meanwhile     *)
  RunFails     (* wxThread::Run may fail                                   *)

Handlers == Views \cup {App}

ASSUME SizesAssumption == NumRows \in Nat /\ MaxClicks \in Nat
ASSUME FlagsAssumption ==
  Eager \in BOOLEAN /\ Syntax \in BOOLEAN /\ RunFails \in BOOLEAN
ASSUME NamesAssumption ==
  /\ Views \cap Threads = {}
  /\ App \notin Views
  /\ Free \notin Threads
  /\ None \notin Views \cup Threads

VARIABLES
  mutex,      (* my_mutex: its owner or Free                               *)
  pc,         (* where a DBTableEdit thread is in Entry() or its destructor*)
  view,       (* the view whose DataRetriever the thread works for         *)
  continue,   (* m_continueProcessing of the thread                        *)
  cancel,     (* the flag wxThread::Delete() sets and TestDestroy() reads  *)
  fetched,    (* how many rows the thread has taken from its statement     *)
  stmt,       (* m_stmt of the database: the thread whose SELECT it is     *)
  handler,    (* m_handler of a view                                       *)
  processed,  (* m_processed of the view's DataRetriever                   *)
  life,       (* "new", "open" or "freed": the view and its DataRetriever  *)
  executing,  (* m_queryexecuting of a view                                *)
  shown,      (* m_processed of a view: the next row of the grid to fill   *)
  batch,      (* the nesting of BeginBatch/EndBatch on the view's grid     *)
  main,       (* what the main thread is doing, and for which view or thread*)
  inbox,      (* pending events of an event handler, oldest first          *)
  ready,      (* the handlers that have pending events, in wxWidgets' order*)
  clicks,     (* how often the user has pressed the button                 *)
  fault       (* the undefined behaviour the program ran into, or "none"   *)

threadVars == <<pc, view, continue, cancel, fetched>>
viewVars   == <<handler, processed, life, executing, shown, batch>>
eventVars  == <<inbox, ready>>
vars == <<mutex, threadVars, stmt, viewVars, main, eventVars, clicks, fault>>

-----------------------------------------------------------------------------
(* wxWidgets' pending events: a handler gets all its events before the next *)
(* handler gets one.                                                       *)

Event == [kind : {"row", "done", "end"}, thread : Threads, row : 0..NumRows]

Post(h, kind, t) ==
  /\ inbox' = [inbox EXCEPT ![h] =
                 Append(@, [kind |-> kind, thread |-> t, row |-> fetched[t]])]
  /\ ready' = IF inbox[h] = <<>> THEN Append(ready, h) ELSE ready

(* The main loop takes the next event, which is for the handler h. *)
Take(h) ==
  /\ main.at = "idle" /\ fault = "none"
  /\ ready # <<>> /\ h = Head(ready) /\ inbox[h] # <<>>
  /\ inbox' = [inbox EXCEPT ![h] = Tail(@)]
  /\ ready' = IF Tail(inbox[h]) = <<>> THEN Tail(ready) ELSE ready

(* A destroyed event handler loses its pending events. *)
DropEvents(v) ==
  /\ inbox' = [inbox EXCEPT ![v] = <<>>]
  /\ \/ inbox[v] = <<>> /\ ready' = ready
     \/ /\ inbox[v] # <<>>
        /\ \E k \in DOMAIN ready : ready[k] = v /\ ready' = RemoveAt(ready, k)

Idle == [at |-> "idle", of |-> None]
Busy(at, of) == [at |-> at, of |-> of]

-----------------------------------------------------------------------------
(* The state of the system. *)

Life == {"new", "open", "freed"}
At == {"idle", "event", "spin", "discard", "destroy", "cancel"}
Pc == {"unborn", "start", "lock", "prepare", "loop", "fetch", "post", "wait",
       "final", "done", "end", "dtor", "dead"}

(* Where a thread is between the lock and the unlock of Entry(). *)
Critical == {"prepare", "loop", "fetch", "post", "wait", "final"}

Init ==
  /\ mutex = Free
  /\ pc = [t \in Threads |-> "unborn"]
  /\ view = [t \in Threads |-> None]
  /\ continue = [t \in Threads |-> TRUE]
  /\ cancel = [t \in Threads |-> FALSE]
  /\ fetched = [t \in Threads |-> 0]
  /\ stmt = None
  /\ handler = [v \in Views |-> None]
  /\ processed = [v \in Views |-> FALSE]
  /\ life = [v \in Views |-> "new"]
  /\ executing = [v \in Views |-> FALSE]
  /\ shown = [v \in Views |-> 0]
  /\ batch = [v \in Views |-> 0]
  /\ main = Idle
  /\ inbox = [h \in Handlers |-> <<>>]
  /\ ready = <<>>
  /\ clicks = 0
  /\ fault = "none"

Alive(t) == pc[t] \notin {"unborn", "dead"}

(* Nothing of the view's last retrieval is left: no thread, no event. *)
Settled(v) ==
  /\ \A t \in Threads : Alive(t) => view[t] # v
  /\ inbox[v] = <<>>
  /\ \A i \in DOMAIN inbox[App] : view[inbox[App][i].thread] # v

(* The retrieval of the view is still under way. *)
UnderWay(v) ==
  handler[v] # None /\ pc[handler[v]] \in {"start", "lock"} \cup Critical

(* When the user touches the view: at any time, or only when it is safe. *)
MayCancel(v)  == Eager \/ UnderWay(v)
MayRestart(v) == Eager \/ Settled(v)

-----------------------------------------------------------------------------
(* DBTableEdit: construction, Entry() and destructor. *)

At_(t, here) == pc[t] = here /\ fault = "none"
Goto(t, there) == pc' = [pc EXCEPT ![t] = there]
Open(t) == life[view[t]] = "open"

(* while( !TestDestroy() ): a thread deleted before it starts skips it all. *)
EnterLoop(t) ==
  /\ At_(t, "start")
  /\ Goto(t, IF cancel[t] THEN "end" ELSE "lock")
  /\ UNCHANGED <<mutex, view, continue, cancel, fetched, stmt, viewVars, main,
                 eventVars, clicks, fault>>

(* A plausible slip: the lock object is a temporary, gone at the semicolon. *)
LockTemporary(t) ==
  /\ At_(t, "lock")
  /\ mutex = Free /\ mutex' = Free
  /\ Goto(t, "prepare")
  /\ UNCHANGED <<view, continue, cancel, fetched, stmt, viewVars, main,
                 eventVars, clicks, fault>>

Lock(t) ==
  /\ At_(t, "lock")
  /\ mutex = Free /\ mutex' = t
  /\ Goto(t, "prepare")
  /\ UNCHANGED <<view, continue, cancel, fetched, stmt, viewVars, main,
                 eventVars, clicks, fault>>

PrepareStatement(t) ==
  /\ At_(t, "prepare")
  /\ stmt' = t
  /\ Goto(t, "loop")
  /\ UNCHANGED <<mutex, view, continue, cancel, fetched, viewVars, main,
                 eventVars, clicks, fault>>

(* The thread finalizes, and calls its own Delete(), which wxThread refuses. *)
PrepareFails(t) ==
  /\ At_(t, "prepare")
  /\ stmt' = None
  /\ mutex' = Free
  /\ Goto(t, "done")
  /\ UNCHANGED <<view, continue, cancel, fetched, viewVars, main, eventVars,
                 clicks, fault>>

(* while( !res && m_continueProcessing ) *)
TestContinue(t) ==
  /\ At_(t, "loop")
  /\ Goto(t, IF continue[t] THEN "fetch" ELSE "final")
  /\ UNCHANGED <<mutex, view, continue, cancel, fetched, stmt, viewVars, main,
                 eventVars, clicks, fault>>

(* A plausible slip: the end of the data is not recognised. *)
FetchPastEnd(t) ==
  /\ At_(t, "fetch") /\ Open(t) /\ stmt = t
  /\ fetched' = [fetched EXCEPT ![t] = @ + 1]
  /\ processed' = [processed EXCEPT ![view[t]] = TRUE]
  /\ Goto(t, "post")
  /\ UNCHANGED <<mutex, view, continue, cancel, stmt, handler, life, executing,
                 shown, batch, main, eventVars, clicks, fault>>

(* EditTableData returns a row, and the thread sets the retriever's flag. *)
FetchRow(t) ==
  /\ At_(t, "fetch") /\ Open(t) /\ stmt = t
  /\ fetched[t] < NumRows
  /\ fetched' = [fetched EXCEPT ![t] = @ + 1]
  /\ processed' = [processed EXCEPT ![view[t]] = TRUE]
  /\ Goto(t, "post")
  /\ UNCHANGED <<mutex, view, continue, cancel, stmt, handler, life, executing,
                 shown, batch, main, eventVars, clicks, fault>>

(* A plausible slip: EditTableData finalizes the statement on an error. *)
FetchEndsFinalized(t) ==
  /\ At_(t, "fetch") /\ stmt = t
  /\ stmt' = None
  /\ Goto(t, "final")
  /\ UNCHANGED <<mutex, view, continue, cancel, fetched, viewVars, main,
                 eventVars, clicks, fault>>

(* NO_MORE_ROWS, or an error, which can come at any row. *)
FetchEnds(t) ==
  /\ At_(t, "fetch") /\ stmt = t
  /\ Goto(t, "final")
  /\ UNCHANGED <<mutex, view, continue, cancel, fetched, stmt, viewVars, main,
                 eventVars, clicks, fault>>

PostRow(t) ==
  /\ At_(t, "post")
  /\ Post(App, "row", t)
  /\ Goto(t, "wait")
  /\ UNCHANGED <<mutex, view, continue, cancel, fetched, stmt, viewVars, main,
                 clicks, fault>>

(* A plausible slip: the thread goes on before its row is displayed. *)
RowNotAwaited(t) ==
  /\ At_(t, "wait") /\ Open(t)
  /\ Goto(t, "loop")
  /\ UNCHANGED <<mutex, view, continue, cancel, fetched, stmt, viewVars, main,
                 eventVars, clicks, fault>>

(* while( m_retriever->GetProcessed() ) wxSleep( 2 ); *)
RowProcessed(t) ==
  /\ At_(t, "wait") /\ Open(t)
  /\ ~processed[view[t]]
  /\ Goto(t, "loop")
  /\ UNCHANGED <<mutex, view, continue, cancel, fetched, stmt, viewVars, main,
                 eventVars, clicks, fault>>

(* SetProcessed( false ), FinalizeStatement() and the end of the lock's scope. *)
FinalizeStatement(t) ==
  /\ At_(t, "final") /\ Open(t) /\ stmt = t
  /\ processed' = [processed EXCEPT ![view[t]] = FALSE]
  /\ stmt' = None
  /\ mutex' = Free
  /\ Goto(t, "done")
  /\ UNCHANGED <<view, continue, cancel, fetched, handler, life, executing,
                 shown, batch, main, eventVars, clicks, fault>>

PostCompletion(t) ==
  /\ At_(t, "done")
  /\ Post(App, "done", t)
  /\ Goto(t, "end")
  /\ UNCHANGED <<mutex, view, continue, cancel, fetched, stmt, viewVars, main,
                 clicks, fault>>

(* wxQueueEvent( m_retriever->m_handler, new wxThreadEvent ) *)
PostThreadEvent(t) ==
  /\ At_(t, "end") /\ Open(t)
  /\ Post(view[t], "end", t)
  /\ Goto(t, "dtor")
  /\ UNCHANGED <<mutex, view, continue, cancel, fetched, stmt, viewVars, main,
                 clicks, fault>>

(* A plausible slip: the destructor does not clear m_handler. *)
DestructKeepsHandler(t) ==
  /\ At_(t, "dtor") /\ Open(t)
  /\ mutex = Free
  /\ Goto(t, "dead")
  /\ UNCHANGED <<mutex, view, continue, cancel, fetched, stmt, viewVars, main,
                 eventVars, clicks, fault>>

(* ~DBTableEdit: under the lock, the view of the retriever forgets whatever *)
(* thread its m_handler points to.                                         *)
Destruct(t) ==
  /\ At_(t, "dtor") /\ Open(t)
  /\ mutex = Free
  /\ handler' = [handler EXCEPT ![view[t]] = None]
  /\ Goto(t, "dead")
  /\ UNCHANGED <<mutex, view, continue, cancel, fetched, stmt, processed, life,
                 executing, shown, batch, main, eventVars, clicks, fault>>

(* A thread that reaches for a DataRetriever or a view that is gone. *)
UseFreedRetriever(t) ==
  /\ pc[t] \in {"fetch", "wait", "final", "end", "dtor"}
  /\ life[view[t]] = "freed" /\ fault = "none"
  /\ fault' = "freed"
  /\ UNCHANGED <<mutex, threadVars, stmt, viewVars, main, eventVars, clicks>>

(* A thread that steps or finalizes a statement another call has finalized. *)
UseLostStatement(t) ==
  /\ pc[t] \in {"fetch", "final"}
  /\ stmt # t /\ fault = "none"
  /\ fault' = "statement"
  /\ UNCHANGED <<mutex, threadVars, stmt, viewVars, main, eventVars, clicks>>

ThreadStep(t) ==
  \/ EnterLoop(t) \/ Lock(t) \/ PrepareStatement(t) \/ PrepareFails(t)
  \/ TestContinue(t) \/ FetchRow(t) \/ FetchEnds(t) \/ PostRow(t)
  \/ RowProcessed(t) \/ FinalizeStatement(t) \/ PostCompletion(t)
  \/ PostThreadEvent(t) \/ Destruct(t)
  \/ UseFreedRetriever(t) \/ UseLostStatement(t)

-----------------------------------------------------------------------------
(* The main thread: TableEditView and DataRetriever. *)

MainIdle == main.at = "idle" /\ fault = "none"

(* new DBTableEdit( ..., m_retriever ), BeginBatch, m_processed = 0, Run().  *)
(* When Run fails the object is deleted: ~DBTableEdit waits for the mutex. *)
Launch(v, t) ==
  /\ pc[t] = "unborn"
  /\ view' = [view EXCEPT ![t] = v]
  /\ handler' = [handler EXCEPT ![v] = t]
  /\ shown' = [shown EXCEPT ![v] = 0]
  /\ batch' = [batch EXCEPT ![v] = @ + 1]
  /\ executing' = [executing EXCEPT ![v] = TRUE]
  /\ \/ Goto(t, "start") /\ main' = main
     \/ RunFails /\ Goto(t, "dead") /\ main' = Busy("discard", v)

OnCreate(v) ==
  /\ MainIdle
  /\ life[v] = "new"
  /\ life' = [life EXCEPT ![v] = "open"]
  /\ \E t \in Threads : Launch(v, t)
  /\ UNCHANGED <<mutex, continue, cancel, fetched, stmt, processed, eventVars,
                 clicks, fault>>

(* delete m_handler; m_handler = NULL; after a failed Run. *)
DiscardThread(v) ==
  /\ main = Busy("discard", v) /\ fault = "none"
  /\ mutex = Free
  /\ handler' = [handler EXCEPT ![v] = None]
  /\ main' = Idle
  /\ UNCHANGED <<mutex, threadVars, stmt, processed, life, executing, shown,
                 batch, eventVars, clicks, fault>>

Click(v) ==
  /\ MainIdle /\ life[v] = "open"
  /\ clicks < MaxClicks
  /\ clicks' = clicks + 1

(* OnCancelQuery while m_queryexecuting: m_handler is loaded, unlocked ... *)
CancelQuery(v) ==
  /\ Click(v) /\ executing[v] /\ MayCancel(v)
  /\ handler[v] # None
  /\ main' = Busy("cancel", handler[v])
  /\ UNCHANGED <<mutex, threadVars, stmt, viewVars, eventVars, fault>>

(* ... CancelProcessing() writes to the thread object it points to ... *)
CancelProcessing(t) ==
  /\ main = Busy("cancel", t) /\ fault = "none"
  /\ Alive(t)
  /\ continue' = [continue EXCEPT ![t] = FALSE]
  /\ executing' = [executing EXCEPT ![view[t]] = FALSE]
  /\ main' = Idle
  /\ UNCHANGED <<mutex, pc, view, cancel, fetched, stmt, handler, processed,
                 life, shown, batch, eventVars, clicks, fault>>

(* ... or to freed memory, when the thread has ended since the load. *)
CancelStale(t) ==
  /\ main = Busy("cancel", t) /\ fault = "none"
  /\ ~Alive(t)
  /\ fault' = "stale"
  /\ UNCHANGED <<mutex, threadVars, stmt, viewVars, main, eventVars, clicks>>

(* The same through a null m_handler. *)
CancelNothing(v) ==
  /\ Click(v) /\ executing[v] /\ MayCancel(v)
  /\ handler[v] = None
  /\ fault' = "null"
  /\ UNCHANGED <<mutex, threadVars, stmt, viewVars, main, eventVars>>

(* OnCancelQuery otherwise: a new thread for the same view and retriever. *)
RestartQuery(v) ==
  /\ Click(v) /\ ~executing[v] /\ MayRestart(v)
  /\ \E t \in Threads : Launch(v, t)
  /\ UNCHANGED <<mutex, continue, cancel, fetched, stmt, processed, life,
                 eventVars, fault>>

(* The callback wxTheApp runs next, and the view it is for. *)
Callback == Head(inbox[App])
Target == view[Callback.thread]

(* A plausible slip: the flag of the retriever is not reset. *)
DisplayKeepsFlag ==
  /\ Take(App) /\ Callback.kind = "row"
  /\ life[Target] = "open"
  /\ shown' = [shown EXCEPT ![Target] = @ + 1]
  /\ UNCHANGED <<mutex, threadVars, stmt, handler, processed, life, executing,
                 batch, main, clicks, fault>>

(* DataRetriever::DisplayData: TableEditView::DisplayRecords, then the flag. *)
DisplayData ==
  /\ Take(App) /\ Callback.kind = "row"
  /\ life[Target] = "open"
  /\ shown' = [shown EXCEPT ![Target] = @ + 1]
  /\ processed' = [processed EXCEPT ![Target] = FALSE]
  /\ UNCHANGED <<mutex, threadVars, stmt, handler, life, executing, batch, main,
                 clicks, fault>>

(* A plausible slip: the grid's batch is not ended. *)
CompleteKeepsBatch ==
  /\ Take(App) /\ Callback.kind = "done"
  /\ life[Target] = "open"
  /\ executing' = [executing EXCEPT ![Target] = FALSE]
  /\ UNCHANGED <<mutex, threadVars, stmt, handler, processed, life, shown,
                 batch, main, clicks, fault>>

(* A plausible slip: with the rows complete, the view forgets its thread. *)
CompleteForgetsThread ==
  /\ Take(App) /\ Callback.kind = "done"
  /\ life[Target] = "open"
  /\ handler' = [handler EXCEPT ![Target] = None]
  /\ batch' = [batch EXCEPT ![Target] = @ - 1]
  /\ executing' = [executing EXCEPT ![Target] = FALSE]
  /\ UNCHANGED <<mutex, threadVars, stmt, processed, life, shown,
                 main, clicks, fault>>

(* DataRetriever::CompleteDataRetrieval: TableEditView::CompleteRetrieval. *)
CompleteRetrieval ==
  /\ Take(App) /\ Callback.kind = "done"
  /\ life[Target] = "open"
  /\ batch' = [batch EXCEPT ![Target] = @ - 1]
  /\ executing' = [executing EXCEPT ![Target] = FALSE]
  /\ UNCHANGED <<mutex, threadVars, stmt, handler, processed, life, shown, main,
                 clicks, fault>>

(* The same through a retriever that has been deleted. *)
CallFreedRetriever ==
  /\ Take(App)
  /\ life[Target] = "freed"
  /\ fault' = "freed"
  /\ UNCHANGED <<mutex, threadVars, stmt, viewVars, main, clicks>>

(* ThreadEventHandler: the event arrives ... *)
ThreadEventHandler(v) ==
  /\ Take(v)
  /\ main' = Busy("event", v)
  /\ UNCHANGED <<mutex, threadVars, stmt, viewVars, clicks, fault>>

(* ... the thread is told to stop, under the lock ... *)
DeleteThread(v) ==
  /\ main = Busy("event", v) /\ fault = "none"
  /\ mutex = Free
  /\ \/ handler[v] # None /\ cancel' = [cancel EXCEPT ![handler[v]] = TRUE]
     \/ handler[v] = None /\ cancel' = cancel
  /\ main' = Busy("spin", v)
  /\ UNCHANGED <<mutex, pc, view, continue, fetched, stmt, viewVars, eventVars,
                 clicks, fault>>

(* ... and the loop ends when the lock shows that m_handler is null. *)
ThreadGone(v) ==
  /\ main = Busy("spin", v) /\ fault = "none"
  /\ mutex = Free
  /\ handler[v] = None
  /\ main' = Idle
  /\ UNCHANGED <<mutex, threadVars, stmt, viewVars, eventVars, clicks, fault>>

(* ~TableEditView: delete m_retriever, then the thread if there is one. *)
CloseView(v) ==
  /\ MainIdle /\ life[v] = "open" /\ MayRestart(v)
  /\ life' = [life EXCEPT ![v] = "freed"]
  /\ DropEvents(v)
  /\ main' = IF handler[v] = None THEN Idle ELSE Busy("destroy", v)
  /\ UNCHANGED <<mutex, threadVars, stmt, handler, processed, executing, shown,
                 batch, clicks, fault>>

(* delete m_handler: its destructor locks, then follows m_retriever. *)
DestroyThread(v) ==
  /\ main = Busy("destroy", v) /\ fault = "none"
  /\ mutex = Free
  /\ fault' = "freed"
  /\ UNCHANGED <<mutex, threadVars, stmt, viewVars, main, eventVars, clicks>>

(* DrawingView::OnExportSyntax: GetTableCreationSyntax, without the lock,   *)
(* prepares and finalizes its own statement in m_stmt.                     *)
ExportSyntax ==
  /\ Syntax /\ MainIdle
  /\ stmt # None
  /\ stmt' = None
  /\ UNCHANGED <<mutex, threadVars, viewVars, main, eventVars, clicks, fault>>

Dispatch ==
  \/ DisplayData \/ CompleteRetrieval \/ CallFreedRetriever
  \/ \E v \in Views : ThreadEventHandler(v)

ViewStep(v) ==
  DiscardThread(v) \/ DeleteThread(v) \/ ThreadGone(v) \/ DestroyThread(v)

MainStep ==
  \/ Dispatch
  \/ \E v \in Views : ViewStep(v)
  \/ \E t \in Threads : CancelProcessing(t) \/ CancelStale(t)

UserStep ==
  \/ ExportSyntax
  \/ \E v \in Views : \/ OnCreate(v) \/ CancelQuery(v) \/ CancelNothing(v)
                      \/ RestartQuery(v) \/ CloseView(v)

Next == MainStep \/ UserStep \/ \E t \in Threads : ThreadStep(t)

Spec == Init /\ [][Next]_vars

(* The operating system runs every thread and the main loop; the user need  *)
(* not do anything.                                                        *)
Fairness == WF_vars(MainStep) /\ \A t \in Threads : WF_vars(ThreadStep(t))

FairSpec == Spec /\ Fairness

-----------------------------------------------------------------------------
(* Properties. *)

(* Every variable stays within its type. *)
TypeOK ==
  /\ mutex \in Threads \cup {Free}
  /\ pc \in [Threads -> Pc]
  /\ view \in [Threads -> Views \cup {None}]
  /\ continue \in [Threads -> BOOLEAN]
  /\ cancel \in [Threads -> BOOLEAN]
  /\ fetched \in [Threads -> 0..NumRows]
  /\ stmt \in Threads \cup {None}
  /\ handler \in [Views -> Threads \cup {None}]
  /\ processed \in [Views -> BOOLEAN]
  /\ life \in [Views -> Life]
  /\ executing \in [Views -> BOOLEAN]
  /\ shown \in [Views -> Nat]
  /\ batch \in [Views -> Int]
  /\ main \in [at : At, of : Views \cup Threads \cup {None}]
  /\ inbox \in [Handlers -> Seq(Event)]
  /\ ready \in Seq(Handlers)
  /\ clicks \in 0..MaxClicks
  /\ fault \in {"none", "freed", "null", "statement", "stale"}

(* Two retrievals never use the connection and its one m_stmt at a time,    *)
(* however often threads are started for the same or another view: Entry()  *)
(* keeps the lock of dbtableedit.cpp:63 until after FinalizeStatement.      *)
ConnectionExclusive ==
  \A t, u \in Threads : pc[t] \in Critical /\ pc[u] \in Critical => t = u

(* A row on its way to the grid is the row its thread's statement is on, and *)
(* it is the only one: a BLOB cell points into the statement's memory, which *)
(* the next sqlite3_step or sqlite3_finalize frees (the m_processed flag).   *)
RowHandshake ==
  \A i \in DOMAIN inbox[App] :
    LET e == inbox[App][i] IN
    e.kind = "row" =>
      /\ pc[e.thread] = "wait" /\ e.row = fetched[e.thread]
      /\ \A j \in DOMAIN inbox[App] : inbox[App][j].kind = "row" => j = i

(* m_handler of a view never points to a thread object that is gone: the     *)
(* Delete() of tableeditview.cpp:172 goes through it, under the lock.        *)
HandlerAlive ==
  \A v \in Views :
    handler[v] # None => Alive(handler[v]) \/ main = Busy("discard", v)

(* A user who waits for a retrieval to settle before executing again or      *)
(* closing the view, and cancels only a retrieval under way, meets no        *)
(* undefined behaviour (null m_handler, freed view, lost statement) but the  *)
(* one no patience avoids: the thread may end between the load of m_handler  *)
(* and the write through it (tableeditview.cpp:242), which takes no lock.    *)
NoFault == fault \in {"none", "stale"}

(* After the last event of a retrieval the view is as before it: updates of  *)
(* the grid enabled again, the button on Execute, no thread (EndBatch,       *)
(* m_queryexecuting and m_handler are reset in three different places).      *)
SettledClean ==
  \A v \in Views :
    life[v] = "open" /\ Settled(v) /\ main = Idle =>
      batch[v] = 0 /\ ~executing[v] /\ handler[v] = None

(* A started retrieval ends, cancelled or not: the thread is destroyed.      *)
RetrievalEnds ==
  \A t \in Threads : pc[t] = "start" ~> pc[t] = "dead"

(* The main thread comes back from ThreadEventHandler, as its comments say:  *)
(* it leaves the critical section "to give the thread the possibility to     *)
(* enter its destructor" (tableeditview.cpp:175) and waits "for thread       *)
(* completion".                                                              *)
HandlerReturns == main.at \in {"event", "spin"} ~> main.at = "idle"

(* "Press Cancel to stop retrieval" (tableeditview.cpp:222): the button, on  *)
(* Cancel, has a thread to stop.                                             *)
CancelFindsThread == fault # "null"

(* "does the thread still exist?" (tableeditview.cpp:170) is answered by     *)
(* m_handler: a view whose m_handler is null has no thread left.             *)
HandlerTracksThread ==
  \A v \in Views : \A t \in Threads :
    handler[v] = None /\ view[t] = v => ~Alive(t)
=============================================================================
