----------------------- MODULE PatientRetrievalProofs -----------------------
(***************************************************************************)
(* TableRetrieval with a patient user, who waits until a view has settled   *)
(* before executing again or closing it, and exports no syntax meanwhile:   *)
(* for any number of views, threads, rows and clicks there is no undefined  *)
(* behaviour, and a view that has settled is as it was before.             *)
(***************************************************************************)
EXTENDS TableRetrievalProofs

Patient == ~Eager /\ ~Syntax

(* A thread that lives is the one its view points to, and the view is open. *)
Tracked ==
  \A t \in Threads :
    Alive(t) => life[view[t]] = "open" /\ handler[view[t]] = t

(* From the preparation on, m_stmt of the database is that of the thread.   *)
HasStmt == \A t \in Threads : pc[t] \in Critical \ {"prepare"} => stmt = t

(* The events of wxTheApp are for views that are open. *)
EventsOpen ==
  \A i \in DOMAIN inbox[App] :
    LET t == inbox[App][i].thread IN
    pc[t] # "unborn" /\ life[view[t]] = "open"

(* The thread that is discarded never ran. *)
DiscardInv ==
  \A v \in Views :
    main = Busy("discard", v) => handler[v] # None /\ pc[handler[v]] = "dead"

(* The main thread has not deleted a view whose thread lives. *)
Harmless == fault \in {"none", "stale"} /\ main.at # "destroy"

PatientInv == Harmless /\ Tracked /\ HasStmt /\ EventsOpen /\ DiscardInv

-----------------------------------------------------------------------------
(* The queue of wxTheApp. *)

(* What is posted to wxTheApp comes behind the events that are there. *)
LEMMA PostAppends ==
  ASSUME TypeOK, NEW t \in Threads, NEW kind \in {"row", "done", "end"},
         Post(App, kind, t)
  PROVE  /\ DOMAIN inbox[App] = 1..Len(inbox[App]) /\ Len(inbox[App]) \in Nat
         /\ DOMAIN inbox'[App] = 1..(Len(inbox[App]) + 1)
         /\ \A i \in DOMAIN inbox[App] : inbox'[App][i] = inbox[App][i]
         /\ inbox'[App][Len(inbox[App]) + 1] =
              [kind |-> kind, thread |-> t, row |-> fetched[t]]
<1> DEFINE e == [kind |-> kind, thread |-> t, row |-> fetched[t]]
<1>1. inbox'[App] = Append(inbox[App], e) /\ inbox'[App] \in Seq(Event)
  <2>1. App \in Handlers
    BY AppIsHandler
  <2>2. /\ inbox \in [Handlers -> Seq(Event)] /\ ready \in Seq(Handlers)
        /\ fetched \in [Threads -> 0..NumRows]
    BY DEF TypeOK
  <2>3. /\ inbox' \in [Handlers -> Seq(Event)]
        /\ inbox'[App] = Append(inbox[App], e)
    BY <2>1, <2>2, PostType
  <2>4. QED
    BY <2>1, <2>3
<1>2. inbox[App] \in Seq(Event)
  BY AppIsHandler DEF TypeOK
<1>3. e \in Event
  BY DEF Event, TypeOK
<1> HIDE DEF e
<1>4. /\ Len(inbox'[App]) = Len(inbox[App]) + 1
      /\ \A i \in 1..Len(inbox[App]) : inbox'[App][i] = inbox[App][i]
      /\ inbox'[App][Len(inbox[App]) + 1] = e
  BY <1>1, <1>2, <1>3, AppendProperties
<1>5. /\ Len(inbox[App]) \in Nat /\ DOMAIN inbox[App] = 1..Len(inbox[App])
      /\ DOMAIN inbox'[App] = 1..Len(inbox'[App])
  BY <1>1, <1>2, LenProperties
<1>6. QED
  BY <1>4, <1>5 DEF e

(* What is taken from wxTheApp's queue is its head; the others move up.     *)
LEMMA TakeMoves ==
  ASSUME TypeOK, Take(App)
  PROVE  /\ DOMAIN inbox[App] = 1..Len(inbox[App]) /\ Len(inbox[App]) \in Nat \ {0}
         /\ DOMAIN inbox'[App] = 1..(Len(inbox[App]) - 1)
         /\ \A i \in DOMAIN inbox'[App] : inbox'[App][i] = inbox[App][i + 1]
         /\ Callback = inbox[App][1] /\ Callback.thread \in Threads
<1>1. inbox[App] \in Seq(Event) /\ inbox[App] # <<>>
  BY AppIsHandler DEF TypeOK, Take
<1>2. inbox'[App] = Tail(inbox[App])
  BY TakeType, AppIsHandler DEF TypeOK
<1>3. /\ Tail(inbox[App]) \in Seq(Event)
      /\ Len(Tail(inbox[App])) = Len(inbox[App]) - 1
      /\ \A i \in 1..Len(Tail(inbox[App])) :
           Tail(inbox[App])[i] = inbox[App][i + 1]
  BY <1>1, HeadTailProperties
<1>4. /\ Len(inbox[App]) \in Nat \ {0} /\ DOMAIN inbox[App] = 1..Len(inbox[App])
      /\ DOMAIN Tail(inbox[App]) = 1..Len(Tail(inbox[App]))
  BY <1>1, <1>3, EmptySeq, LenProperties
<1>5. Callback = inbox[App][1] /\ Callback.thread \in Threads
  BY <1>1, HeadIsFirst DEF Callback
<1>6. QED
  BY <1>2, <1>3, <1>4, <1>5

(* Only the loop takes events of wxTheApp, and only two calls post some.    *)
LEMMA QueueUser ==
  ASSUME TypeOK, MainStep \/ UserStep
  PROVE  \/ (DisplayData \/ CompleteRetrieval \/ CallFreedRetriever) /\ Take(App)
         \/ inbox'[App] = inbox[App]
<1>1. CASE DisplayData \/ CompleteRetrieval \/ CallFreedRetriever
  BY <1>1 DEF DisplayData, CompleteRetrieval, CallFreedRetriever
<1>2. ASSUME NEW v \in Views, ThreadEventHandler(v)
      PROVE  inbox'[App] = inbox[App]
  BY <1>2, TakeType, AppIsHandler DEF TypeOK, ThreadEventHandler
<1>3. CASE \/ UserStep \/ \E v \in Views : ViewStep(v)
           \/ \E t \in Threads : CancelProcessing(t) \/ CancelStale(t)
  BY <1>3, AppIsHandler DEF TypeOK, UserStep, ViewStep, eventVars,
     ExportSyntax, DiscardThread, DeleteThread, ThreadGone, DestroyThread,
     OnCreate, RestartQuery, CancelQuery, CancelProcessing, CancelStale,
     CancelNothing, CloseView, DropEvents
<1>4. QED
  BY <1>1, <1>2, <1>3 DEF MainStep, Dispatch

LEMMA QueueThread ==
  ASSUME TypeOK, ViewInv, NEW t \in Threads, ThreadStep(t)
  PROVE  \/ PostRow(t) /\ Post(App, "row", t)
         \/ PostCompletion(t) /\ Post(App, "done", t)
         \/ inbox'[App] = inbox[App]
<1>1. CASE PostRow(t) \/ PostCompletion(t)
  BY <1>1 DEF PostRow, PostCompletion
<1>2. CASE PostThreadEvent(t)
  <2>1. view[t] \in Views /\ Post(view[t], "end", t)
    BY <1>2 DEF PostThreadEvent, At_, ViewInv
  <2>2. App \in Handlers /\ view[t] \in Handlers /\ view[t] # App
    BY <2>1, AppIsHandler
  <2>3. /\ inbox \in [Handlers -> Seq(Event)] /\ ready \in Seq(Handlers)
        /\ fetched \in [Threads -> 0..NumRows]
    BY DEF TypeOK
  <2>4. \A g \in Handlers : g # view[t] => inbox'[g] = inbox[g]
    BY <2>1, <2>2, <2>3, PostType
  <2>5. QED
    BY <2>2, <2>4
<1>3. CASE ~PostRow(t) /\ ~PostCompletion(t) /\ ~PostThreadEvent(t)
  BY <1>3 DEF ThreadStep, eventVars, EnterLoop, Lock, PrepareStatement,
     PrepareFails, TestContinue, FetchRow, FetchEnds, RowProcessed,
     FinalizeStatement, Destruct, UseFreedRetriever, UseLostStatement
<1>4. QED
  BY <1>1, <1>2, <1>3

(* The threads of the events are threads. *)
LEMMA EventThread ==
  ASSUME TypeOK, NEW i \in DOMAIN inbox[App]
  PROVE  inbox[App][i].thread \in Threads
<1>1. inbox[App] \in Seq(Event)
  BY AppIsHandler DEF TypeOK
<1>2. inbox[App][i] \in Event
  BY <1>1, ElementOfSeq, LenProperties
<1>3. QED
  BY <1>2 DEF Event

-----------------------------------------------------------------------------
(* What a patient user may do: a view that has settled has no thread and no *)
(* event of wxTheApp.                                                       *)
LEMMA StartsSettled ==
  ASSUME Patient, IInv, PatientInv, NEW v \in Views,
         OnCreate(v) \/ RestartQuery(v) \/ CloseView(v)
  PROVE  /\ MainIdle
         /\ \A t \in Threads : Alive(t) => view[t] # v
         /\ \A i \in DOMAIN inbox[App] : view[inbox[App][i].thread] # v
         /\ OnCreate(v) \/ inbox[v] = <<>>
<1>1. CASE OnCreate(v)
  <2>1. life[v] = "new" /\ MainIdle
    BY <1>1 DEF OnCreate
  <2>2. \A t \in Threads : Alive(t) => view[t] # v
    BY <2>1 DEF PatientInv, Tracked
  <2>3. \A i \in DOMAIN inbox[App] : view[inbox[App][i].thread] # v
    BY <2>1 DEF PatientInv, EventsOpen
  <2>4. QED
    BY <1>1, <2>1, <2>2, <2>3
<1>2. CASE RestartQuery(v) \/ CloseView(v)
  BY <1>2 DEF Patient, RestartQuery, CloseView, Click, MayRestart, Settled
<1>3. QED
  BY <1>1, <1>2

(* A thread that lives has a view that is open, so that no step of a thread *)
(* runs into anything.                                                      *)
LEMMA ThreadHarmless ==
  ASSUME IInv, PatientInv, NEW t \in Threads, ThreadStep(t)
  PROVE  /\ Harmless' /\ life' = life
         /\ ~UseFreedRetriever(t) /\ ~UseLostStatement(t)
<1>1. ~UseFreedRetriever(t)
  BY DEF PatientInv, Tracked, Alive, UseFreedRetriever
<1>2. ~UseLostStatement(t)
  BY DEF PatientInv, HasStmt, Critical, UseLostStatement
<1>3. fault' = fault /\ main' = main /\ life' = life
  BY <1>1, <1>2 DEF ThreadStep, viewVars, EnterLoop, Lock, PrepareStatement,
     PrepareFails, TestContinue, FetchRow, FetchEnds, PostRow, RowProcessed,
     FinalizeStatement, PostCompletion, PostThreadEvent, Destruct
<1>4. QED
  BY <1>1, <1>2, <1>3 DEF PatientInv, Harmless

(* Nor does a step of the main thread: closing a settled view finds no       *)
(* thread, and an event is for a view that is open.                        *)
LEMMA MainHarmless ==
  ASSUME Patient, IInv, PatientInv, MainStep \/ UserStep
  PROVE  Harmless' /\ stmt' = stmt
<1> USE DEF PatientInv, Harmless
<1>1. ~CallFreedRetriever
  <2> SUFFICES ASSUME CallFreedRetriever PROVE FALSE
    OBVIOUS
  <2>1. Take(App) /\ life[view[Callback.thread]] = "freed"
    BY DEF CallFreedRetriever, Target
  <2>2. 1 \in DOMAIN inbox[App] /\ Callback = inbox[App][1]
    BY <2>1, TakeMoves DEF IInv
  <2>3. QED
    BY <2>1, <2>2 DEF EventsOpen
<1>2. ASSUME NEW v \in Views
      PROVE  ~CancelNothing(v) /\ ~DestroyThread(v)
  BY DEF Patient, CancelNothing, MayCancel, UnderWay, DestroyThread, Busy
<1>3. ASSUME NEW v \in Views, CloseView(v)
      PROVE  handler[v] = None
  <2> SUFFICES ASSUME handler[v] # None PROVE FALSE
    OBVIOUS
  <2>1. main.at = "idle" /\ \A t \in Threads : Alive(t) => view[t] # v
    BY <1>3, StartsSettled DEF MainIdle
  <2>2. handler[v] \in Threads
    BY DEF IInv, TypeOK
  <2>3. view[handler[v]] = v /\ Alive(handler[v])
    BY <2>1 DEF IInv, HandlerInv, Alive, Busy
  <2>4. QED
    BY <2>1, <2>2, <2>3
<1>4. ASSUME NEW v \in Views, CloseView(v)
      PROVE  Harmless' /\ stmt' = stmt
  BY <1>3, <1>4 DEF CloseView, Idle
<1>5. ASSUME NEW v \in Views, OnCreate(v) \/ RestartQuery(v)
      PROVE  Harmless' /\ stmt' = stmt
  BY <1>5 DEF OnCreate, RestartQuery, Launch, Busy
<1>6. ASSUME NEW v \in Views, CancelQuery(v) \/ ViewStep(v)
      PROVE  Harmless' /\ stmt' = stmt
  BY <1>2, <1>6 DEF CancelQuery, ViewStep, DiscardThread, DeleteThread,
     ThreadGone, Busy, Idle
<1>a. ASSUME NEW t \in Threads, CancelProcessing(t) \/ CancelStale(t)
      PROVE  Harmless' /\ stmt' = stmt
  BY <1>a DEF CancelProcessing, CancelStale, Idle
<1>7. ~ExportSyntax
  BY DEF Patient, ExportSyntax
<1>8. CASE Dispatch
  BY <1>1, <1>8 DEF Dispatch, DisplayData, CompleteRetrieval,
     ThreadEventHandler, Busy
<1>9. QED
  BY <1>2, <1>4, <1>5, <1>6, <1>7, <1>8, <1>a DEF MainStep, UserStep

(* A thread dies with the m_handler of its view cleared, and no other lives  *)
(* for that view.                                                          *)
LEMMA TrackedStep ==
  ASSUME Patient, IInv, PatientInv, Next
  PROVE  Tracked'
<1> USE DEF IInv, TypeOK, PatientInv
<1>1. ASSUME NEW t \in Threads, ThreadStep(t)
      PROVE  Tracked'
  <2>1. life' = life /\ view' = view
    BY <1>1, ThreadHarmless, ThreadMovesItself
  <2>2. Alive(t)
    BY <1>1 DEF Alive, ThreadStep, At_, EnterLoop, Lock, PrepareStatement,
       PrepareFails, TestContinue, FetchRow, FetchEnds, PostRow, RowProcessed,
       FinalizeStatement, PostCompletion, PostThreadEvent, Destruct,
       UseFreedRetriever, UseLostStatement
  <2>3. CASE Destruct(t)
    <3>1. pc'[t] = "dead" /\ handler' = [handler EXCEPT ![view[t]] = None]
      BY <2>3 DEF Destruct, Goto
    <3>2. ASSUME NEW u \in Threads, Alive(u)'
          PROVE  life'[view'[u]] = "open" /\ handler'[view'[u]] = u
      <4>1. u # t
        BY <3>1, <3>2 DEF Alive
      <4>2. Alive(u) /\ view[u] \in Views
        BY <1>1, <3>2, <4>1, ThreadMovesItself DEF Alive, ViewInv
      <4>3. view[u] # view[t]
        BY <2>2, <4>1, <4>2 DEF Tracked
      <4>4. QED
        BY <2>1, <3>1, <4>2, <4>3 DEF Tracked
    <3>3. QED
      BY <3>2 DEF Tracked
  <2>4. CASE ~Destruct(t)
    <3>1. handler' = handler
      BY <1>1, <2>4 DEF viewVars, ThreadStep, EnterLoop, Lock,
         PrepareStatement, PrepareFails, TestContinue, FetchRow, FetchEnds,
         PostRow, RowProcessed, FinalizeStatement, PostCompletion,
         PostThreadEvent, UseFreedRetriever, UseLostStatement
    <3>2. \A u \in Threads : Alive(u)' => Alive(u)
      BY <1>1, <2>2, ThreadMovesItself DEF Alive
    <3>3. QED
      BY <2>1, <3>1, <3>2 DEF Tracked
  <2>5. QED
    BY <2>3, <2>4
<1>2. ASSUME NEW v \in Views, OnCreate(v) \/ RestartQuery(v)
      PROVE  Tracked'
  <2>1. PICK t \in Threads : Launch(v, t)
    BY <1>2 DEF OnCreate, RestartQuery
  <2>2. /\ pc[t] = "unborn" /\ view' = [view EXCEPT ![t] = v]
        /\ handler' = [handler EXCEPT ![v] = t]
        /\ \A u \in Threads : u # t => pc'[u] = pc[u]
    BY <2>1 DEF Launch, Goto
  <2>3. life'[v] = "open" /\ \A w \in Views : w # v => life'[w] = life[w]
    BY <1>2 DEF OnCreate, RestartQuery, Click
  <2>4. ASSUME NEW u \in Threads, Alive(u)', u # t
        PROVE  life'[view'[u]] = "open" /\ handler'[view'[u]] = u
    <3>1. Alive(u) /\ view'[u] = view[u] /\ view[u] \in Views
      BY <2>2, <2>4 DEF Alive, ViewInv
    <3>2. view[u] # v
      BY <1>2, <3>1, StartsSettled
    <3>3. QED
      BY <2>2, <2>3, <3>1, <3>2 DEF Tracked
  <2>5. QED
    BY <2>2, <2>3, <2>4 DEF Tracked
<1>3. ASSUME NEW v \in Views, CloseView(v)
      PROVE  Tracked'
  <2>1. /\ life' = [life EXCEPT ![v] = "freed"]
        /\ pc' = pc /\ view' = view /\ handler' = handler
    BY <1>3 DEF CloseView, threadVars
  <2>2. \A t \in Threads : Alive(t) => view[t] # v
    BY <1>3, StartsSettled
  <2>3. QED
    BY <2>1, <2>2 DEF Tracked, Alive, ViewInv
<1>4. ASSUME NEW v \in Views, DiscardThread(v)
      PROVE  Tracked'
  <2>1. /\ handler' = [handler EXCEPT ![v] = None]
        /\ main = Busy("discard", v)
        /\ pc' = pc /\ view' = view /\ life' = life
    BY <1>4 DEF DiscardThread, threadVars
  <2>2. \A t \in Threads : Alive(t) => view[t] # v
    BY <2>1 DEF Tracked, DiscardInv, Alive
  <2>3. QED
    BY <2>1, <2>2 DEF Tracked, Alive, ViewInv
<1>5. CASE \/ Dispatch \/ ExportSyntax
           \/ \E v \in Views : \/ CancelQuery(v) \/ CancelNothing(v) \/ DeleteThread(v)
                               \/ ThreadGone(v) \/ DestroyThread(v)
           \/ \E t \in Threads : CancelProcessing(t) \/ CancelStale(t)
  <2>1. pc' = pc /\ view' = view /\ life' = life /\ handler' = handler
    BY <1>5 DEF threadVars, viewVars, Dispatch, DisplayData, CompleteRetrieval,
       CallFreedRetriever, ThreadEventHandler, ExportSyntax, CancelQuery,
       CancelProcessing, CancelStale, CancelNothing, DeleteThread, ThreadGone,
       DestroyThread
  <2>2. QED
    BY <2>1 DEF Tracked, Alive
<1>6. QED
  BY <1>1, <1>2, <1>3, <1>4, <1>5 DEF Next, MainStep, UserStep, ViewStep

(* m_stmt changes hands only with the mutex. *)
LEMMA StmtStep ==
  ASSUME Patient, IInv, PatientInv, Next
  PROVE  HasStmt'
<1> USE DEF PatientInv, HasStmt, Critical
<1>1. CASE MainStep \/ UserStep
  <2>1. stmt' = stmt
    BY <1>1, MainHarmless
  <2>2. \A t \in Threads : pc'[t] \in Critical => pc'[t] = pc[t]
    BY <1>1, MainMovesNoThread
  <2>3. QED
    BY <2>1, <2>2
<1>2. ASSUME NEW t \in Threads, ThreadStep(t)
      PROVE  HasStmt'
  <2>1. \A u \in Threads : u # t => pc'[u] = pc[u]
    BY <1>2, ThreadMovesItself
  <2>2. pc[t] \in Critical => \A u \in Threads : u # t => pc[u] \notin Critical
    BY DEF IInv, LockInv
  <2>3. CASE PrepareStatement(t) \/ PrepareFails(t) \/ FinalizeStatement(t)
    <3>1. pc[t] \in Critical
      BY <2>3 DEF PrepareStatement, PrepareFails, FinalizeStatement, At_
    <3>2. pc'[t] = "done" \/ stmt' = t
      BY <2>3 DEF PrepareStatement, PrepareFails, FinalizeStatement, Goto, IInv, TypeOK
    <3>3. QED
      BY <2>1, <2>2, <3>1, <3>2
  <2>4. CASE ~PrepareStatement(t) /\ ~PrepareFails(t) /\ ~FinalizeStatement(t)
    <3>1. stmt' = stmt
      BY <1>2, <2>4 DEF ThreadStep, EnterLoop, Lock, TestContinue, FetchRow,
         FetchEnds, PostRow, RowProcessed, PostCompletion, PostThreadEvent,
         Destruct, UseFreedRetriever, UseLostStatement
    <3>2. pc'[t] \in Critical \ {"prepare"} => pc[t] \in Critical \ {"prepare"}
      BY <1>2, <2>4 DEF IInv, TypeOK, At_, Goto, threadVars, ThreadStep, EnterLoop,
         Lock, TestContinue, FetchRow, FetchEnds, PostRow, RowProcessed,
         PostCompletion, PostThreadEvent, Destruct, UseFreedRetriever,
         UseLostStatement
    <3>3. QED
      BY <2>1, <3>1, <3>2
  <2>5. QED
    BY <2>3, <2>4
<1>3. QED
  BY <1>1, <1>2 DEF Next

(* The view of an event stays open: its thread lives when it posts, and a   *)
(* view with events is not closed.                                         *)
LEMMA EventsStep ==
  ASSUME Patient, IInv, PatientInv, Next
  PROVE  EventsOpen'
<1> USE DEF PatientInv
<1>a. TypeOK
  BY DEF IInv
<1>1. ASSUME NEW i \in DOMAIN inbox[App], MainStep \/ UserStep
      PROVE  LET t == inbox[App][i].thread IN
             /\ t \in Threads /\ pc'[t] # "unborn"
             /\ view'[t] = view[t] /\ life'[view[t]] = "open"
  <2> DEFINE t == inbox[App][i].thread
  <2>1. t \in Threads /\ pc[t] # "unborn" /\ life[view[t]] = "open"
    BY <1>a, EventThread DEF EventsOpen
  <2>2. pc'[t] = pc[t] /\ view'[t] = view[t] /\ view[t] \in Views
    BY <1>1, <2>1, MainMovesNoThread DEF IInv, ViewInv
  <2>3. life'[view[t]] = "open"
    <3>1. CASE \E v \in Views : CloseView(v)
      <4>1. PICK v \in Views : CloseView(v)
        BY <3>1
      <4>2. life' = [life EXCEPT ![v] = "freed"] /\ view[t] # v
        BY <4>1, StartsSettled DEF CloseView
      <4>3. QED
        BY <2>1, <2>2, <4>2 DEF IInv, TypeOK
    <3>2. CASE \E v \in Views : OnCreate(v)
      BY <2>1, <2>2, <3>2 DEF OnCreate, IInv, TypeOK
    <3>3. CASE ~\E v \in Views : CloseView(v) \/ OnCreate(v)
      <4>1. life' = life
        BY <1>1, <3>3 DEF viewVars, MainStep, UserStep, Dispatch, DisplayData,
           CompleteRetrieval, CallFreedRetriever, ThreadEventHandler,
           ExportSyntax, ViewStep, DiscardThread, DeleteThread, ThreadGone,
           DestroyThread, RestartQuery, CancelQuery, CancelProcessing,
           CancelStale, CancelNothing
      <4>2. QED
        BY <2>1, <4>1
    <3>4. QED
      BY <3>1, <3>2, <3>3
  <2>4. QED
    BY <2>1, <2>2, <2>3
<1>2. CASE MainStep \/ UserStep
  <2>1. CASE Take(App)
    <3>1. \A i \in DOMAIN inbox'[App] :
            i + 1 \in DOMAIN inbox[App] /\ inbox'[App][i] = inbox[App][i + 1]
      BY <1>a, <2>1, TakeMoves
    <3>2. QED
      BY <1>1, <1>2, <3>1 DEF EventsOpen
  <2>2. CASE inbox'[App] = inbox[App]
    BY <1>1, <1>2, <2>2 DEF EventsOpen
  <2>3. QED
    BY <1>a, <1>2, <2>1, <2>2, QueueUser
<1>3. ASSUME NEW t \in Threads, ThreadStep(t)
      PROVE  EventsOpen'
  <2>1. life' = life /\ view' = view
    BY <1>3, ThreadHarmless, ThreadMovesItself
  <2>2. ASSUME NEW i \in DOMAIN inbox[App]
        PROVE  /\ pc'[inbox[App][i].thread] # "unborn"
               /\ life'[view'[inbox[App][i].thread]] = "open"
    BY <1>3, <1>a, <2>1, EventThread, ThreadMovesItself DEF EventsOpen
  <2>3. CASE \E kind \in {"row", "done"} :
               Post(App, kind, t) /\ (PostRow(t) \/ PostCompletion(t))
    <3>1. PICK kind \in {"row", "done"} : Post(App, kind, t)
      BY <2>3
    <3>2. pc'[t] # "unborn" /\ life[view[t]] = "open"
      BY <1>3, <2>3, ThreadMovesItself
         DEF Tracked, Alive, PostRow, PostCompletion, At_
    <3>3. /\ DOMAIN inbox[App] = 1..Len(inbox[App]) /\ Len(inbox[App]) \in Nat
          /\ DOMAIN inbox'[App] = 1..(Len(inbox[App]) + 1)
          /\ \A i \in DOMAIN inbox[App] : inbox'[App][i] = inbox[App][i]
          /\ inbox'[App][Len(inbox[App]) + 1] =
               [kind |-> kind, thread |-> t, row |-> fetched[t]]
      BY <1>a, <3>1, PostAppends
    <3>4. \A i \in DOMAIN inbox'[App] :
            i \in DOMAIN inbox[App] \/ i = Len(inbox[App]) + 1
      BY <3>3
    <3>5. QED
      BY <2>1, <2>2, <3>2, <3>3, <3>4 DEF EventsOpen
  <2>4. CASE inbox'[App] = inbox[App]
    BY <2>2, <2>4 DEF EventsOpen
  <2>5. QED
    BY <1>a, <1>3, <2>3, <2>4, QueueThread DEF IInv
<1>4. QED
  BY <1>2, <1>3 DEF Next

(* Only a thread that did not start is discarded. *)
LEMMA DiscardStep ==
  ASSUME Patient, IInv, PatientInv, Next
  PROVE  DiscardInv'
<1> USE DEF IInv, TypeOK, PatientInv, DiscardInv, Busy
<1>1. ASSUME NEW t \in Threads, ThreadStep(t)
      PROVE  DiscardInv'
  <2>1. main' = main
    BY <1>1, ThreadMovesItself
  <2>2. ASSUME NEW v \in Views, main = Busy("discard", v)
        PROVE  handler'[v] = handler[v] /\ pc'[handler[v]] = pc[handler[v]]
    <3>1. handler[v] \in Threads /\ pc[handler[v]] = "dead"
      BY <2>2
    <3>2. Alive(t)
      BY <1>1 DEF Alive, ThreadStep, At_, EnterLoop, Lock, PrepareStatement,
         PrepareFails, TestContinue, FetchRow, FetchEnds, PostRow, RowProcessed,
         FinalizeStatement, PostCompletion, PostThreadEvent, Destruct,
         UseFreedRetriever, UseLostStatement
    <3>3. handler[v] # t /\ view[t] # v
      BY <3>1, <3>2 DEF Alive, Tracked
    <3>4. handler'[v] = handler[v]
      BY <1>1, <3>3 DEF viewVars, ThreadStep, EnterLoop, Lock, PrepareStatement,
         PrepareFails, TestContinue, FetchRow, FetchEnds, PostRow, RowProcessed,
         FinalizeStatement, PostCompletion, PostThreadEvent, Destruct,
         UseFreedRetriever, UseLostStatement
    <3>5. QED
      BY <1>1, <3>1, <3>3, <3>4, ThreadMovesItself
  <2>3. QED
    BY <2>1, <2>2
<1>2. ASSUME NEW v \in Views, OnCreate(v) \/ RestartQuery(v)
      PROVE  DiscardInv'
  <2>1. PICK t \in Threads : Launch(v, t)
    BY <1>2 DEF OnCreate, RestartQuery
  <2>2. main.at = "idle"
    BY <1>2 DEF OnCreate, RestartQuery, Click, MainIdle
  <2>3. QED
    BY <2>1, <2>2, NamesAssumption DEF Launch, Goto
<1>3. CASE \/ Dispatch \/ ExportSyntax
           \/ \E v \in Views : DeleteThread(v) \/ ThreadGone(v) \/ DestroyThread(v)
           \/ \E t \in Threads : CancelProcessing(t) \/ CancelStale(t)
  <2>1. pc' = pc /\ handler' = handler
    BY <1>3 DEF threadVars, viewVars, Dispatch, DisplayData, CompleteRetrieval,
       CallFreedRetriever, ThreadEventHandler, ExportSyntax, DeleteThread,
       ThreadGone, DestroyThread, CancelProcessing, CancelStale
  <2>2. main' = main \/ main'.at # "discard"
    BY <1>3 DEF Idle, Dispatch, DisplayData, CompleteRetrieval,
       CallFreedRetriever, ThreadEventHandler, ExportSyntax, DeleteThread,
       ThreadGone, DestroyThread, CancelProcessing, CancelStale
  <2>3. QED
    BY <2>1, <2>2
<1>4. CASE \E v \in Views : CancelQuery(v) \/ CancelNothing(v) \/ CloseView(v)
  BY <1>4 DEF Idle, MainIdle, Click, threadVars, viewVars, CancelQuery,
     CancelProcessing, CancelStale, CancelNothing, CloseView
<1>5. ASSUME NEW v \in Views, DiscardThread(v)
      PROVE  DiscardInv'
  BY <1>5 DEF DiscardThread, Idle
<1>6. QED
  BY <1>1, <1>2, <1>3, <1>4, <1>5 DEF Next, MainStep, UserStep, ViewStep

(* The invariant of the patient user is inductive. *)
LEMMA PatientInit == Init => PatientInv
BY AppIsHandler, LenProperties
   DEF Init, PatientInv, Harmless, Tracked, HasStmt, EventsOpen, DiscardInv,
       Critical, Alive, Idle, Busy

LEMMA PatientStep == Patient /\ IInv /\ PatientInv /\ [Next]_vars => PatientInv'
<1> SUFFICES ASSUME Patient, IInv, PatientInv, [Next]_vars PROVE PatientInv'
  OBVIOUS
<1>1. CASE Next
  <2>1. Harmless'
    BY <1>1, MainHarmless, ThreadHarmless DEF Next
  <2>2. QED
    BY <1>1, <2>1, TrackedStep, StmtStep, EventsStep, DiscardStep DEF PatientInv
<1>2. CASE UNCHANGED vars
  BY <1>2 DEF vars, threadVars, viewVars, eventVars, PatientInv, Harmless,
     Tracked, Alive, HasStmt, EventsOpen, DiscardInv
<1>3. QED
  BY <1>1, <1>2

(* While the user waits for the view to settle, a thread that lives is the   *)
(* one m_handler of its open view points to, and the statement it prepared  *)
(* is m_stmt (tableeditview.cpp:170, dbtableedit.cpp:66).                   *)
THEOREM PatientInvariance == Patient => (Spec => []PatientInv)
<1> SUFFICES ASSUME Patient PROVE Spec => []PatientInv
  OBVIOUS
<1>1. IInv /\ PatientInv /\ [Next]_vars => PatientInv'
  BY PatientStep
<1>2. QED
  BY <1>1, PatientInit, Invariance, PTL DEF Spec

(* A user who waits meets no undefined behaviour: m_handler, the view, the  *)
(* retriever and m_stmt are there whenever a thread or a callback uses them. *)
THEOREM Faultless == Patient => (Spec => []NoFault)
<1> SUFFICES ASSUME Patient PROVE Spec => []NoFault
  OBVIOUS
<1>1. PatientInv => NoFault
  BY DEF PatientInv, Harmless, NoFault
<1>2. QED
  BY <1>1, PatientInvariance, PTL

(* For such a user "does the thread still exist?" is answered by m_handler, *)
(* which for an eager one it is not.                                       *)
THEOREM TracksThread == Patient => (Spec => []HandlerTracksThread)
<1> SUFFICES ASSUME Patient PROVE Spec => []HandlerTracksThread
  OBVIOUS
<1>1. PatientInv => HandlerTracksThread
  BY NamesAssumption DEF PatientInv, Tracked, HandlerTracksThread
<1>2. QED
  BY <1>1, PatientInvariance, PTL

-----------------------------------------------------------------------------
(* A retrieval that is due to complete: its thread has not posted the       *)
(* completion yet, or wxTheApp has not run it.                             *)
Early == {"start", "lock", "done"} \cup Critical
IsDone(e, v) == e.kind = "done" /\ view[e.thread] = v

Running(v) == \E t \in Threads : view[t] = v /\ pc[t] \in Early
Completing(v) == \E i \in DOMAIN inbox[App] : IsDone(inbox[App][i], v)
Due(v) == Running(v) \/ Completing(v)

(* At most one completion is due for a view. *)
DueOnce ==
  \A v \in Views : \A i \in DOMAIN inbox[App] :
    IsDone(inbox[App][i], v) =>
      /\ ~Running(v)
      /\ \A j \in DOMAIN inbox[App] : IsDone(inbox[App][j], v) => j = i

(* The batch of the grid is open, and the button on Cancel, only until then. *)
BatchInv ==
  \A v \in Views : IF Due(v) THEN batch[v] = 1 ELSE batch[v] = 0 /\ ~executing[v]

(* A view has its own events only after its thread has posted the last one. *)
EndInv ==
  \A t \in Threads :
    /\ pc[t] # "unborn"
    /\ inbox[view[t]] # <<>> \/ main = Busy("event", view[t])
    => pc[t] \in {"dtor", "dead"}

(* The view deletes its thread only then. *)
CancelInv == \A t \in Threads : cancel[t] => pc[t] \in {"dtor", "dead"}

(* A view that is not open has no events. *)
QuietInv == \A v \in Views : life[v] # "open" => inbox[v] = <<>>

CleanInv == DueOnce /\ BatchInv /\ EndInv /\ CancelInv /\ QuietInv

(* The queues of the views: a thread posts its last event, the loop takes   *)
(* events of one view, and closing a view drops its own.                    *)
LEMMA ViewQueueThread ==
  ASSUME TypeOK, ViewInv, NEW t \in Threads, ThreadStep(t), NEW v \in Views
  PROVE  inbox'[v] = inbox[v] \/ (PostThreadEvent(t) /\ v = view[t])
<1>1. App \in Handlers /\ v \in Handlers /\ v # App
  BY AppIsHandler
<1>2. /\ inbox \in [Handlers -> Seq(Event)] /\ ready \in Seq(Handlers)
      /\ fetched \in [Threads -> 0..NumRows]
  BY DEF TypeOK
<1>3. CASE PostRow(t) \/ PostCompletion(t)
  <2>1. PICK kind \in {"row", "done", "end"} : Post(App, kind, t)
    BY <1>3 DEF PostRow, PostCompletion
  <2>2. \A g \in Handlers : g # App => inbox'[g] = inbox[g]
    BY <1>1, <1>2, <2>1, PostType
  <2>3. QED
    BY <1>1, <2>2
<1>4. CASE PostThreadEvent(t) /\ v # view[t]
  <2>1. Post(view[t], "end", t) /\ view[t] \in Handlers
    BY <1>4, AppIsHandler DEF PostThreadEvent, At_, ViewInv
  <2>2. \A g \in Handlers : g # view[t] => inbox'[g] = inbox[g]
    BY <1>2, <2>1, PostType
  <2>3. QED
    BY <1>1, <1>4, <2>2
<1>5. CASE ~PostRow(t) /\ ~PostCompletion(t) /\ ~PostThreadEvent(t)
  <2>1. inbox' = inbox
    BY <1>5 DEF ThreadStep, eventVars, EnterLoop, Lock, PrepareStatement,
       PrepareFails, TestContinue, FetchRow, FetchEnds, RowProcessed,
       FinalizeStatement, Destruct, UseFreedRetriever, UseLostStatement
  <2>2. QED
    BY <2>1
<1>6. QED
  BY <1>3, <1>4, <1>5

LEMMA ViewQueueMain ==
  ASSUME TypeOK, MainStep \/ UserStep, NEW v \in Views
  PROVE  inbox'[v] # <<>> => inbox[v] # <<>>
<1>1. v \in Handlers /\ App \in Handlers /\ v # App
  BY AppIsHandler
<1>2. ASSUME NEW h \in Handlers, Take(h)
      PROVE  inbox'[v] # <<>> => inbox[v] # <<>>
  BY <1>1, <1>2, TakeType DEF TypeOK, Take
<1>3. CASE Dispatch
  <2>1. \A w \in Views : w \in Handlers
    BY AppIsHandler
  <2>2. \E h \in Handlers : Take(h)
    BY <1>1, <1>3, <2>1 DEF Dispatch, DisplayData, CompleteRetrieval,
       CallFreedRetriever, ThreadEventHandler
  <2>3. QED
    BY <1>2, <2>2
<1>4. CASE \E w \in Views : CloseView(w)
  <2>1. PICK w \in Views : inbox' = [inbox EXCEPT ![w] = <<>>]
    BY <1>4 DEF CloseView, DropEvents
  <2>2. QED
    BY <1>1, <2>1 DEF TypeOK
<1>5. CASE ~Dispatch /\ ~\E w \in Views : CloseView(w)
  BY <1>5 DEF MainStep, UserStep, ViewStep, eventVars, ExportSyntax,
     DiscardThread, DeleteThread, ThreadGone, DestroyThread, OnCreate,
     RestartQuery, CancelQuery, CancelProcessing, CancelStale, CancelNothing
<1>6. QED
  BY <1>3, <1>4, <1>5

(* A thread goes through Entry() as far as its completion, if it starts at  *)
(* all; only what it posts then makes its view wait for it.                 *)
LEMMA ThreadEarly ==
  ASSUME IInv, CancelInv, NEW t \in Threads, ThreadStep(t)
  PROVE  /\ ~PostCompletion(t) => (pc'[t] \in Early <=> pc[t] \in Early)
         /\ PostCompletion(t) => pc[t] \in Early /\ pc'[t] \notin Early
         /\ pc[t] \in {"dtor", "dead"} => pc'[t] \in {"dtor", "dead"}
         /\ PostThreadEvent(t) => pc'[t] = "dtor" /\ life[view[t]] = "open" /\ pc[t] = "end"
         /\ batch' = batch /\ executing' = executing /\ cancel' = cancel
<1> USE DEF IInv, TypeOK, At_, Goto, Early, Critical, threadVars, viewVars
<1>1. batch' = batch /\ executing' = executing /\ cancel' = cancel
  BY DEF ThreadStep, EnterLoop, Lock, PrepareStatement, PrepareFails,
     TestContinue, FetchRow, FetchEnds, PostRow, RowProcessed, FinalizeStatement,
     PostCompletion, PostThreadEvent, Destruct, UseFreedRetriever, UseLostStatement
<1>2. CASE EnterLoop(t)
  <2>1. ~cancel[t]
    BY <1>2 DEF CancelInv, EnterLoop
  <2>2. pc[t] = "start" /\ pc' = [pc EXCEPT ![t] = "lock"]
    BY <1>2, <2>1 DEF EnterLoop
  <2>3. ~PostCompletion(t) /\ ~PostThreadEvent(t)
    BY <2>2 DEF PostCompletion, PostThreadEvent
  <2>4. QED
    BY <1>1, <2>2, <2>3
<1>3. CASE Lock(t) \/ PrepareStatement(t) \/ PrepareFails(t) \/ TestContinue(t)
             \/ FetchRow(t) \/ FetchEnds(t)
  BY <1>1, <1>3 DEF Lock, PrepareStatement, PrepareFails, TestContinue, FetchRow,
     FetchEnds, PostCompletion, PostThreadEvent
<1>4. CASE PostRow(t) \/ RowProcessed(t) \/ FinalizeStatement(t) \/ Destruct(t)
  BY <1>1, <1>4 DEF PostRow, RowProcessed, FinalizeStatement, Destruct,
     PostCompletion, PostThreadEvent
<1>5. CASE PostCompletion(t)
  BY <1>1, <1>5 DEF PostCompletion, PostThreadEvent
<1>6. CASE PostThreadEvent(t)
  BY <1>1, <1>6 DEF PostCompletion, PostThreadEvent, Open
<1>7. CASE UseFreedRetriever(t) \/ UseLostStatement(t)
  BY <1>1, <1>7 DEF UseFreedRetriever, UseLostStatement, PostCompletion,
     PostThreadEvent
<1>8. QED
  BY <1>2, <1>3, <1>4, <1>5, <1>6, <1>7 DEF ThreadStep

(* The new thread of a view that has settled, or of a new view. *)
LEMMA LaunchStarts ==
  ASSUME Patient, ~RunFails, IInv, PatientInv, NEW v \in Views,
         OnCreate(v) \/ RestartQuery(v)
  PROVE  \E t \in Threads :
           /\ pc[t] = "unborn" /\ pc' = [pc EXCEPT ![t] = "start"]
           /\ view' = [view EXCEPT ![t] = v]
           /\ batch' = [batch EXCEPT ![v] = batch[v] + 1]
           /\ executing' = [executing EXCEPT ![v] = TRUE]
           /\ main.at = "idle" /\ main' = main /\ inbox' = inbox /\ cancel' = cancel
<1>1. PICK t \in Threads : Launch(v, t)
  BY DEF OnCreate, RestartQuery
<1>2. main.at = "idle" /\ inbox' = inbox /\ cancel' = cancel
  BY DEF OnCreate, RestartQuery, Click, MainIdle, eventVars
<1>3. QED
  BY <1>1, <1>2 DEF Launch, Goto

(* Events of a view appear when its one thread has posted the last of them. *)
LEMMA EndStep ==
  ASSUME Patient, ~RunFails, IInv, PatientInv, CleanInv, Next
  PROVE  EndInv'
<1> USE DEF CleanInv, EndInv
<1>a. TypeOK /\ ViewInv
  BY DEF IInv
<1>1. ASSUME NEW t \in Threads, ThreadStep(t)
      PROVE  EndInv'
  <2>1. main' = main /\ view' = view
    BY <1>1, ThreadMovesItself
  <2>2. ASSUME NEW u \in Threads, pc'[u] # "unborn",
               inbox'[view[u]] # <<>> \/ main = Busy("event", view[u])
        PROVE  pc'[u] \in {"dtor", "dead"}
    <3>1. pc[u] # "unborn" /\ view[u] \in Views
      BY <1>1, <1>a, <2>2, ThreadMovesItself DEF ViewInv
    <3>2. CASE PostThreadEvent(t) /\ view[u] = view[t]
      <4>1. CASE u = t
        BY <1>1, <3>2, <4>1, ThreadEarly
      <4>2. CASE u # t
        <5>1. Alive(t)
          BY <3>2 DEF Alive, PostThreadEvent, At_
        <5>2. ~Alive(u)
          BY <3>2, <4>2, <5>1 DEF PatientInv, Tracked
        <5>3. QED
          BY <1>1, <3>1, <4>2, <5>2, ThreadMovesItself DEF Alive
      <4>3. QED
        BY <4>1, <4>2
    <3>3. CASE ~(PostThreadEvent(t) /\ view[u] = view[t])
      <4>1. inbox'[view[u]] = inbox[view[u]]
        BY <1>1, <1>a, <3>1, <3>3, ViewQueueThread
      <4>2. pc[u] \in {"dtor", "dead"}
        BY <2>2, <3>1, <4>1
      <4>3. QED
        BY <1>1, <4>2, ThreadEarly, ThreadMovesItself
    <3>4. QED
      BY <3>2, <3>3
  <2>3. QED
    BY <2>1, <2>2
<1>2. ASSUME NEW v \in Views, OnCreate(v) \/ RestartQuery(v)
      PROVE  EndInv'
  <2>1. PICK t \in Threads :
          /\ pc[t] = "unborn" /\ pc' = [pc EXCEPT ![t] = "start"]
          /\ view' = [view EXCEPT ![t] = v]
          /\ main.at = "idle" /\ main' = main /\ inbox' = inbox
    BY <1>2, LaunchStarts
  <2>2. inbox[v] = <<>>
    <3>1. CASE OnCreate(v)
      BY <3>1 DEF OnCreate, QuietInv
    <3>2. CASE RestartQuery(v)
      BY <1>2, <3>2 DEF Patient, RestartQuery, MayRestart, Settled
    <3>3. QED
      BY <1>2, <3>1, <3>2
  <2>3. view'[t] = v /\ \A u \in Threads : u # t => view'[u] = view[u] /\ pc'[u] = pc[u]
    BY <1>a, <2>1 DEF TypeOK
  <2>4. inbox'[v] = <<>> /\ main'.at # "event"
    BY <2>1, <2>2
  <2>5. QED
    BY <2>1, <2>3, <2>4 DEF Busy
<1>3. CASE /\ MainStep \/ UserStep
           /\ ~\E v \in Views : OnCreate(v) \/ RestartQuery(v)
  <2>1. pc' = pc /\ view' = view
    BY <1>3 DEF threadVars, MainStep, UserStep, Dispatch, DisplayData,
       CompleteRetrieval, CallFreedRetriever, ThreadEventHandler, ExportSyntax,
       ViewStep, DiscardThread, DeleteThread, ThreadGone, DestroyThread,
       CancelQuery, CancelProcessing, CancelStale, CancelNothing, CloseView
  <2>2. ASSUME NEW v \in Views, main' = Busy("event", v)
        PROVE  inbox[v] # <<>> \/ main = Busy("event", v)
    BY <1>3, <2>2 DEF MainStep, UserStep, Dispatch, DisplayData,
       CompleteRetrieval, CallFreedRetriever, ThreadEventHandler, Take,
       ExportSyntax, ViewStep, DiscardThread, DeleteThread, ThreadGone,
       DestroyThread, CancelQuery, CancelProcessing, CancelStale, CancelNothing,
       CloseView, Busy, Idle
  <2>3. \A v \in Views : inbox'[v] # <<>> => inbox[v] # <<>>
    BY <1>3, <1>a, ViewQueueMain
  <2>4. QED
    BY <1>a, <2>1, <2>2, <2>3 DEF ViewInv
<1>4. QED
  BY <1>1, <1>2, <1>3 DEF Next

(* The view deletes its thread when it takes the last event. *)
LEMMA CancelStep ==
  ASSUME Patient, ~RunFails, IInv, PatientInv, CleanInv, Next
  PROVE  CancelInv'
<1> USE DEF CleanInv, CancelInv
<1>1. ASSUME NEW t \in Threads, ThreadStep(t)
      PROVE  CancelInv'
  BY <1>1, ThreadEarly, ThreadMovesItself
<1>2. ASSUME NEW v \in Views, DeleteThread(v)
      PROVE  CancelInv'
  <2>1. pc' = pc /\ main = Busy("event", v)
    BY <1>2 DEF DeleteThread
  <2>2. CASE handler[v] = None
    BY <1>2, <2>1, <2>2 DEF DeleteThread
  <2>3. CASE handler[v] # None
    <3>1. cancel' = [cancel EXCEPT ![handler[v]] = TRUE]
      BY <1>2, <2>3 DEF DeleteThread
    <3>2. handler[v] \in Threads /\ view[handler[v]] = v /\ pc[handler[v]] # "unborn"
      BY <2>3 DEF IInv, TypeOK, HandlerInv
    <3>3. pc[handler[v]] \in {"dtor", "dead"}
      BY <2>1, <3>2 DEF EndInv
    <3>4. QED
      BY <2>1, <3>1, <3>3 DEF IInv, TypeOK
  <2>4. QED
    BY <2>2, <2>3
<1>3. ASSUME NEW v \in Views, OnCreate(v) \/ RestartQuery(v)
      PROVE  CancelInv'
  <2>1. PICK t \in Threads :
          pc[t] = "unborn" /\ pc' = [pc EXCEPT ![t] = "start"] /\ cancel' = cancel
    BY <1>3, LaunchStarts
  <2>2. ~cancel[t]
    BY <2>1
  <2>3. \A u \in Threads : u # t => pc'[u] = pc[u]
    BY <2>1 DEF IInv, TypeOK
  <2>4. QED
    BY <2>1, <2>2, <2>3
<1>4. CASE /\ MainStep \/ UserStep
           /\ ~\E v \in Views : OnCreate(v) \/ RestartQuery(v) \/ DeleteThread(v)
  <2>1. pc' = pc /\ cancel' = cancel
    BY <1>4 DEF threadVars, MainStep, UserStep, Dispatch, DisplayData,
       CompleteRetrieval, CallFreedRetriever, ThreadEventHandler, ExportSyntax,
       ViewStep, DiscardThread, ThreadGone, DestroyThread, CancelQuery,
       CancelProcessing, CancelStale, CancelNothing, CloseView
  <2>2. QED
    BY <2>1
<1>5. QED
  BY <1>1, <1>2, <1>3, <1>4 DEF Next

(* A view that is closed drops its events, and no thread posts it another.  *)
LEMMA QuietStep ==
  ASSUME Patient, IInv, PatientInv, CleanInv, Next
  PROVE  QuietInv'
<1> USE DEF CleanInv, QuietInv
<1>a. TypeOK /\ ViewInv
  BY DEF IInv
<1>1. ASSUME NEW t \in Threads, ThreadStep(t)
      PROVE  QuietInv'
  <2>1. life' = life
    BY <1>1, ThreadHarmless
  <2>2. ASSUME NEW v \in Views, life[v] # "open"
        PROVE  inbox'[v] = inbox[v]
    <3>1. ~(PostThreadEvent(t) /\ v = view[t])
      BY <1>1, <2>2, ThreadEarly
    <3>2. QED
      BY <1>1, <1>a, <3>1, ViewQueueThread
  <2>3. QED
    BY <2>1, <2>2
<1>2. CASE MainStep \/ UserStep
  <2>1. ASSUME NEW v \in Views, life'[v] # "open", life[v] = "open"
        PROVE  inbox'[v] = <<>>
    <3>1. \E w \in Views : CloseView(w)
      BY <1>2, <1>a, <2>1 DEF TypeOK, viewVars, MainStep, UserStep, Dispatch,
         DisplayData, CompleteRetrieval, CallFreedRetriever, ThreadEventHandler,
         ExportSyntax, ViewStep, DiscardThread, DeleteThread, ThreadGone,
         DestroyThread, OnCreate, RestartQuery, CancelQuery, CancelProcessing,
         CancelStale, CancelNothing
    <3>2. PICK w \in Views : CloseView(w)
      BY <3>1
    <3>3. life' = [life EXCEPT ![w] = "freed"] /\ inbox' = [inbox EXCEPT ![w] = <<>>]
      BY <3>2 DEF CloseView, DropEvents
    <3>4. QED
      BY <1>a, <2>1, <3>3, AppIsHandler DEF TypeOK
  <2>2. \A v \in Views : inbox'[v] # <<>> => inbox[v] # <<>>
    BY <1>2, <1>a, ViewQueueMain
  <2>3. QED
    BY <2>1, <2>2
<1>3. QED
  BY <1>1, <1>2 DEF Next

(* What keeps who is due, keeps the two invariants about it.               *)
LEMMA DueKept ==
  ASSUME CleanInv,
         \A v \in Views : Running(v)' <=> Running(v),
         NEW d \in {0, 1},
         \A i \in DOMAIN inbox'[App] : i \in Int,
         \A v \in Views : \A i \in DOMAIN inbox'[App] :
           IsDone(inbox[App][i], v)' =>
             i + d \in DOMAIN inbox[App] /\ IsDone(inbox[App][i + d], v),
         \A v \in Views : Completing(v) => Completing(v)',
         batch' = batch,
         \A v \in Views : executing'[v] => executing[v] \/ Due(v)
  PROVE  DueOnce' /\ BatchInv'
<1> USE DEF CleanInv
<1>1. DueOnce'
  <2> SUFFICES ASSUME NEW v \in Views, NEW i \in DOMAIN inbox'[App],
                      IsDone(inbox[App][i], v)'
               PROVE  /\ ~Running(v)'
                      /\ \A j \in DOMAIN inbox'[App] :
                           IsDone(inbox[App][j], v)' => j = i
    BY DEF DueOnce
  <2>1. i + d \in DOMAIN inbox[App] /\ IsDone(inbox[App][i + d], v)
    OBVIOUS
  <2>2. ASSUME NEW j \in DOMAIN inbox'[App], IsDone(inbox[App][j], v)'
        PROVE  j = i
    <3>1. j + d \in DOMAIN inbox[App] /\ IsDone(inbox[App][j + d], v)
      BY <2>2
    <3>2. j + d = i + d
      BY <2>1, <3>1 DEF DueOnce
    <3>3. i \in Int /\ j \in Int
      OBVIOUS
    <3>4. QED
      BY <3>2, <3>3
  <2>3. ~Running(v)
    BY <2>1 DEF DueOnce
  <2>4. QED
    BY <2>2, <2>3
<1>2. \A v \in Views : Due(v)' <=> Due(v)
  BY DEF Due, Completing
<1>3. QED
  BY <1>1, <1>2 DEF BatchInv

(* A step of a thread: the completion takes the place of its thread. *)
LEMMA DueThread ==
  ASSUME IInv, PatientInv, CleanInv, NEW t \in Threads, ThreadStep(t)
  PROVE  DueOnce' /\ BatchInv'
<1>a. TypeOK /\ ViewInv
  BY DEF IInv
<1>b. DOMAIN inbox[App] \subseteq Int
  BY <1>a, AppIsHandler, LenProperties DEF TypeOK
<1>1. /\ view' = view /\ batch' = batch /\ executing' = executing
      /\ \A u \in Threads : u # t => pc'[u] = pc[u]
  BY ThreadMovesItself, ThreadEarly DEF CleanInv
<1>2. CASE PostCompletion(t)
  <2> DEFINE n == Len(inbox[App]) + 1
             e == [kind |-> "done", thread |-> t, row |-> fetched[t]]
  <2>1. /\ DOMAIN inbox[App] = 1..Len(inbox[App]) /\ Len(inbox[App]) \in Nat
        /\ DOMAIN inbox'[App] = 1..n
        /\ \A i \in DOMAIN inbox[App] : inbox'[App][i] = inbox[App][i]
        /\ inbox'[App][n] = e
    BY <1>2, <1>a, PostAppends DEF PostCompletion
  <2>2. \A i \in DOMAIN inbox'[App] : i \in DOMAIN inbox[App] \/ i = n
    BY <2>1
  <2>3. \A v \in Views : IsDone(inbox'[App][n], v) <=> v = view[t]
    BY <2>1 DEF IsDone
  <2>4. \A v \in Views : \A i \in DOMAIN inbox[App] :
          IsDone(inbox'[App][i], v) <=> IsDone(inbox[App][i], v)
    BY <2>1
  <2>5. pc[t] \in Early /\ pc'[t] \notin Early
    BY <1>2, ThreadEarly DEF CleanInv
  <2>6. Running(view[t]) /\ view[t] \in Views
    BY <1>a, <2>5 DEF Running, ViewInv, Early, Critical
  <2> HIDE DEF n, e
  <2>7. \A i \in DOMAIN inbox[App] : ~IsDone(inbox[App][i], view[t])
    BY <2>6 DEF CleanInv, DueOnce
  <2>8. ASSUME NEW u \in Threads, pc[u] \in Early, view[u] = view[t]
        PROVE  u = t
    <3>1. Alive(u) /\ Alive(t)
      BY <2>5, <2>8 DEF Alive, Early, Critical
    <3>2. QED
      BY <3>1, <2>8 DEF PatientInv, Tracked
  <2>9. \A v \in Views : Running(v)' <=> Running(v) /\ v # view[t]
    BY <1>1, <2>5, <2>8 DEF Running
  <2>10. n \in DOMAIN inbox'[App] /\ DOMAIN inbox[App] \subseteq DOMAIN inbox'[App]
    BY <2>1 DEF n
  <2>11. DueOnce'
    <3> SUFFICES ASSUME NEW v \in Views, NEW i \in DOMAIN inbox'[App],
                        IsDone(inbox'[App][i], v)
                 PROVE  /\ ~Running(v)'
                        /\ \A j \in DOMAIN inbox'[App] :
                             IsDone(inbox'[App][j], v) => j = i
      BY <1>1 DEF DueOnce, IsDone
    <3>1. CASE v = view[t]
      BY <2>2, <2>4, <2>7, <2>9, <3>1
    <3>2. CASE v # view[t]
      BY <2>2, <2>3, <2>4, <2>9, <3>2 DEF CleanInv, DueOnce
    <3>3. QED
      BY <3>1, <3>2
  <2>12. \A v \in Views : Completing(v)' <=> Completing(v) \/ v = view[t]
    <3>1. \A v \in Views :
            Completing(v)' <=> \E i \in DOMAIN inbox'[App] : IsDone(inbox'[App][i], v)
      BY <1>1 DEF Completing, IsDone
    <3>2. QED
      BY <2>2, <2>3, <2>4, <2>10, <3>1 DEF Completing
  <2>13. \A v \in Views : Due(v)' <=> Due(v)
    BY <2>6, <2>9, <2>12 DEF Due
  <2>14. QED
    BY <1>1, <2>11, <2>13 DEF CleanInv, BatchInv
<1>3. CASE ~PostCompletion(t)
  <2>1. \A u \in Threads : pc'[u] \in Early <=> pc[u] \in Early
    BY <1>1, <1>3, ThreadEarly DEF CleanInv
  <2>2. \A v \in Views : Running(v)' <=> Running(v)
    BY <1>1, <2>1 DEF Running
  <2>3. CASE inbox'[App] = inbox[App]
    <3>1. \A v \in Views : \A i \in DOMAIN inbox'[App] :
            IsDone(inbox[App][i], v)' =>
              i + 0 \in DOMAIN inbox[App] /\ IsDone(inbox[App][i + 0], v)
      BY <1>b, <1>1, <2>3 DEF IsDone
    <3>2. \A v \in Views : Completing(v) => Completing(v)'
      BY <1>1, <2>3 DEF Completing, IsDone
    <3>3. QED
      BY <1>b, <1>1, <2>2, <2>3, <3>1, <3>2, DueKept
  <2>4. CASE Post(App, "row", t)
    <3> DEFINE n == Len(inbox[App]) + 1
               e == [kind |-> "row", thread |-> t, row |-> fetched[t]]
    <3>1. /\ DOMAIN inbox[App] = 1..Len(inbox[App]) /\ Len(inbox[App]) \in Nat
          /\ DOMAIN inbox'[App] = 1..n
          /\ \A i \in DOMAIN inbox[App] : inbox'[App][i] = inbox[App][i]
          /\ inbox'[App][n] = e
      BY <1>a, <2>4, PostAppends
    <3>2. inbox'[App][n].kind # "done"
      BY <3>1
    <3>3. \A v \in Views : \A i \in DOMAIN inbox'[App] :
            IsDone(inbox[App][i], v)' =>
              i + 0 \in DOMAIN inbox[App] /\ IsDone(inbox[App][i + 0], v)
      BY <1>1, <3>1, <3>2 DEF IsDone
    <3>4. \A v \in Views : Completing(v) => Completing(v)'
      BY <1>1, <3>1 DEF Completing, IsDone
    <3>5. \A i \in DOMAIN inbox'[App] : i \in Int
      BY <3>1
    <3>6. QED
      BY <1>1, <2>2, <3>3, <3>4, <3>5, DueKept
  <2>5. QED
    BY <1>a, <1>3, <2>3, <2>4, QueueThread
<1>4. QED
  BY <1>2, <1>3

(* A step of the main thread that leaves the queue of wxTheApp alone and     *)
(* starts no thread.                                                       *)
LEMMA DueQuietMain ==
  ASSUME IInv, PatientInv, CleanInv, MainStep \/ UserStep,
         ~DisplayData, ~CompleteRetrieval, ~CallFreedRetriever,
         ~\E v \in Views : OnCreate(v) \/ RestartQuery(v)
  PROVE  DueOnce' /\ BatchInv'
<1>a. TypeOK
  BY DEF IInv
<1>1. inbox'[App] = inbox[App]
  BY <1>a, QueueUser
<1>2. pc' = pc /\ view' = view /\ batch' = batch
  BY DEF threadVars, viewVars, MainStep, UserStep, Dispatch, ThreadEventHandler,
     ExportSyntax, ViewStep, DiscardThread, DeleteThread, ThreadGone,
     DestroyThread, CancelQuery, CancelProcessing, CancelStale, CancelNothing,
     CloseView
<1>3. \A v \in Views : executing'[v] => executing[v]
  BY <1>a DEF TypeOK, viewVars, MainStep, UserStep, Dispatch,
     ThreadEventHandler, ExportSyntax, ViewStep, DiscardThread, DeleteThread,
     ThreadGone, DestroyThread, CancelQuery, CancelProcessing, CancelStale,
     CancelNothing, CloseView
<1>4. \A i \in DOMAIN inbox'[App] : i \in Int /\ i + 0 = i
  BY <1>a, <1>1, AppIsHandler, LenProperties DEF TypeOK
<1>5. /\ \A v \in Views : Running(v)' <=> Running(v)
      /\ \A v \in Views : Completing(v) => Completing(v)'
      /\ \A v \in Views : \A i \in DOMAIN inbox'[App] :
           IsDone(inbox[App][i], v)' =>
             i + 0 \in DOMAIN inbox[App] /\ IsDone(inbox[App][i + 0], v)
  BY <1>1, <1>2, <1>4 DEF Running, Completing, IsDone
<1>6. QED
  BY <1>2, <1>3, <1>4, <1>5, DueKept

(* A row is displayed: the completions move up. *)
LEMMA DueDisplay ==
  ASSUME IInv, CleanInv, DisplayData
  PROVE  DueOnce' /\ BatchInv'
<1>a. TypeOK
  BY DEF IInv
<1>1. /\ Take(App) /\ Callback.kind # "done"
      /\ pc' = pc /\ view' = view /\ batch' = batch /\ executing' = executing
  BY DEF DisplayData, threadVars
<1>2. /\ DOMAIN inbox[App] = 1..Len(inbox[App]) /\ Len(inbox[App]) \in Nat \ {0}
      /\ DOMAIN inbox'[App] = 1..(Len(inbox[App]) - 1)
      /\ \A i \in DOMAIN inbox'[App] : inbox'[App][i] = inbox[App][i + 1]
      /\ inbox[App][1].kind # "done"
  BY <1>a, <1>1, TakeMoves
<1>3. \A v \in Views : Running(v)' <=> Running(v)
  BY <1>1 DEF Running
<1>4. \A v \in Views : \A i \in DOMAIN inbox'[App] :
        IsDone(inbox[App][i], v)' =>
          i + 1 \in DOMAIN inbox[App] /\ IsDone(inbox[App][i + 1], v)
  BY <1>1, <1>2 DEF IsDone
<1>5. ASSUME NEW v \in Views, Completing(v)
      PROVE  Completing(v)'
  <2>1. PICK i \in DOMAIN inbox[App] : IsDone(inbox[App][i], v)
    BY <1>5 DEF Completing
  <2>2. i # 1
    BY <1>2, <2>1 DEF IsDone
  <2>3. i - 1 \in DOMAIN inbox'[App] /\ (i - 1) + 1 = i
    BY <1>2, <2>2
  <2>4. inbox'[App][i - 1] = inbox[App][i]
    BY <1>2, <2>3
  <2>5. QED
    BY <1>1, <2>1, <2>3, <2>4 DEF Completing, IsDone
<1>6. \A i \in DOMAIN inbox'[App] : i \in Int
  BY <1>2
<1>7. QED
  BY <1>1, <1>3, <1>4, <1>5, <1>6, DueKept

(* The completion ends the batch it is due for, and is the only one.        *)
LEMMA DueComplete ==
  ASSUME IInv, CleanInv, CompleteRetrieval
  PROVE  DueOnce' /\ BatchInv'
<1>a. TypeOK /\ ViewInv
  BY DEF IInv
<1> DEFINE w == view[Callback.thread]
<1>1. /\ Take(App) /\ Callback.kind = "done" /\ life[w] = "open"
      /\ pc' = pc /\ view' = view
      /\ batch' = [batch EXCEPT ![w] = batch[w] - 1]
      /\ executing' = [executing EXCEPT ![w] = FALSE]
  BY DEF CompleteRetrieval, Target, threadVars
<1>2. /\ DOMAIN inbox[App] = 1..Len(inbox[App]) /\ Len(inbox[App]) \in Nat \ {0}
      /\ DOMAIN inbox'[App] = 1..(Len(inbox[App]) - 1)
      /\ \A i \in DOMAIN inbox'[App] : inbox'[App][i] = inbox[App][i + 1]
      /\ Callback = inbox[App][1]
  BY <1>a, <1>1, TakeMoves
<1> HIDE DEF w
<1>3. 1 \in DOMAIN inbox[App] /\ IsDone(inbox[App][1], w)
  BY <1>1, <1>2 DEF IsDone, w
<1>4. \A v \in Views : Running(v)' <=> Running(v)
  BY <1>1 DEF Running
<1>5. \A v \in Views : \A i \in DOMAIN inbox'[App] :
        IsDone(inbox[App][i], v)' =>
          i + 1 \in DOMAIN inbox[App] /\ i \in Nat \ {0} /\ IsDone(inbox[App][i + 1], v)
  BY <1>1, <1>2 DEF IsDone
<1>6. ASSUME NEW v \in Views, v = w
      PROVE  Due(v) /\ ~Due(v)'
  <2>1. ~Running(v) /\ \A j \in DOMAIN inbox[App] : IsDone(inbox[App][j], v) => j = 1
    BY <1>3, <1>6 DEF CleanInv, DueOnce
  <2>2. \A i \in DOMAIN inbox'[App] : ~IsDone(inbox[App][i], v)'
    <3> SUFFICES ASSUME NEW i \in DOMAIN inbox'[App], IsDone(inbox[App][i], v)'
                 PROVE  FALSE
      OBVIOUS
    <3>1. i \in Nat \ {0} /\ i + 1 = 1
      BY <1>5, <2>1
    <3>2. QED
      BY <3>1
  <2>3. QED
    BY <1>3, <1>4, <1>6, <2>1, <2>2 DEF Due, Completing
<1>7. ASSUME NEW v \in Views, v # w
      PROVE  Due(v)' <=> Due(v)
  <2>1. ASSUME Completing(v) PROVE Completing(v)'
    <3>1. PICK i \in DOMAIN inbox[App] : IsDone(inbox[App][i], v)
      BY <2>1 DEF Completing
    <3>2. i # 1
      BY <1>3, <1>7, <3>1 DEF IsDone
    <3>3. i - 1 \in DOMAIN inbox'[App] /\ (i - 1) + 1 = i
      BY <1>2, <3>2
    <3>4. inbox'[App][i - 1] = inbox[App][i]
      BY <1>2, <3>3
    <3>5. QED
      BY <1>1, <3>1, <3>3, <3>4 DEF Completing, IsDone
  <2>2. Completing(v)' => Completing(v)
    BY <1>5 DEF Completing
  <2>3. QED
    BY <1>4, <2>1, <2>2 DEF Due
<1>8. DueOnce'
  <2> SUFFICES ASSUME NEW v \in Views, NEW i \in DOMAIN inbox'[App],
                      IsDone(inbox[App][i], v)'
               PROVE  /\ ~Running(v)'
                      /\ \A j \in DOMAIN inbox'[App] :
                           IsDone(inbox[App][j], v)' => j = i
    BY DEF DueOnce
  <2>1. i + 1 \in DOMAIN inbox[App] /\ IsDone(inbox[App][i + 1], v) /\ i \in Nat
    BY <1>5
  <2>2. ASSUME NEW j \in DOMAIN inbox'[App], IsDone(inbox[App][j], v)'
        PROVE  j = i
    <3>1. j + 1 \in DOMAIN inbox[App] /\ IsDone(inbox[App][j + 1], v) /\ j \in Nat
      BY <1>5, <2>2
    <3>2. j + 1 = i + 1
      BY <2>1, <3>1 DEF CleanInv, DueOnce
    <3>3. QED
      BY <2>1, <3>1, <3>2
  <2>3. ~Running(v)'
    BY <1>4, <2>1 DEF CleanInv, DueOnce
  <2>4. QED
    BY <2>2, <2>3
<1>9. BatchInv'
  <2> SUFFICES ASSUME NEW v \in Views
               PROVE  IF Due(v)' THEN batch'[v] = 1 ELSE batch'[v] = 0 /\ ~executing'[v]
    BY DEF BatchInv
  <2>1. CASE v = w
    <3>1. batch[v] = 1
      BY <1>6, <2>1 DEF CleanInv, BatchInv
    <3>2. batch'[v] = 0 /\ ~executing'[v]
      BY <1>a, <1>1, <2>1, <3>1 DEF TypeOK
    <3>3. QED
      BY <1>6, <2>1, <3>2
  <2>2. CASE v # w
    <3>1. batch'[v] = batch[v] /\ executing'[v] = executing[v]
      BY <1>a, <1>1, <2>2 DEF TypeOK
    <3>2. QED
      BY <1>7, <2>2, <3>1 DEF CleanInv, BatchInv
  <2>3. QED
    BY <2>1, <2>2
<1>10. QED
  BY <1>8, <1>9

(* A thread is started for a view that nothing is due for.                  *)
LEMMA DueLaunch ==
  ASSUME Patient, ~RunFails, IInv, PatientInv, CleanInv,
         NEW v \in Views, OnCreate(v) \/ RestartQuery(v)
  PROVE  DueOnce' /\ BatchInv'
<1>a. TypeOK /\ ViewInv
  BY DEF IInv
<1>1. PICK t \in Threads :
        /\ pc[t] = "unborn" /\ pc' = [pc EXCEPT ![t] = "start"]
        /\ view' = [view EXCEPT ![t] = v]
        /\ batch' = [batch EXCEPT ![v] = batch[v] + 1]
        /\ executing' = [executing EXCEPT ![v] = TRUE]
        /\ inbox' = inbox
  BY LaunchStarts
<1>2. \A u \in Threads : u # t => pc'[u] = pc[u] /\ view'[u] = view[u]
  BY <1>a, <1>1 DEF TypeOK
<1>3. pc'[t] \in Early /\ view'[t] = v /\ pc[t] \notin Early
  BY <1>a, <1>1 DEF TypeOK, Early, Critical
<1>4. /\ \A u \in Threads : Alive(u) => view[u] # v
      /\ \A i \in DOMAIN inbox[App] : view[inbox[App][i].thread] # v
  BY StartsSettled
<1>5. \A i \in DOMAIN inbox[App] : inbox[App][i].thread \in Threads \ {t}
  BY <1>a, <1>1, EventThread DEF PatientInv, EventsOpen
<1>6. \A x \in Views : \A i \in DOMAIN inbox[App] :
        IsDone(inbox[App][i], x)' <=> IsDone(inbox[App][i], x)
  BY <1>1, <1>2, <1>5 DEF IsDone
<1>7. \A x \in Views : Completing(x)' <=> Completing(x)
  BY <1>1, <1>6 DEF Completing
<1>8. \A x \in Views : x # v => (Running(x)' <=> Running(x))
  BY <1>2, <1>3 DEF Running
<1>9. ~Completing(v) /\ ~Running(v) /\ Running(v)'
  BY <1>3, <1>4 DEF Completing, Running, IsDone, Alive, Early, Critical
<1>10. DueOnce'
  BY <1>1, <1>6, <1>8, <1>9 DEF CleanInv, DueOnce, Completing
<1>11. BatchInv'
  <2>1. Due(v)' /\ batch'[v] = 1
    <3>1. batch[v] = 0
      BY <1>9 DEF CleanInv, BatchInv, Due
    <3>2. QED
      BY <1>a, <1>1, <1>9, <3>1 DEF Due, TypeOK
  <2>2. ASSUME NEW x \in Views, x # v
        PROVE  /\ Due(x)' <=> Due(x)
               /\ batch'[x] = batch[x] /\ executing'[x] = executing[x]
    BY <1>a, <1>1, <1>7, <1>8, <2>2 DEF Due, TypeOK
  <2>3. QED
    BY <2>1, <2>2 DEF CleanInv, BatchInv
<1>12. QED
  BY <1>10, <1>11

(* The invariant of clean views is inductive. *)
LEMMA CleanInit == Init => CleanInv
<1> SUFFICES ASSUME Init PROVE CleanInv
  OBVIOUS
<1>1. DOMAIN inbox[App] = {} /\ \A v \in Views : inbox[v] = <<>>
  BY AppIsHandler, LenProperties DEF Init
<1>2. QED
  BY <1>1 DEF Init, CleanInv, DueOnce, BatchInv, Due, Running, Completing, EndInv,
     CancelInv, QuietInv, Early, Critical

LEMMA CleanStep ==
  Patient /\ ~RunFails /\ IInv /\ PatientInv /\ CleanInv /\ [Next]_vars => CleanInv'
<1> SUFFICES ASSUME Patient, ~RunFails, IInv, PatientInv, CleanInv, [Next]_vars
             PROVE  CleanInv'
  OBVIOUS
<1>1. CASE Next
  <2>1. EndInv' /\ CancelInv' /\ QuietInv'
    BY <1>1, EndStep, CancelStep, QuietStep
  <2>2. CASE MainStep \/ UserStep
    <3>1. ~CallFreedRetriever
      BY <2>2, MainHarmless DEF CallFreedRetriever, Harmless
    <3>2. DueOnce' /\ BatchInv'
      BY <2>2, <3>1, DueQuietMain, DueDisplay, DueComplete, DueLaunch
    <3>3. QED
      BY <2>1, <3>2 DEF CleanInv
  <2>3. CASE \E t \in Threads : ThreadStep(t)
    BY <2>1, <2>3, DueThread DEF CleanInv
  <2>4. QED
    BY <1>1, <2>2, <2>3 DEF Next
<1>2. CASE UNCHANGED vars
  BY <1>2 DEF vars, threadVars, viewVars, eventVars, CleanInv, DueOnce, BatchInv,
     Due, Running, Completing, IsDone, EndInv, CancelInv, QuietInv
<1>3. QED
  BY <1>1, <1>2

(* One completion is due for a view at most, and the batch of the grid and   *)
(* the button tell whether one is (tableeditview.cpp:137, 232).                  *)
THEOREM CleanInvariance == Patient /\ ~RunFails => (Spec => []CleanInv)
<1> SUFFICES ASSUME Patient, ~RunFails PROVE Spec => []CleanInv
  OBVIOUS
<1>1. IInv /\ PatientInv /\ CleanInv /\ [Next]_vars => CleanInv'
  BY CleanStep
<1>2. QED
  BY <1>1, CleanInit, Invariance, PatientInvariance, PTL DEF Spec

(* After the last event of a retrieval BeginBatch has been matched by       *)
(* EndBatch, the button says Execute and m_handler is null, in whatever     *)
(* order the three were reset, cancelled or not.                           *)
THEOREM Settling == Patient /\ ~RunFails => (Spec => []SettledClean)
<1> SUFFICES ASSUME Patient, ~RunFails PROVE Spec => []SettledClean
  OBVIOUS
<1>1. IInv /\ PatientInv /\ CleanInv => SettledClean
  <2> SUFFICES ASSUME IInv, PatientInv, CleanInv, NEW v \in Views,
                      Settled(v), main = Idle
               PROVE  batch[v] = 0 /\ ~executing[v] /\ handler[v] = None
    BY DEF SettledClean
  <2>1. ~Due(v)
    BY DEF Settled, Due, Running, Completing, IsDone, Alive, Early, Critical
  <2>2. handler[v] = None
    <3> SUFFICES ASSUME handler[v] # None PROVE FALSE
      OBVIOUS
    <3>1. handler[v] \in Threads /\ view[handler[v]] = v
      BY DEF IInv, TypeOK, HandlerInv
    <3>2. Alive(handler[v])
      BY DEF IInv, HandlerInv, Alive, Idle, Busy
    <3>3. QED
      BY <3>1, <3>2 DEF Settled
  <2>3. QED
    BY <2>1, <2>2 DEF CleanInv, BatchInv
<1>2. QED
  BY <1>1, Invariance, PatientInvariance, CleanInvariance, PTL
=============================================================================
