------------------------ MODULE TableRetrievalProofs ------------------------
(***************************************************************************)
(* Safety of TableRetrieval for any number of views, threads, rows and     *)
(* clicks, for an eager user, with syntax exports and failing threads.     *)
(***************************************************************************)
EXTENDS TableRetrieval, SequenceTheorems, TLAPS

(* A thread is between lock and unlock exactly when the mutex is its own. *)
LockInv == \A t \in Threads : pc[t] \in Critical <=> mutex = t

(* A thread that was started works for a view. *)
ViewInv == \A t \in Threads : pc[t] # "unborn" => view[t] \in Views

(* m_handler points to a thread of the view, destroyed only in a discard. *)
HandlerInv ==
  \A v \in Views :
    handler[v] # None =>
      /\ view[handler[v]] = v
      /\ pc[handler[v]] # "unborn"
      /\ pc[handler[v]] = "dead" => main = Busy("discard", v)

(* The flag is set from before the row is posted until it is displayed. *)
FlagInv == \A t \in Threads : pc[t] = "post" => processed[view[t]]

(* RowHandshake, and the flag that makes the thread wait is set. *)
RowInv ==
  \A i \in DOMAIN inbox[App] :
    LET e == inbox[App][i] IN
    e.kind = "row" =>
      /\ pc[e.thread] = "wait" /\ e.row = fetched[e.thread]
      /\ processed[view[e.thread]]
      /\ \A j \in DOMAIN inbox[App] : inbox[App][j].kind = "row" => j = i

(* The inductive invariant. *)
IInv == TypeOK /\ LockInv /\ ViewInv /\ HandlerInv /\ FlagInv /\ RowInv

-----------------------------------------------------------------------------
(* Lemmas on the data. *)

(* Taking an element out of a sequence leaves a sequence of the same set. *)
LEMMA RemoveAtType ==
  ASSUME NEW S, NEW s \in Seq(S), NEW k \in DOMAIN s
  PROVE  RemoveAt(s, k) \in Seq(S)
<1>1. k \in 1..Len(s)
  BY LenProperties
<1>2. SubSeq(s, 1, k - 1) \in Seq(S)
  BY <1>1, SubSeqProperties
<1>3. SubSeq(s, k + 1, Len(s)) \in Seq(S)
  BY <1>1, SubSeqProperties
<1>4. QED
  BY <1>2, <1>3, ConcatProperties DEF RemoveAt

(* Posting keeps the queues' types, and appends to the queue of h only. *)
LEMMA PostType ==
  ASSUME inbox \in [Handlers -> Seq(Event)], ready \in Seq(Handlers),
         fetched \in [Threads -> 0..NumRows],
         NEW h \in Handlers, NEW t \in Threads,
         NEW kind \in {"row", "done", "end"},
         Post(h, kind, t)
  PROVE  /\ inbox' \in [Handlers -> Seq(Event)]
         /\ ready' \in Seq(Handlers)
         /\ inbox'[h] =
              Append(inbox[h], [kind |-> kind, thread |-> t, row |-> fetched[t]])
         /\ \A g \in Handlers : g # h => inbox'[g] = inbox[g]
<1> DEFINE e == [kind |-> kind, thread |-> t, row |-> fetched[t]]
<1>1. e \in Event
  BY DEF Event
<1>2. Append(inbox[h], e) \in Seq(Event)
  BY <1>1, AppendProperties
<1>3. inbox' = [inbox EXCEPT ![h] = Append(inbox[h], e)]
  BY DEF Post
<1>4. ready' \in Seq(Handlers)
  BY AppendProperties DEF Post
<1> HIDE DEF e
<1>5. inbox' \in [Handlers -> Seq(Event)] /\ inbox'[h] = Append(inbox[h], e)
  BY <1>2, <1>3
<1>6. \A g \in Handlers : g # h => inbox'[g] = inbox[g]
  BY <1>3
<1>7. QED
  BY <1>4, <1>5, <1>6 DEF e

(* Taking an event keeps the queues' types, and shortens that of h only. *)
LEMMA TakeType ==
  ASSUME inbox \in [Handlers -> Seq(Event)], ready \in Seq(Handlers),
         NEW h \in Handlers, Take(h)
  PROVE  /\ inbox' \in [Handlers -> Seq(Event)]
         /\ ready' \in Seq(Handlers)
         /\ inbox'[h] = Tail(inbox[h])
         /\ \A g \in Handlers : g # h => inbox'[g] = inbox[g]
<1>1. Tail(inbox[h]) \in Seq(Event)
  BY HeadTailProperties DEF Take
<1>2. inbox' = [inbox EXCEPT ![h] = Tail(inbox[h])]
  BY DEF Take
<1>3. ready' \in Seq(Handlers)
  BY HeadTailProperties DEF Take
<1>4. QED
  BY <1>1, <1>2, <1>3
-----------------------------------------------------------------------------
(* The inductive step, one lemma per conjunct. *)

(* wxTheApp and the views are different event handlers. *)
LEMMA AppIsHandler == App \in Handlers /\ \A v \in Views : v \in Handlers /\ v # App
  BY NamesAssumption DEF Handlers

(* The invariant holds before the first window is created. *)
LEMMA InitInv == Init => IInv
<1> SUFFICES ASSUME Init PROVE IInv
  OBVIOUS
<1> USE DEF Init
<1>1. TypeOK
  <2>1. <<>> \in Seq(Event) /\ <<>> \in Seq(Handlers)
    BY EmptySeq
  <2>2. main \in [at : At, of : Views \cup Threads \cup {None}]
    BY DEF Idle, At
  <2>3. QED
    BY <2>1, <2>2, SizesAssumption DEF TypeOK, Pc, Life
<1>2. LockInv /\ ViewInv /\ HandlerInv /\ FlagInv
  BY NamesAssumption DEF LockInv, ViewInv, HandlerInv, FlagInv, Critical
<1>3. RowInv
  BY AppIsHandler, LenProperties DEF RowInv
<1>4. QED
  BY <1>1, <1>2, <1>3 DEF IInv

(* A step of a thread keeps the types. *)
LEMMA ThreadTypeOK ==
  ASSUME IInv, NEW t \in Threads, ThreadStep(t)
  PROVE  TypeOK'
<1> USE DEF TypeOK, At_, Goto, Pc, threadVars, viewVars, eventVars
<1>1. CASE EnterLoop(t)        BY <1>1 DEF IInv, EnterLoop
<1>2. CASE Lock(t)             BY <1>2 DEF IInv, Lock
<1>3. CASE PrepareStatement(t) BY <1>3 DEF IInv, PrepareStatement
<1>4. CASE PrepareFails(t)     BY <1>4 DEF IInv, PrepareFails
<1>5. CASE TestContinue(t)     BY <1>5 DEF IInv, TestContinue
<1>6. CASE FetchRow(t)
  <2>1. fetched' \in [Threads -> 0..NumRows]
    BY <1>6, SizesAssumption DEF IInv, FetchRow
  <2>2. QED
    BY <1>6, <2>1 DEF IInv, FetchRow
<1>7. CASE FetchEnds(t)        BY <1>7 DEF IInv, FetchEnds
<1>8. CASE PostRow(t)
  <2>1. inbox' \in [Handlers -> Seq(Event)] /\ ready' \in Seq(Handlers)
    BY <1>8, PostType, AppIsHandler DEF IInv, PostRow
  <2>2. QED
    BY <1>8, <2>1 DEF IInv, PostRow
<1>9. CASE RowProcessed(t)     BY <1>9 DEF IInv, RowProcessed
<1>10. CASE FinalizeStatement(t) BY <1>10 DEF IInv, FinalizeStatement
<1>11. CASE PostCompletion(t)
  <2>1. inbox' \in [Handlers -> Seq(Event)] /\ ready' \in Seq(Handlers)
    BY <1>11, PostType, AppIsHandler DEF IInv, PostCompletion
  <2>2. QED
    BY <1>11, <2>1 DEF IInv, PostCompletion
<1>12. CASE PostThreadEvent(t)
  <2>1. view[t] \in Views
    BY <1>12 DEF IInv, ViewInv, PostThreadEvent
  <2>2. inbox' \in [Handlers -> Seq(Event)] /\ ready' \in Seq(Handlers)
    BY <1>12, <2>1, PostType, AppIsHandler DEF IInv, PostThreadEvent
  <2>3. QED
    BY <1>12, <2>2 DEF IInv, PostThreadEvent
<1>13. CASE Destruct(t)          BY <1>13 DEF IInv, Destruct
<1>14. CASE UseFreedRetriever(t) BY <1>14 DEF IInv, UseFreedRetriever
<1>15. CASE UseLostStatement(t)  BY <1>15 DEF IInv, UseLostStatement
<1>16. QED
  BY <1>1, <1>2, <1>3, <1>4, <1>5, <1>6, <1>7, <1>8, <1>9, <1>10, <1>11,
     <1>12, <1>13, <1>14, <1>15 DEF ThreadStep

(* A step of the main thread or of the user keeps the types. *)
LEMMA MainTypeOK ==
  ASSUME IInv, MainStep \/ UserStep
  PROVE  TypeOK'
<1> USE DEF TypeOK, IInv, At, Life, Idle, Busy, MainIdle, threadVars, viewVars,
            eventVars
<1>a. ASSUME NEW h \in Handlers, Take(h)
      PROVE  inbox' \in [Handlers -> Seq(Event)] /\ ready' \in Seq(Handlers)
  BY <1>a, TakeType
<1>1. CASE DisplayData
  <2>1. inbox' \in [Handlers -> Seq(Event)] /\ ready' \in Seq(Handlers)
    BY <1>1, <1>a, AppIsHandler DEF DisplayData
  <2>2. processed' \in [Views -> BOOLEAN]
    BY <1>1 DEF DisplayData
  <2>4. shown' = [shown EXCEPT ![Target] = shown[Target] + 1]
    BY <1>1 DEF DisplayData
  <2> DEFINE n == [v \in Views |-> IF v = Target THEN shown[v] + 1 ELSE shown[v]]
  <2>6. shown' = n
    BY <2>4
  <2>7. n \in [Views -> Nat]
    OBVIOUS
  <2>5. shown' \in [Views -> Nat]
    BY <2>6, <2>7
  <2>3. QED
    BY <1>1, <2>1, <2>2, <2>5 DEF DisplayData
<1>2. CASE CompleteRetrieval
  <2>1. inbox' \in [Handlers -> Seq(Event)] /\ ready' \in Seq(Handlers)
    BY <1>2, <1>a, AppIsHandler DEF CompleteRetrieval
  <2>2. executing' \in [Views -> BOOLEAN]
    BY <1>2 DEF CompleteRetrieval
  <2>4. batch' = [batch EXCEPT ![Target] = batch[Target] - 1]
    BY <1>2 DEF CompleteRetrieval
  <2> DEFINE n == [v \in Views |-> IF v = Target THEN batch[v] - 1 ELSE batch[v]]
  <2>6. batch' = n
    BY <2>4
  <2>7. n \in [Views -> Int]
    OBVIOUS
  <2>5. batch' \in [Views -> Int]
    BY <2>6, <2>7
  <2>3. QED
    BY <1>2, <2>1, <2>2, <2>5 DEF CompleteRetrieval
<1>3. CASE CallFreedRetriever
  <2>1. inbox' \in [Handlers -> Seq(Event)] /\ ready' \in Seq(Handlers)
    BY <1>3, <1>a, AppIsHandler DEF CallFreedRetriever
  <2>2. QED
    BY <1>3, <2>1 DEF CallFreedRetriever
<1>4. ASSUME NEW v \in Views, ThreadEventHandler(v)
      PROVE  TypeOK'
  <2>1. inbox' \in [Handlers -> Seq(Event)] /\ ready' \in Seq(Handlers)
    BY <1>4, <1>a, AppIsHandler DEF ThreadEventHandler
  <2>2. QED
    BY <1>4, <2>1 DEF ThreadEventHandler
<1>5. ASSUME NEW v \in Views, ViewStep(v)
      PROVE  TypeOK'
  <2>1. CASE DiscardThread(v) BY <2>1 DEF DiscardThread
  <2>2. CASE DeleteThread(v)
    <3>1. cancel' \in [Threads -> BOOLEAN]
      BY <2>2 DEF DeleteThread
    <3>2. QED
      BY <2>2, <3>1 DEF DeleteThread
  <2>3. CASE ThreadGone(v)    BY <2>3 DEF ThreadGone
  <2>4. CASE DestroyThread(v) BY <2>4 DEF DestroyThread
  <2>5. QED
    BY <1>5, <2>1, <2>2, <2>3, <2>4 DEF ViewStep
<1>6. CASE ExportSyntax
  BY <1>6 DEF ExportSyntax
<1>b. ASSUME NEW v \in Views, NEW t \in Threads, Launch(v, t)
      PROVE  /\ view' \in [Threads -> Views \cup {None}]
             /\ pc' \in [Threads -> Pc]
             /\ handler' \in [Views -> Threads \cup {None}]
             /\ shown' \in [Views -> Nat] /\ batch' \in [Views -> Int]
             /\ executing' \in [Views -> BOOLEAN]
             /\ main' \in [at : At, of : Views \cup Threads \cup {None}]
  <2>1. view' \in [Threads -> Views \cup {None}] /\ pc' \in [Threads -> Pc]
    BY <1>b DEF Launch, Goto, Pc
  <2>2. /\ handler' \in [Views -> Threads \cup {None}]
        /\ shown' \in [Views -> Nat]
        /\ executing' \in [Views -> BOOLEAN]
    BY <1>b DEF Launch
  <2>3. batch' = [batch EXCEPT ![v] = batch[v] + 1]
    BY <1>b DEF Launch
  <2>4. batch' \in [Views -> Int]
    BY <2>3
  <2>5. main' \in [at : At, of : Views \cup Threads \cup {None}]
    BY <1>b DEF Launch
  <2>6. QED
    BY <2>1, <2>2, <2>4, <2>5
<1>7. ASSUME NEW v \in Views, OnCreate(v)
      PROVE  TypeOK'
  <2>1. PICK t \in Threads : Launch(v, t)
    BY <1>7 DEF OnCreate
  <2>2. QED
    BY <1>7, <2>1, <1>b DEF OnCreate
<1>8. ASSUME NEW v \in Views, RestartQuery(v)
      PROVE  TypeOK'
  <2>1. PICK t \in Threads : Launch(v, t)
    BY <1>8 DEF RestartQuery
  <2>2. clicks' \in 0..MaxClicks
    BY <1>8, SizesAssumption DEF RestartQuery, Click
  <2>3. QED
    BY <1>8, <2>1, <2>2, <1>b DEF RestartQuery
<1>9. ASSUME NEW v \in Views, CancelQuery(v) \/ CancelNothing(v)
      PROVE  TypeOK'
  <2>1. clicks' \in 0..MaxClicks
    BY <1>9, SizesAssumption DEF CancelQuery, CancelNothing, Click
  <2>2. QED
    BY <1>9, <2>1 DEF CancelQuery, CancelNothing
<1>10. ASSUME NEW v \in Views, CloseView(v)
       PROVE  TypeOK'
  <2>1. inbox' \in [Handlers -> Seq(Event)]
    BY <1>10, EmptySeq, AppIsHandler DEF CloseView, DropEvents
  <2>2. ready' \in Seq(Handlers)
    BY <1>10, RemoveAtType DEF CloseView, DropEvents
  <2>3. QED
    BY <1>10, <2>1, <2>2 DEF CloseView
<1>11. ASSUME NEW t \in Threads, CancelProcessing(t)
       PROVE  TypeOK'
  <2>1. /\ continue' \in [Threads -> BOOLEAN]
        /\ executing' \in [Views -> BOOLEAN]
    BY <1>11 DEF CancelProcessing
  <2>2. QED
    BY <1>11, <2>1 DEF CancelProcessing
<1>12. ASSUME NEW t \in Threads, CancelStale(t)
       PROVE  TypeOK'
  BY <1>12 DEF CancelStale
<1>13. QED
  BY <1>1, <1>2, <1>3, <1>4, <1>5, <1>6, <1>7, <1>8, <1>9, <1>10, <1>11, <1>12
     DEF MainStep, Dispatch, UserStep

(* The thread variables a step of the main thread can change: it starts a   *)
(* thread, or sets a flag of one, and never moves a running thread.         *)
LEMMA MainMovesNoThread ==
  ASSUME IInv, MainStep \/ UserStep
  PROVE  /\ mutex' = mutex /\ fetched' = fetched
         /\ \A t \in Threads :
              /\ pc[t] # "unborn" => pc'[t] = pc[t] /\ view'[t] = view[t]
              /\ pc[t] = "unborn" =>
                   \/ pc'[t] = "unborn"
                   \/ pc'[t] \in {"start", "dead"} /\ view'[t] \in Views
<1> USE DEF IInv, TypeOK, threadVars, viewVars, eventVars
<1>1. CASE Dispatch \/ ExportSyntax \/ \E v \in Views : ViewStep(v)
  BY <1>1 DEF Dispatch, DisplayData, CompleteRetrieval, CallFreedRetriever,
     ThreadEventHandler, ExportSyntax, ViewStep, DiscardThread, DeleteThread,
     ThreadGone, DestroyThread
<1>2. CASE \E v \in Views : OnCreate(v) \/ RestartQuery(v)
  BY <1>2 DEF OnCreate, RestartQuery, Launch, Goto
<1>3. CASE \E v \in Views : CancelQuery(v) \/ CancelNothing(v) \/ CloseView(v)
  BY <1>3 DEF CancelQuery, CancelNothing, CloseView
<1>4. CASE \E t \in Threads : CancelProcessing(t) \/ CancelStale(t)
  BY <1>4 DEF CancelProcessing, CancelStale
<1>5. QED
  BY <1>1, <1>2, <1>3, <1>4 DEF MainStep, UserStep

(* Only the thread itself moves, and a started thread keeps its view. *)
LEMMA ThreadMovesItself ==
  ASSUME IInv, NEW t \in Threads, ThreadStep(t)
  PROVE  /\ view' = view /\ main' = main
         /\ \A u \in Threads : u # t => pc'[u] = pc[u] /\ fetched'[u] = fetched[u]
         /\ pc[t] # "unborn" /\ pc'[t] # "unborn"
         /\ pc'[t] = "dead" => Destruct(t) \/ pc[t] = "dead"
BY DEF IInv, TypeOK, threadVars, viewVars, eventVars, ThreadStep, At_, Goto,
   EnterLoop, Lock, PrepareStatement, PrepareFails, TestContinue, FetchRow,
   FetchEnds, PostRow, RowProcessed, FinalizeStatement, PostCompletion,
   PostThreadEvent, Destruct, UseFreedRetriever, UseLostStatement

(* Only the thread that owns the mutex is critical, and it lets go of both *)
(* at once; the main thread never keeps the mutex.                         *)
LEMMA LockStep ==
  ASSUME IInv, [Next]_vars
  PROVE  LockInv'
<1>1. CASE MainStep \/ UserStep
  <2>1. mutex' = mutex
    BY <1>1, MainMovesNoThread
  <2>2. ASSUME NEW t \in Threads
        PROVE  pc'[t] \in Critical <=> pc[t] \in Critical
    BY <1>1, MainMovesNoThread DEF Critical
  <2>3. QED
    BY <2>1, <2>2 DEF IInv, LockInv
<1>2. ASSUME NEW t \in Threads, ThreadStep(t)
      PROVE  LockInv'
  <2> USE DEF IInv, TypeOK, LockInv, Critical, At_, Goto
  <2>1. CASE Lock(t)
    BY <2>1, NamesAssumption DEF Lock
  <2>2. CASE PrepareFails(t) \/ FinalizeStatement(t)
    <3>1. pc[t] \in Critical /\ mutex' = Free /\ pc' = [pc EXCEPT ![t] = "done"]
      BY <2>2 DEF PrepareFails, FinalizeStatement
    <3>2. \A u \in Threads : u # t => pc[u] \notin Critical
      BY <3>1
    <3>3. \A u \in Threads : pc'[u] \notin Critical
      BY <3>1, <3>2
    <3>4. QED
      BY <3>1, <3>3, NamesAssumption
  <2>3. CASE EnterLoop(t) \/ PrepareStatement(t) \/ TestContinue(t) \/ FetchRow(t)
    BY <2>3 DEF EnterLoop, PrepareStatement, TestContinue, FetchRow
  <2>4. CASE FetchEnds(t) \/ PostRow(t) \/ RowProcessed(t) \/ PostCompletion(t)
    BY <2>4 DEF FetchEnds, PostRow, RowProcessed, PostCompletion
  <2>5. CASE PostThreadEvent(t) \/ Destruct(t)
    BY <2>5 DEF PostThreadEvent, Destruct
  <2>6. CASE UseFreedRetriever(t) \/ UseLostStatement(t)
    BY <2>6 DEF UseFreedRetriever, UseLostStatement, threadVars
  <2>7. QED
    BY <1>2, <2>1, <2>2, <2>3, <2>4, <2>5, <2>6 DEF ThreadStep
<1>3. CASE UNCHANGED vars
  BY <1>3 DEF IInv, LockInv, vars, threadVars
<1>4. QED
  BY <1>1, <1>2, <1>3 DEF Next

(* The event the main loop takes next is the first of its queue. *)
LEMMA HeadIsFirst ==
  ASSUME TypeOK, inbox[App] # <<>>
  PROVE  /\ Head(inbox[App]) = inbox[App][1]
         /\ 1 \in DOMAIN inbox[App]
         /\ Head(inbox[App]).thread \in Threads
<1>1. inbox[App] \in Seq(Event)
  BY AppIsHandler DEF TypeOK
<1>2. Head(inbox[App]) = inbox[App][1] /\ Head(inbox[App]) \in Event
  BY <1>1, HeadTailProperties
<1>3. Len(inbox[App]) # 0 /\ Len(inbox[App]) \in Nat
  BY <1>1, EmptySeq, LenProperties
<1>4. DOMAIN inbox[App] = 1..Len(inbox[App])
  BY <1>1, LenProperties
<1>5. QED
  BY <1>2, <1>3, <1>4 DEF Event

(* Only one thread at a time is between lock and unlock. *)
LEMMA OneCritical == LockInv => ConnectionExclusive
BY DEF LockInv, ConnectionExclusive

(* A thread is started for a view, and works for it as long as it lives. *)
LEMMA ViewStepInv ==
  ASSUME IInv, [Next]_vars
  PROVE  ViewInv'
<1>1. CASE MainStep \/ UserStep
  BY <1>1, MainMovesNoThread DEF IInv, ViewInv
<1>2. ASSUME NEW t \in Threads, ThreadStep(t)
      PROVE  ViewInv'
  BY <1>2, ThreadMovesItself DEF IInv, ViewInv
<1>3. CASE UNCHANGED vars
  BY <1>3 DEF IInv, ViewInv, vars, threadVars
<1>4. QED
  BY <1>1, <1>2, <1>3 DEF Next

(* The main thread keeps HandlerInv: it sets m_handler with the start of a *)
(* thread, and leaves a discard only with m_handler cleared.               *)
LEMMA MainHandlerStep ==
  ASSUME IInv, MainStep \/ UserStep
  PROVE  HandlerInv'
<1> USE DEF IInv, TypeOK, threadVars, viewVars, eventVars, MainIdle, Busy, Idle
<1>1. CASE \E v \in Views : DiscardThread(v)
  <2>1. PICK v \in Views : DiscardThread(v)
    BY <1>1
  <2>2. /\ main = Busy("discard", v)
        /\ handler' = [handler EXCEPT ![v] = None]
        /\ pc' = pc /\ view' = view
    BY <2>1 DEF DiscardThread
  <2>3. QED
    BY <2>2 DEF HandlerInv
<1>2. CASE \E v \in Views : OnCreate(v) \/ RestartQuery(v)
  <2>1. PICK v \in Views, t \in Threads : Launch(v, t)
    BY <1>2 DEF OnCreate, RestartQuery
  <2>2. main.at = "idle"
    BY <1>2 DEF OnCreate, RestartQuery, Click
  <2>3. /\ pc[t] = "unborn"
        /\ view' = [view EXCEPT ![t] = v]
        /\ handler' = [handler EXCEPT ![v] = t]
        /\ \/ pc' = [pc EXCEPT ![t] = "start"]
           \/ pc' = [pc EXCEPT ![t] = "dead"] /\ main' = Busy("discard", v)
    BY <2>1 DEF Launch, Goto
  <2>4. ASSUME NEW w \in Views, handler'[w] # None
        PROVE  /\ view'[handler'[w]] = w
               /\ pc'[handler'[w]] # "unborn"
               /\ pc'[handler'[w]] = "dead" => main' = Busy("discard", w)
    <3>1. CASE w = v
      BY <2>3, <3>1
    <3>2. CASE w # v
      <4>1. handler'[w] = handler[w] /\ handler[w] # None
        BY <2>3, <2>4, <3>2
      <4>2. /\ handler[w] \in Threads /\ handler[w] # t
            /\ view[handler[w]] = w /\ pc[handler[w]] # "unborn"
            /\ pc[handler[w]] # "dead"
        BY <2>2, <2>3, <4>1 DEF HandlerInv
      <4>3. QED
        BY <2>3, <4>1, <4>2
    <3>3. QED
      BY <3>1, <3>2
  <2>5. QED
    BY <2>4 DEF HandlerInv
<1>3. CASE /\ ~\E v \in Views : DiscardThread(v)
           /\ ~\E v \in Views : OnCreate(v) \/ RestartQuery(v)
  <2>1. /\ handler' = handler
        /\ \A v \in Views : main = Busy("discard", v) => main' = main
    BY <1>3 DEF MainStep, UserStep, Dispatch, DisplayData, CompleteRetrieval,
       CallFreedRetriever, ThreadEventHandler, Take, ExportSyntax, ViewStep,
       DeleteThread, ThreadGone, DestroyThread, CancelProcessing, CancelStale,
       CancelQuery, CancelNothing, CloseView, Click
  <2>2. ASSUME NEW w \in Views, handler[w] # None
        PROVE  /\ pc'[handler[w]] = pc[handler[w]]
               /\ view'[handler[w]] = view[handler[w]]
    BY <2>2, MainMovesNoThread DEF HandlerInv
  <2>3. QED
    BY <2>1, <2>2 DEF HandlerInv
<1>4. QED
  BY <1>1, <1>2, <1>3

(* A thread dies only together with the m_handler that points to it. *)
LEMMA HandlerStep ==
  ASSUME IInv, [Next]_vars
  PROVE  HandlerInv'
<1>1. ASSUME NEW t \in Threads, ThreadStep(t)
      PROVE  HandlerInv'
  <2>1. CASE Destruct(t)
    <3>1. /\ handler' = [handler EXCEPT ![view[t]] = None]
          /\ pc' = [pc EXCEPT ![t] = "dead"]
          /\ view' = view /\ main' = main
      BY <2>1 DEF Destruct, Goto
    <3>2. QED
      BY <3>1 DEF IInv, TypeOK, HandlerInv
  <2>2. CASE ~Destruct(t)
    <3>1. handler' = handler
      BY <1>1, <2>2 DEF threadVars, viewVars, ThreadStep, EnterLoop, Lock,
         PrepareStatement, PrepareFails, TestContinue, FetchRow, FetchEnds,
         PostRow, RowProcessed, FinalizeStatement, PostCompletion,
         PostThreadEvent, UseFreedRetriever, UseLostStatement
    <3>2. QED
      BY <1>1, <2>2, <3>1, ThreadMovesItself DEF IInv, TypeOK, HandlerInv
  <2>3. QED
    BY <2>1, <2>2
<1>2. CASE UNCHANGED vars
  BY <1>2 DEF IInv, HandlerInv, vars, threadVars, viewVars
<1>3. QED
  BY <1>1, <1>2, MainHandlerStep DEF Next

(* The main thread starts no thread at "post" and clears only the flag of a *)
(* thread that waits.                                                      *)
LEMMA FlagStep ==
  ASSUME IInv, [Next]_vars
  PROVE  FlagInv'
<1> USE DEF IInv, TypeOK, threadVars, viewVars, eventVars
<1>1. CASE DisplayData
  <2> DEFINE u == Callback.thread
  <2>1. /\ processed' = [processed EXCEPT ![view[u]] = FALSE]
        /\ pc' = pc /\ view' = view
    BY <1>1 DEF DisplayData, Target
  <2>2. Callback.kind = "row" /\ inbox[App] # <<>>
    BY <1>1 DEF DisplayData, Take
  <2>3. Callback = inbox[App][1] /\ 1 \in DOMAIN inbox[App] /\ u \in Threads
    BY <2>2, HeadIsFirst DEF Callback
  <2>4. pc[u] = "wait" /\ mutex = u
    BY <2>2, <2>3 DEF RowInv, LockInv, Critical
  <2>5. \A t \in Threads : pc[t] # "post"
    BY <2>4 DEF LockInv, Critical
  <2>6. QED
    BY <2>1, <2>5 DEF FlagInv
<1>2. CASE (MainStep \/ UserStep) /\ ~DisplayData
  <2>1. processed' = processed
    BY <1>2 DEF MainStep, UserStep, Dispatch, CompleteRetrieval,
       CallFreedRetriever, ThreadEventHandler, ExportSyntax, ViewStep,
       DiscardThread, DeleteThread, ThreadGone, DestroyThread, OnCreate,
       RestartQuery, CancelProcessing, CancelStale, CancelQuery,
       CancelNothing, CloseView
  <2>2. QED
    BY <1>2, <2>1, MainMovesNoThread DEF FlagInv
<1>3. ASSUME NEW t \in Threads, ThreadStep(t)
      PROVE  FlagInv'
  <2>1. CASE FetchRow(t)
    <3>1. /\ processed' = [processed EXCEPT ![view[t]] = TRUE]
          /\ pc' = [pc EXCEPT ![t] = "post"] /\ view' = view
          /\ view[t] \in Views
      BY <2>1 DEF FetchRow, Goto, At_, ViewInv
    <3>2. QED
      BY <3>1 DEF FlagInv
  <2>2. CASE FinalizeStatement(t)
    <3>1. pc[t] = "final" /\ pc' = [pc EXCEPT ![t] = "done"]
      BY <2>2 DEF FinalizeStatement, Goto, At_
    <3>2. \A u \in Threads : pc[u] # "post"
      BY <3>1 DEF LockInv, Critical
    <3>3. QED
      BY <3>1, <3>2 DEF FlagInv
  <2>3. CASE ~FetchRow(t) /\ ~FinalizeStatement(t)
    <3>1. processed' = processed /\ view' = view
      BY <1>3, <2>3 DEF ThreadStep, EnterLoop, Lock, PrepareStatement,
         PrepareFails, TestContinue, FetchEnds, PostRow, RowProcessed,
         PostCompletion, PostThreadEvent, Destruct, UseFreedRetriever,
         UseLostStatement
    <3>2. pc'[t] # "post" \/ pc'[t] = pc[t]
      BY <1>3, <2>3 DEF ThreadStep, At_, Goto, EnterLoop, Lock,
         PrepareStatement, PrepareFails, TestContinue, FetchEnds, PostRow,
         RowProcessed, PostCompletion, PostThreadEvent, Destruct,
         UseFreedRetriever, UseLostStatement
    <3>3. QED
      BY <1>3, <3>1, <3>2, ThreadMovesItself DEF FlagInv
  <2>4. QED
    BY <2>1, <2>2, <2>3
<1>4. CASE UNCHANGED vars
  BY <1>4 DEF FlagInv, vars
<1>5. QED
  BY <1>1, <1>2, <1>3, <1>4 DEF Next

(* Events that stay, with threads that stay and flags that stay set, keep   *)
(* the invariant of the rows under way.                                    *)
LEMMA RowsKept ==
  ASSUME TypeOK, TypeOK', RowInv, NEW d \in {0, 1},
         \A i \in DOMAIN inbox'[App] :
           i + d \in DOMAIN inbox[App] /\ inbox'[App][i] = inbox[App][i + d],
         \A i \in DOMAIN inbox[App] :
           inbox[App][i].kind = "row" =>
             LET u == inbox[App][i].thread IN
             /\ pc'[u] = pc[u] /\ fetched'[u] = fetched[u]
             /\ processed'[view'[u]]
  PROVE  RowInv'
<1>1. DOMAIN inbox'[App] \subseteq Int
  BY AppIsHandler, LenProperties DEF TypeOK
<1>2. ASSUME NEW i \in DOMAIN inbox'[App], inbox'[App][i].kind = "row"
      PROVE  LET e == inbox'[App][i] IN
             /\ pc'[e.thread] = "wait" /\ e.row = fetched'[e.thread]
             /\ processed'[view'[e.thread]]
             /\ \A j \in DOMAIN inbox'[App] : inbox'[App][j].kind = "row" => j = i
  <2>1. i + d \in DOMAIN inbox[App] /\ inbox'[App][i] = inbox[App][i + d]
    OBVIOUS
  <2>2. LET e == inbox'[App][i] IN
        /\ pc'[e.thread] = "wait" /\ e.row = fetched'[e.thread]
        /\ processed'[view'[e.thread]]
    BY <1>2, <2>1 DEF RowInv
  <2>3. ASSUME NEW j \in DOMAIN inbox'[App], inbox'[App][j].kind = "row"
        PROVE  j = i
    <3>1. j + d \in DOMAIN inbox[App] /\ inbox[App][j + d].kind = "row"
      BY <2>3
    <3>2. i + d \in DOMAIN inbox[App] /\ inbox[App][i + d].kind = "row"
      BY <1>2, <2>1
    <3>3. \A a, b \in DOMAIN inbox[App] :
            inbox[App][a].kind = "row" /\ inbox[App][b].kind = "row" => a = b
      BY DEF RowInv
    <3>4. j + d = i + d
      BY <3>1, <3>2, <3>3
    <3>5. i \in Int /\ j \in Int /\ d \in Int
      BY <1>1
    <3>6. QED
      BY <3>4, <3>5
  <2>4. QED
    BY <2>2, <2>3
<1>3. QED
  BY <1>2 DEF RowInv

(* Row events under way keep their thread at "wait": it owns the mutex, and *)
(* no other thread is critical.                                            *)
LEMMA RowWaits ==
  ASSUME IInv, NEW i \in DOMAIN inbox[App], inbox[App][i].kind = "row"
  PROVE  LET u == inbox[App][i].thread IN
         /\ u \in Threads /\ view[u] \in Views
         /\ pc[u] = "wait" /\ processed[view[u]]
         /\ \A t \in Threads : pc[t] \in Critical => t = u
<1> DEFINE u == inbox[App][i].thread
<1>1. inbox[App][i] \in Event
  BY AppIsHandler, ElementOfSeq, LenProperties DEF IInv, TypeOK
<1>2. u \in Threads
  BY <1>1 DEF Event
<1>3. pc[u] = "wait" /\ processed[view[u]]
  BY DEF IInv, RowInv
<1>4. view[u] \in Views
  BY <1>2, <1>3 DEF IInv, ViewInv
<1>5. \A t \in Threads : pc[t] \in Critical => t = u
  BY <1>2, <1>3 DEF IInv, LockInv, Critical
<1>6. QED
  BY <1>2, <1>3, <1>4, <1>5

(* After an event is taken every other one is one place further ahead. *)
LEMMA TakeShifts ==
  ASSUME TypeOK, NEW h \in Handlers, Take(h)
  PROVE  \E d \in {0, 1} :
           \A i \in DOMAIN inbox'[App] :
             i + d \in DOMAIN inbox[App] /\ inbox'[App][i] = inbox[App][i + d]
<1>1. inbox[App] \in Seq(Event)
  BY AppIsHandler DEF TypeOK
<1>2. CASE h = App
  <2>1. inbox'[App] = Tail(inbox[App]) /\ inbox[App] # <<>>
    BY <1>2, TakeType, AppIsHandler DEF TypeOK, Take
  <2>2. /\ Len(Tail(inbox[App])) = Len(inbox[App]) - 1
        /\ \A i \in 1..Len(Tail(inbox[App])) :
             Tail(inbox[App])[i] = inbox[App][i + 1]
    BY <1>1, <2>1, HeadTailProperties
  <2>3. Tail(inbox[App]) \in Seq(Event)
    BY <1>1, <2>1, HeadTailProperties
  <2>4. /\ DOMAIN Tail(inbox[App]) = 1..Len(Tail(inbox[App]))
        /\ DOMAIN inbox[App] = 1..Len(inbox[App])
        /\ Len(inbox[App]) \in Nat
    BY <1>1, <2>3, LenProperties
  <2>5. \A i \in DOMAIN inbox'[App] :
          i + 1 \in DOMAIN inbox[App] /\ inbox'[App][i] = inbox[App][i + 1]
    BY <2>1, <2>2, <2>4
  <2>6. QED
    BY <2>5
<1>3. CASE h # App
  <2>1. inbox'[App] = inbox[App]
    BY <1>3, TakeType, AppIsHandler DEF TypeOK
  <2>2. \A i \in DOMAIN inbox[App] : i + 0 = i
    BY <1>1, LenProperties
  <2>3. QED
    BY <2>1, <2>2
<1>4. QED
  BY <1>2, <1>3

(* The same for a step that leaves the queue of wxTheApp alone. *)
LEMMA RowsSame ==
  ASSUME TypeOK, TypeOK', RowInv, inbox'[App] = inbox[App],
         \A i \in DOMAIN inbox[App] :
           inbox[App][i].kind = "row" =>
             LET u == inbox[App][i].thread IN
             /\ pc'[u] = pc[u] /\ fetched'[u] = fetched[u]
             /\ processed'[view'[u]]
  PROVE  RowInv'
<1>1. \A i \in DOMAIN inbox[App] : i + 0 = i
  BY AppIsHandler, LenProperties DEF TypeOK
<1>2. \A i \in DOMAIN inbox'[App] :
        i + 0 \in DOMAIN inbox[App] /\ inbox'[App][i] = inbox[App][i + 0]
  BY <1>1
<1>3. QED
  BY <1>2, RowsKept

(* The main thread displays the one row under way, and moves no thread. *)
LEMMA MainRowStep ==
  ASSUME IInv, TypeOK', MainStep \/ UserStep
  PROVE  RowInv'
<1> USE DEF IInv
<1>1. CASE DisplayData
  <2>2. inbox[App] # <<>> /\ Head(inbox[App]).kind = "row"
    BY <1>1 DEF DisplayData, Take, Callback
  <2>3. 1 \in DOMAIN inbox[App] /\ inbox[App][1].kind = "row"
    BY <2>2, HeadIsFirst
  <2>4. inbox'[App] = Tail(inbox[App]) /\ inbox[App] \in Seq(Event)
    BY <1>1, TakeType, AppIsHandler DEF TypeOK, DisplayData
  <2>5. \A i \in DOMAIN inbox'[App] :
          i \in Nat /\ i # 0 /\ i + 1 \in DOMAIN inbox[App]
            /\ inbox'[App][i] = inbox[App][i + 1]
    <3>1. /\ Tail(inbox[App]) \in Seq(Event)
          /\ Len(Tail(inbox[App])) = Len(inbox[App]) - 1
          /\ \A i \in 1..Len(Tail(inbox[App])) :
               Tail(inbox[App])[i] = inbox[App][i + 1]
      BY <2>2, <2>4, HeadTailProperties
    <3>2. /\ DOMAIN Tail(inbox[App]) = 1..Len(Tail(inbox[App]))
          /\ DOMAIN inbox[App] = 1..Len(inbox[App])
          /\ Len(inbox[App]) \in Nat
      BY <2>4, <3>1, LenProperties
    <3>3. QED
      BY <2>4, <3>1, <3>2
  <2>6. \A a, b \in DOMAIN inbox[App] :
          inbox[App][a].kind = "row" /\ inbox[App][b].kind = "row" => a = b
    BY DEF RowInv
  <2>7. \A i \in DOMAIN inbox'[App] : inbox'[App][i].kind # "row"
    <3> SUFFICES ASSUME NEW i \in DOMAIN inbox'[App], inbox'[App][i].kind = "row"
                 PROVE  FALSE
      OBVIOUS
    <3>1. i + 1 = 1
      BY <2>3, <2>5, <2>6
    <3>2. QED
      BY <2>5, <3>1
  <2>8. QED
    BY <2>7 DEF RowInv
<1>2. CASE (MainStep \/ UserStep) /\ ~DisplayData
  <2>1. processed' = processed
    BY <1>2 DEF viewVars, MainStep, UserStep, Dispatch, CompleteRetrieval,
       CallFreedRetriever, ThreadEventHandler, ExportSyntax, ViewStep,
       DiscardThread, DeleteThread, ThreadGone, DestroyThread, OnCreate,
       RestartQuery, CancelProcessing, CancelStale, CancelQuery,
       CancelNothing, CloseView
  <2>2. ASSUME NEW i \in DOMAIN inbox[App], inbox[App][i].kind = "row"
        PROVE  LET u == inbox[App][i].thread IN
               /\ pc'[u] = pc[u] /\ fetched'[u] = fetched[u]
               /\ processed'[view'[u]]
    BY <1>2, <2>1, <2>2, RowWaits, MainMovesNoThread
  <2>3. CASE \E h \in Handlers : Take(h)
    <3>1. PICK d \in {0, 1} :
            \A i \in DOMAIN inbox'[App] :
              i + d \in DOMAIN inbox[App] /\ inbox'[App][i] = inbox[App][i + d]
      BY <2>3, TakeShifts
    <3>2. QED
      BY <2>2, <3>1, RowsKept
  <2>4. CASE ~\E h \in Handlers : Take(h)
    <3>1. inbox'[App] = inbox[App]
      BY <1>2, <2>4, AppIsHandler DEF TypeOK, eventVars, MainStep, UserStep,
         Dispatch, CompleteRetrieval, CallFreedRetriever, ThreadEventHandler,
         ExportSyntax, ViewStep, DiscardThread, DeleteThread, ThreadGone,
         DestroyThread, OnCreate, RestartQuery, CancelProcessing, CancelStale,
         CancelQuery, CancelNothing, CloseView, DropEvents
    <3>2. QED
      BY <2>2, <3>1, RowsSame
  <2>5. QED
    BY <2>3, <2>4
<1>3. QED
  BY <1>1, <1>2

(* A thread posts a row only when no other row is under way: the other's    *)
(* thread would own the mutex.                                             *)
LEMMA PostRowStep ==
  ASSUME IInv, TypeOK', NEW t \in Threads, PostRow(t)
  PROVE  RowInv'
<1> USE DEF IInv
<1> DEFINE e == [kind |-> "row", thread |-> t, row |-> fetched[t]]
<1>1. /\ pc[t] = "post" /\ pc' = [pc EXCEPT ![t] = "wait"]
      /\ fetched' = fetched /\ processed' = processed /\ view' = view
      /\ Post(App, "row", t)
  BY DEF PostRow, At_, Goto, viewVars
<1>2. inbox'[App] = Append(inbox[App], e)
  BY <1>1, PostType, AppIsHandler DEF TypeOK
<1>3. \A i \in DOMAIN inbox[App] : inbox[App][i].kind # "row"
  BY <1>1, RowWaits DEF Critical
<1>4. /\ inbox[App] \in Seq(Event) /\ inbox'[App] \in Seq(Event)
      /\ Len(inbox[App]) \in Nat
      /\ DOMAIN inbox[App] = 1..Len(inbox[App])
  BY AppIsHandler, LenProperties DEF TypeOK
<1>5. /\ Len(inbox'[App]) = Len(inbox[App]) + 1
      /\ \A i \in 1..Len(inbox[App]) : inbox'[App][i] = inbox[App][i]
      /\ inbox'[App][Len(inbox[App]) + 1] = e
  BY <1>2, <1>4, AppendProperties
<1>6. DOMAIN inbox'[App] = 1..(Len(inbox[App]) + 1)
  BY <1>4, <1>5, LenProperties
<1>7. \A i \in DOMAIN inbox'[App] :
        inbox'[App][i].kind = "row" =>
          i = Len(inbox[App]) + 1 /\ inbox'[App][i] = e
  BY <1>3, <1>4, <1>5, <1>6
<1>8. pc'[t] = "wait" /\ processed'[view'[t]]
  BY <1>1 DEF FlagInv, TypeOK
<1>9. e.thread = t /\ e.row = fetched'[t]
  BY <1>1
<1> HIDE DEF e
<1>10. QED
  BY <1>7, <1>8, <1>9 DEF RowInv

(* The same for an event of another kind appended to the queue. *)
LEMMA PostDoneStep ==
  ASSUME IInv, TypeOK', NEW t \in Threads, PostCompletion(t)
  PROVE  RowInv'
<1> USE DEF IInv
<1> DEFINE e == [kind |-> "done", thread |-> t, row |-> fetched[t]]
<1>1. /\ pc[t] = "done" /\ pc' = [pc EXCEPT ![t] = "end"]
      /\ fetched' = fetched /\ processed' = processed /\ view' = view
      /\ Post(App, "done", t)
  BY DEF PostCompletion, At_, Goto, viewVars
<1>2. inbox'[App] = Append(inbox[App], e)
  BY <1>1, PostType, AppIsHandler DEF TypeOK
<1>3. /\ inbox[App] \in Seq(Event) /\ inbox'[App] \in Seq(Event)
      /\ Len(inbox[App]) \in Nat
      /\ DOMAIN inbox[App] = 1..Len(inbox[App])
  BY AppIsHandler, LenProperties DEF TypeOK
<1>4. /\ Len(inbox'[App]) = Len(inbox[App]) + 1
      /\ \A i \in 1..Len(inbox[App]) : inbox'[App][i] = inbox[App][i]
      /\ inbox'[App][Len(inbox[App]) + 1] = e
  BY <1>2, <1>3, AppendProperties
<1>5. DOMAIN inbox'[App] = 1..(Len(inbox[App]) + 1)
  BY <1>3, <1>4, LenProperties
<1>6. e.kind # "row"
  OBVIOUS
<1> HIDE DEF e
<1>7. \A i \in DOMAIN inbox'[App] :
        inbox'[App][i].kind = "row" =>
          i \in DOMAIN inbox[App] /\ inbox'[App][i] = inbox[App][i]
  BY <1>3, <1>4, <1>5, <1>6
<1>8. \A i \in DOMAIN inbox[App] :
        inbox[App][i].kind = "row" =>
          LET u == inbox[App][i].thread IN
          pc'[u] = pc[u] /\ fetched'[u] = fetched[u] /\ processed'[view'[u]]
  BY <1>1, RowWaits DEF TypeOK
<1>9. QED
  BY <1>7, <1>8 DEF RowInv

(* Every other step of a thread leaves the queue of wxTheApp alone; the one *)
(* that waits moves on only when its row has been displayed.               *)
LEMMA RowStep ==
  ASSUME IInv, TypeOK', [Next]_vars
  PROVE  RowInv'
<1>1. ASSUME NEW t \in Threads, ThreadStep(t), ~PostRow(t), ~PostCompletion(t)
      PROVE  RowInv'
  <2>1. inbox'[App] = inbox[App]
    <3>1. CASE PostThreadEvent(t)
      <4>1. view[t] \in Views /\ Post(view[t], "end", t)
        BY <3>1 DEF PostThreadEvent, At_, IInv, ViewInv
      <4>2. view[t] \in Handlers /\ App \in Handlers /\ view[t] # App
        BY <4>1, AppIsHandler
      <4>3. inbox' = [inbox EXCEPT ![view[t]] =
                        Append(inbox[view[t]], [kind |-> "end", thread |-> t,
                                                row |-> fetched[t]])]
        BY <4>1 DEF Post
      <4>4. QED
        BY <4>2, <4>3 DEF IInv, TypeOK
    <3>2. CASE ~PostThreadEvent(t)
      BY <1>1, <3>2 DEF eventVars, ThreadStep, EnterLoop, Lock,
         PrepareStatement, PrepareFails, TestContinue, FetchRow, FetchEnds,
         RowProcessed, FinalizeStatement, Destruct, UseFreedRetriever,
         UseLostStatement
    <3>3. QED
      BY <3>1, <3>2
  <2>2. ASSUME NEW i \in DOMAIN inbox[App], inbox[App][i].kind = "row"
        PROVE  LET u == inbox[App][i].thread IN
               /\ pc'[u] = pc[u] /\ fetched'[u] = fetched[u]
               /\ processed'[view'[u]]
    <3> DEFINE u == inbox[App][i].thread
    <3>1. /\ u \in Threads /\ view[u] \in Views
          /\ pc[u] = "wait" /\ processed[view[u]]
          /\ \A s \in Threads : pc[s] \in Critical => s = u
      BY <2>2, RowWaits
    <3> HIDE DEF u
    <3>2. CASE t = u
      <4>1. UseFreedRetriever(t) \/ UseLostStatement(t)
        BY <1>1, <3>1, <3>2 DEF ThreadStep, At_, EnterLoop, Lock,
           PrepareStatement, PrepareFails, TestContinue, FetchRow, FetchEnds,
           RowProcessed, FinalizeStatement, PostThreadEvent, Destruct
      <4>2. /\ pc' = pc /\ fetched' = fetched
            /\ processed' = processed /\ view' = view
        BY <4>1 DEF UseFreedRetriever, UseLostStatement, threadVars, viewVars
      <4>3. QED
        BY <3>1, <4>2 DEF u
    <3>3. CASE t # u
      <4>1. pc[t] \notin Critical
        BY <3>1, <3>3
      <4>2. processed' = processed
        BY <1>1, <4>1 DEF Critical, viewVars, ThreadStep, At_, EnterLoop, Lock,
           PrepareStatement, PrepareFails, TestContinue, FetchRow, FetchEnds,
           RowProcessed, FinalizeStatement, PostThreadEvent, Destruct,
           UseFreedRetriever, UseLostStatement
      <4>3. QED
        BY <1>1, <3>1, <3>3, <4>2, ThreadMovesItself DEF u
    <3>4. QED
      BY <3>2, <3>3
  <2>3. QED
    BY <2>1, <2>2, RowsSame DEF IInv
<1>2. CASE UNCHANGED vars
  BY <1>2 DEF IInv, RowInv, vars, threadVars, viewVars, eventVars
<1>3. QED
  BY <1>1, <1>2, MainRowStep, PostRowStep, PostDoneStep DEF Next

(* The invariant is inductive. *)
LEMMA NextInv == IInv /\ [Next]_vars => IInv'
<1> SUFFICES ASSUME IInv, [Next]_vars PROVE IInv'
  OBVIOUS
<1>1. TypeOK'
  <2>1. CASE UNCHANGED vars
    BY <2>1 DEF IInv, TypeOK, vars, threadVars, viewVars, eventVars
  <2>2. QED
    BY <2>1, MainTypeOK, ThreadTypeOK DEF Next
<1>2. QED
  BY <1>1, LockStep, ViewStepInv, HandlerStep, FlagStep, RowStep DEF IInv

(* The inductive invariant holds in every state of the program. *)
THEOREM Invariance == Spec => []IInv
BY InitInv, NextInv, PTL DEF Spec

(* Every variable keeps its type, for any number of views and threads. *)
THEOREM TypeCorrect == Spec => []TypeOK
<1>1. IInv => TypeOK
  BY DEF IInv
<1>2. QED
  BY <1>1, Invariance, PTL

(* One retrieval at a time uses the connection: DBTableEdit::Entry() keeps  *)
(* the lock from the preparation of its statement to the finalization.     *)
THEOREM Exclusion == Spec => []ConnectionExclusive
<1>1. IInv => ConnectionExclusive
  BY OneCritical DEF IInv
<1>2. QED
  BY <1>1, Invariance, PTL

(* A row is displayed while its thread waits on that very row: the flag of  *)
(* the DataRetriever does its duty, even with several threads per view.    *)
THEOREM Handshake == Spec => []RowHandshake
<1>1. IInv => RowHandshake
  BY DEF IInv, RowInv, RowHandshake
<1>2. QED
  BY <1>1, Invariance, PTL

(* m_handler never dangles: ~DBTableEdit clears the pointer of its view.    *)
THEOREM HandlerValid == Spec => []HandlerAlive
<1>1. IInv => HandlerAlive
  BY DEF IInv, HandlerInv, HandlerAlive, Alive
<1>2. QED
  BY <1>1, Invariance, PTL
=============================================================================
