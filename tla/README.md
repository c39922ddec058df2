# A formal model of dbhandler

dbhandler (`src/`) is a wxWidgets program in C++ to look at and edit databases:
SQLite, PostgreSQL, MySQL and whatever ODBC reaches. This directory holds TLA+
modules translated from its source, TLC runs that check them on small
instances, and TLAPS proofs for instances of every size. Line numbers below
are those of `src/`; `PROJECT.json` gives, for every definition of a module, the
lines it stands for.

## 1. Inventory of the system

| Component | State it keeps | Operations | Interacts with | Modelled |
|---|---|---|---|---|
| Table data window, `libtabledataedit` (`tableeditview`, `dbtableedit`, `dataretriever`) | `m_handler`, `m_queryexecuting`, `m_processed` of a view; `m_processed` of its DataRetriever; `m_continueProcessing` of the thread; the batch count of the grid | create, cancel, execute again, close a view; `DBTableEdit::Entry` and destructor; the three callbacks in the main thread | one detached thread per retrieval; `CallAfter` on `wxTheApp`, `wxThreadEvent` to the view; the mutex and the one `m_stmt` of the database | `TableRetrieval` |
| Main frame and polling thread, `dbhandler` (`mainframe`, `newtablehandler`) | `m_db`, `m_handler`, loaded libraries; `m_db`, `pCs` of the thread | `Connect`, `OnDatabase`, `OnQuery`, `OnTable`, `OnDatabaseProfile`, `OnClose`, destructor; `NewTableHandler::Entry` and destructor | creates and deletes the `Database`; polls it every five seconds under the mutex; hands it to documents | `MainFrame`; with the retrievals, `Program` |
| SQLite catalog, `libsqlite` | `m_tables`, `m_tableNames`, `m_numOfTables`, `m_schema` | `Connect`, `GetTableListFromDb`, `AddDropTable`, `NewTableCreation` | the file, which other programs change; the polling thread; documents that keep `DatabaseTable` pointers | `SqliteCatalog` |
| SQLite transactions, `libsqlite` | the open transaction of the connection, `m_stmt`, properties tables | `CreateIndex`, `SetTableProperties`, `ApplyForeignKey`, `DropForeignKey`, `SetFieldProperties`, ... | dialogs and property pages of the main thread | `SqliteTransactions`, `AtomicCalls` |
| Database interface, `dbinterface` | the static `my_mutex`, the catalog fields above | the abstract class `Database` | every component | through the others |
| PostgreSQL, MySQL, ODBC backends | as SQLite, with a connection or statement handle | the same interface, with the queries of each server | servers | no: the control that matters is that of SQLite, the rest is the wording of queries |
| Connection dialog, `libdbloader` | none | `ConnectToDb` | called by `MainFrame::Connect` | its result only |
| Database and query windows, `libdbwindow` | `DrawingDocument`: tables, query fields, group-by and sort lists; the canvas: selected columns; the text of the query | menu and mouse handlers of `DrawingView` and `DatabaseCanvas` | the database (partly without the lock), dialogs, the catalog's pointers; the pages below it by events | the query lists: `QueryWindow`; the database of a document: `MainFrame`, `Program`; drawing is not |
| Group-by page, `libpropertypages` (`sortgroupbypage`) | two lists with item data; what is being dragged, from where, onto what | begin a drag, release the mouse | sends `wxEVT_CHANGE_QUERY` to the view, which changes document and text | `QueryWindow` |
| Dialogs, other property pages and handlers | fields of a dialog | show, validate, return | called by the windows | no: input of the transactions |
| Table and field windows | drawing | drawing | | no |
| `libpg`, `mysql-connector`, wxSF (`libshapeframework`) | | | third-party | only as seen from their callers |

### What is hard here

* **Two kinds of threads and the main loop share one mutex.** A retrieval keeps
  it from the preparation of its SELECT to its end, and while it keeps it, it
  waits for the main thread; the main thread waits for the mutex in its own
  event handlers.
* **Flags instead of synchronisation.** `m_processed`, `m_queryexecuting`,
  `m_continueProcessing` and the two `m_handler` pointers are read and written by
  two threads, mostly without the lock.
* **Unnamed lock objects.** `std::lock_guard<std::mutex>( ... );` at
  mainframe.cpp:190, 207, 291, 302 and in two destructors is released at the
  semicolon; the code after it runs unprotected. It still waits for the mutex.
* **Detached threads that outlive what they point to**: a view closed during a
  retrieval, a database replaced while it is polled, windows opened on a
  database that was replaced.
* **A cache that others invalidate.** The catalog is compared with the file by
  a count that is taken once.
* **Failure half way**: a thread that does not start, a transaction left open.
* **One list in four places.** The columns of a query are kept by the diagram, the
  pages, the document and the text, each updated by position or by name, none
  compared with another.

### What makes each component correct

* Table data window: one retrieval on the connection at a time; a row is shown
  before its memory is freed; `m_handler` is never dangling; a retrieval ends
  and leaves the view as it found it; the main thread always comes back.
* Main frame: neither the database nor the frame is deleted under the polling
  thread; one polling thread at a time; connected if and only if polled; nothing
  leaks; closing and connecting end.
* SQLite catalog: no table that exists is forgotten; a table that appears is
  listed, once and complete; a poll does not crash; no false alarm.
* SQLite transactions: a call changes everything or nothing, its answer says
  which, and it never saves what another call left behind.
* Program: a poll and a retrieval never use the connection together; no database
  goes before the threads that use it; the main thread comes back.
* Query window: page, document and text agree after every drag, no column is lost
  or doubled, the query is what is selected.

`PROJECT.json` lists every hazard at its line, with the properties that cover it.

## 2. Modules

### TableRetrieval

| TLA+ | Code |
|---|---|
| `mutex` | `Database::Impl::my_mutex` |
| `pc`, `view`, `continue`, `cancel`, `fetched` | a `DBTableEdit` thread: its place in `Entry()` (dbtableedit.cpp:52-100) or in its destructor, the view its retriever belongs to, `m_continueProcessing`, the flag of `wxThread::Delete()`, the rows it has got |
| `stmt` | `SQLiteDatabase::m_stmt`: whose statement it is |
| `handler`, `executing`, `shown`, `batch`, `life` | a `TableEditView` |
| `processed` | the flag of its `DataRetriever` |
| `inbox`, `ready` | wxWidgets' pending events, per handler, and the list of handlers that have some: all events of a handler are delivered before the next handler gets one |
| `main` | what the main thread is in the middle of, and for which view or thread: `ThreadEventHandler`, `delete m_handler`, Cancel |
| `fault` | the undefined behaviour the program has run into; nothing happens after it |

One action is the code between two points where another thread may interfere.
`FetchEnds` covers both the end of the rows and an error of `EditTableData`;
`PrepareFails` an error of the preparation. `UseFreedRetriever`,
`UseLostStatement`, `CallFreedRetriever`, `CancelNothing`, `CancelStale` and
`DestroyThread` are the undefined behaviours: they are steps of the model, not excluded
from it. Cancel takes no lock: it loads `m_handler` in one step (`CancelQuery`) and writes
through it in another (`CancelProcessing`), and in between the thread may end, which
leaves the write to freed memory (`CancelStale`).
`ExportSyntax` is `DrawingView::OnExportSyntax`, which uses `m_stmt` without the
lock. The constant `Eager` tells the user who acts at any time from the one who
waits; all that depends on it are the guards of the user's actions.

### TableRetrievalProofs

The inductive invariant of `TableRetrieval` and its consequences (section 4).

### PatientRetrievalProofs

What holds of `TableRetrieval` for a user who waits for a view to settle (section 4).

### MainFrame

| TLA+ | Code |
|---|---|
| `mutex` | `my_mutex`; the main thread only ever waits for it |
| `db` | the life of each `Database` that `ConnectToDb` returns |
| `m_db`, `m_handler`, `frame`, `docs` | the frame, its life (`Destroy()` is delayed by wxWidgets to the idle loop), the database each document keeps |
| `pc`, `pollDb`, `cancel`, `errors` | a `NewTableHandler` thread: its place in `Entry()` or in its destructor, `m_db`, the flag of `wxThread::Delete()`, whether `errorMsg` holds anything |
| `main` | how far `Connect()` or `OnClose()` is, the new database, the pointer read from `m_handler`, what comes next |

A poll that fails calls `Delete()` on its own thread, which wxThread refuses for
the running thread: it goes on (`NewTableCreation`). `Connect` starts with the
answer of `ConnectToDb`; while the main thread is in `Connect()` or `OnClose()`
no other event is handled. `OpenDocument` is `DrawingDocument::SetDatabase`; a window
may also not come about, as when its library is not there. `OnWindow` is the common part
of `OnDatabase`, `OnQuery` and `OnTable`: a window on the frame's database, after a connect
if there is none. `OnTable` uses its library pointer also where the library could not be
loaded and the pointer is null (mainframe.cpp:534); that is left out.

### MainFrameProofs

The inductive invariant of `MainFrame` and its consequences (section 4).

### Program

`Program` extends `MainFrame` by the retrievals of data windows. Of these it keeps
what touches the frame: the mutex they hold, the database they use, and that they
wait for the main loop.

| TLA+ | Code |
|---|---|
| `shared` | whether `my_mutex` of libtabledataedit and that of the executable are one object: a static member that five libraries define (newtablehandler.cpp:15, dbtableedit.cpp:30); an initial value, never changed |
| `held` | which retrieval holds its mutex |
| `retr`, `retrDb` | where a `DBTableEdit` thread is: before its lock, fetching, with a row in the queue of the main loop, in its destructor; its `m_db` |
| `rash` | the user has stopped the polling thread during a retrieval, or used Create Database |

Every step of the frame and of the polling thread is a step of `MainFrame` with
one more guard: where it waits for the mutex, the retrievals must not hold it.
`OpenDataWindow` is `OnTableDataEdit` of a window with a database; the retrieval
starts or fails to. `OnCreateDatabase` deletes the database of its document and
keeps the new one nowhere; that it calls `ConnectToDb` through a type with four arguments
(databaseview.cpp:121) where there are more (dbloader.cpp:110) is undefined and left out. Rows, cancel and the view are in `TableRetrieval`.

### ProgramProofs

The refinement of `MainFrame` by `Program`, and the invariants of `Program` (section 4).

### QueryWindow

| TLA+ | Code |
|---|---|
| `tables`, `query`, `sorts`, `all`, `groups` | `m_tables`, `m_queryFields`, `m_sortedFieldsAll` (names without a table), `m_groupByFieldsAll`, `m_groupByFields` of `DrawingDocument` |
| `selected` | the selected `FieldShape`s of the canvas |
| `source`, `dest` | the two lists of the group-by page: a column and its item data, which is its original position |
| `clause` | the columns that follow GROUP BY in the text |
| `drag` | `m_dragSource`, `m_dragDest`, `m_isDragging`, `m_item`, `m_itemPos`, `m_sourcePos`, and whether the page has captured the mouse |
| `did` | what cannot be undone: a second selection ("again"), the last table closed ("closed"), a table closed by a click on one of its columns ("parted"), a highlighting lost ("faded"), a drop that deleted a wrong item ("lost"), a text cut by a drop within a list ("damaged") |
| `fault` | undefined behaviour; nothing happens after it |

A column is a table and a name; two tables may share names. `AddField`,
`RemoveField` and `ChangeField` are `FinishDragging` for the three directions, each
with the handler of its event in the view and the document; a release of the
mouse that finishes nothing is `LeftUpNothing`, one before any drag `LeftUpFirst`.
Positions are those of C++, from 0. The text is followed as long as it has a
GROUP BY part the program finds again.

The diagram's own actions are a click on a column (`OnLeftDown`), which adds it to the
query or removes it, and what takes the highlighting from columns and leaves them in the
query (`Fade`): a right click whose menu is dismissed (`OnRightDown`; the menu's other
commands are taken by `GetPopupMenuSelectionFromUser`, databasecanvas.cpp:550, so that Select
All and Deselect All, which the switch after it does not know, do nothing more), showing
or hiding types and comments (`ShowHideTablePart`), and a click beside the tables while the
sign of a join is selected (`OnLeftDownBeside`). A column that has lost its highlighting
and is clicked on is in the query twice; the next click takes it out, both times.
`MaxQuery` bounds the length of the query. `OnCloseTable` removes the shape under the cursor,
be it a table or not. The assumption on the constants is what a
schema has: finitely many tables, and no two columns of one table with one name.

### Sublists and SequenceLemmas

`Sublists` is the one idea that `QueryWindow` and `SqliteCatalog` share: the elements
of a sequence that are in a set (`Filter`), or are not (`Omit`), by a function on
the positions rather than by recursion on the sequence, so that it can be proved
about. `SequenceLemmas` proves what these and the operators of the community modules
(`InsertAt`, `RemoveAt`, `FlattenSeq`, `ToSet`) do to any sequence: types, lengths,
elements, repetitions, and how they commute with each other and with the
application of a function to every element.

### QueryWindowProofs

The inductive invariant of `QueryWindow` and its consequences (section 4).

### SqliteCatalog

| TLA+ | Code |
|---|---|
| `disk`, `version` | `sqlite_master` in its order, `PRAGMA schema_version` |
| `tables`, `names`, `num`, `schema` | `m_tables`, `m_tableNames`, `m_numOfTables`, `m_schema` |
| `conn` | how far `Connect()` is |
| `alarm` | `errorMsg` of the polling thread holds the text of line 1609, or that of a view; every `AddDropTable` after it finds it not empty and adds no fields |
| `fault` | what a poll has run into: a null pointer, a freed table, `at( 0 )` of an empty vector |

`Tables` are the names of tables and views, `Views` those of views. For a view
`sqlite3_table_column_metadata` has an error (sqlite3.h:5930), so that `AddDropTable` adds
a name without an object and leaves its message in `errorMsg` (`AddTables`), and `Connect()`
to a file that has one fails (`GetTableListFails`). The actions that do not concern the
columns, `CreateTable` and `DropTable`, are those of views too.

A shape stands for the two numbers a poll compares, of fields and of indexes.
The three branches of a poll (more tables than `m_numOfTables`, fewer, as many)
are three sets of actions; `Compared` is the loop of the third, as a recursive
function of the number of rows of `sqlite_master` that were looked at. One poll reads one version of the file: its first
statement stays open to the end. `Connect()` does not have this protection and
reads the tables and the version in two steps.

### SqliteCatalogProofs

The inductive invariants of `SqliteCatalog`, for any change and for creations only
(section 4).

### AtomicCalls and SqliteTransactions

`AtomicCalls` is the abstract specification of the calls of `Database` that change
something: a call makes a promise (its class), its change reaches the disk in
one step while it runs, and its answer is "ok", "failed", or lost with the program.

| TLA+ | Code |
|---|---|
| `tx`, `work` | the open transaction of the connection `m_db`, and the calls whose changes are in it |
| `disk` | the calls whose changes are in the file |
| `shown` | the calls whose changes are in `DatabaseTable` objects (properties, foreign keys) |
| `kind`, `log`, `answer` | which operation a call is, its `logOnly`, what it returned |
| `cur`, `at`, `bad` | the call that runs, its next statement, its local `result` |

`SqliteTransactions` executes a call statement by statement, and each may fail
(`Failures`). A failed statement leaves the transaction or, as SQLite does when
the disk is full or cannot be read, has rolled it back (`TransactionSurvivesOrNot`).
What differs between the operations is where they go when a statement fails
(`BeginFails`, `ReadFails`) and what they do to the memory (`DropFromMemory`,
`Analyze`, `SetsMemory`). `ApplyForeignKey` is two kinds, for a new key and for
one that exists. `Close` is `Disconnect()` and also the end of the program in
the middle of a call. ROLLBACK is assumed to succeed while a transaction is
open. The main thread makes one call at a time; the polling thread only reads.

`CallsAreAtomic` instantiates `AtomicCalls` with `class` as `Class(c)`; the other
two variables have the same names. The classes say what the code keeps:
`CreateIndex` and `SetTableProperties` are "whole"; `ApplyForeignKey` is "late",
as it reports an error when ANALYZE fails after its COMMIT; `DeleteTable` "joins"
a transaction that was left open, and its success is then worth nothing; a call
that only logs "reports", and so does `SetFieldProperties`: it inserts when the row exists
and updates when it does not, and both statements are a syntax error, because texts and
the owner, which is always empty, are not quoted (database_sqlite.cpp:1415-1435; a text
that itself ends the statement is left out).

### SqliteTransactionsProofs

The inductive invariant of `SqliteTransactions` and the refinement (section 4).

### MC modules

`MCTableRetrieval`, `MCMainFrame`, `MCSqliteCatalog` and `MCSqliteTransactions` add the symmetry sets. Symmetry
is used only in runs without liveness. `MCQueryWindow` adds the columns of the
tables; `MCProgram` adds nothing.

Operators whose comment begins "A plausible slip" are not part of a
specification: each is a definition of the module as a likely bug would have it,
and shows that a property notices (`PROJECT.json`, "mutants").

## 3. What the runs check

| Run | Bounds | Shows |
|---|---|---|
| RetrievalSafety | 2 views, 3 threads, 2 rows, 2 clicks, eager user, exports, failing threads | `TypeOK`, `ConnectionExclusive`, `RowHandshake`, `HandlerAlive` hold in every interleaving, also after the views are closed under their threads |
| RetrievalPatient | 1 view, 3 threads, 2 rows, 3 clicks, patient user, fair | `NoFault` (no fault but that of `CancelStale`), `SettledClean`, `RetrievalEnds`, `HandlerReturns`; `HandlerTracksThread`, which RetrievalRestart refutes for the eager user |
| RetrievalTwoViews | 2 views, 2 threads, 1 row, no click, fair | **violated** `HandlerReturns`: the main thread waits in the handler of one view for the mutex of the other's thread, which waits for the main thread |
| RetrievalCancel | 1 view, 1 thread, 1 row, 1 click | **violated** `CancelFindsThread`: Cancel through a null `m_handler` |
| RetrievalRestart | 1 view, 2 threads, 1 row, 2 clicks | **violated** `HandlerTracksThread`: the old thread clears the `m_handler` of the new one |
| FrameSafety | 3 databases and threads, 2 documents | `TypeOK`, `PollerPointersValid`, `DeleteFindsThread`, `OnePoller`, `ConnectedIsPolled`, `NoDatabaseLeft`, whatever the user does |
| FrameCareful | 2 databases, polling threads, documents and retrievals, one mutex or two, careful user, Create Database, fair | `ProgramTypeOK`, `DocumentsShareDatabase`, `DatabasesOutliveThreads`, `PollExcludesRetrieval`, `MainReturnsUnlessBlocked` |
| CatalogChanges | 3 tables, 1 view, 2 shapes, 6 changes of every kind, at any time | `TypeOK`, `LiveTableKept` |
| CatalogCreates | 3 tables, 1 view, 2 shapes, 4 changes, tables and view only created, not while `Connect()` reads, fair | `CatalogExact`, `PollSurvives`, `CreatedIsListed` |
| CatalogAlarm | 1 table, no view, 3 changes | **violated** `NoFalseAlarm`: a dropped table is handled and reported as an internal error |
| Transactions | 3 calls of any kind, every statement may fail, the program may end at any point | `TypeOK`, `ShownIsSaved`, `CallsAreAtomic` |
| QueryLists | 2 tables, 3 columns, two of one name, 4 columns in the query; drags until the tables are selected a second time, and not in one behaviour with a lost highlighting (`NotBoth`) | `TypeOK`, `PageAndDocumentAgree`, `ColumnsConserved`, `OverrunOnlyOutOfOrder`, `QueryFollowsDiagram`, `SortFollowsQuery` |

**Why the bounds are enough.** Two views and three threads give every pair of
actors that meets in the code: two views on one mutex, an old and a new thread of
one view, and a third one elsewhere; two rows give a first and a next row, and
an end after each. Three clicks are execute, cancel, execute. Three databases
give two replacements in a row, so that a slow old thread could meet a second
new one. Three tables allow a table that stays while one goes and another comes,
and six changes let each table be created and changed after `Connect()`, with
system tables created by it or found. Three calls are one that leaves the
transaction open, one that meets it, and one after that. Two retrievals are one that
holds the mutex and one that waits for it or is leaving; with two databases the frame
changes from one to the other under them. Three columns are the least number with which
a column goes back to a place beyond the end while another stays, and the lists have a
middle; two tables give columns that share a name and one that does not, and a query of four holds
each of the three and one of them twice. A lost highlighting and a drag have no variable
in common, so that the constraint `NotBoth` of QueryLists leaves out only their interleavings;
`QueryWindowProofs` does without it. Three tables and a view, each created once, are a
table before and behind the view, also in one poll. Deadlock is not checked: a program whose
views have settled, whose frame is gone or whose file no longer changes, and a model
that has met a fault, have nothing left to do; what must go on is stated as liveness.

**Fairness.** `TableRetrieval`: weak fairness of each thread and of the main
loop. The operating system runs every thread; a lock is taken by one contender
at a time, and in the patient run no contender can be overtaken for ever, as
retrievals are finite in number. The user need not do anything. `Program`:
weak fairness of the polling thread and of each retrieval, strong fairness of the
steps of `Connect()`, `OnClose()` and the destruction of the frame: the polling
thread leaves the mutex alone for five seconds between two polls
(newtablehandler.cpp:56), so the main thread, which tries once a millisecond, gets
it. That the main loop displays a row is not assumed, since a user who keeps the main
thread busy, or a frame that is gone, may prevent it; `MainReturnsUnlessBlocked` has
no need of it. `SqliteCatalog`: weak fairness of `Connect` and of the poll. It is assumed
that the message boxes a polling thread shows at its end get answered while the
main thread waits for it; where a toolkit can show them only from the main event
loop this is not so, and `MainReturnsUnlessBlocked` fails.

**What does not hold, and is known.** Four disagreements with the code's own words
are the violation runs above. Beside them:
a view closed during a retrieval leaves a thread and callbacks with a freed
DataRetriever (`NoFault` needs the patient user);
Cancel may write to a thread that ends at that moment, whatever the user waits for (`CancelStale`);
an export of a table's syntax during a retrieval finalizes the retrieval's statement;
windows opened before a change of profile keep the deleted database
(`DocumentsShareDatabase` needs the careful user), and so do threads of data windows
if the user does not wait for the rows, also when the frame is closed
(`DatabasesOutliveThreads`);
where the libraries share one mutex, `Connect()` and `OnClose()` wait for ever if a
retrieval holds it with a row to be displayed (`MainReturnsUnlessBlocked`), and where they do
not, a poll and a retrieval use the connection together (`PollExcludesRetrieval`);
Create Database deletes the database of the whole program and loses the new one
(`DocumentsShareDatabase` and `DatabasesOutliveThreads` hold until it is used);
a right click, a change of what is shown or a click beside the tables takes the highlighting
from columns that stay in the query, where the next click puts them once more
(`QueryFollowsDiagram` says what is left);
a view is known by its name only, every table added after it has no fields, and a file that
has a view cannot be opened (`CatalogExact` holds while there is none);
in the query window, taking grouped columns back out of order may insert beyond the
end of a vector (`OverrunOnlyOutOfOrder`), a drop within the right list deletes a
wrong item unless original position and place are equal and cuts the words GROUP BY
out of the text, taking away the last column leaves it in the text, a second
selection of tables doubles the columns and forgets the clause, closing the only table
leaves its freed shape in the document, closing one of several erases at the end of a
vector, releasing the mouse on the page before any drag uses a pointer that was
never set, and a click in it after a drop of the only item on its own list and the
closing of the table brings the item back;
`m_numOfTables` is never updated by a poll, so after a table was dropped the next
change of the schema makes a poll read `at( 0 )` of an empty vector, a changed table
leaves a freed pointer in `m_tables`, and a change made after a creation is not noticed;
a call that leaves its transaction open makes every later one fail until
`SetTableProperties` rolls it back, and `Connect()` may start that way;
a foreign key is dropped from memory before the file is changed;
a table created while `Connect()` is between its two reads appears only after
the next change.

## 4. What is proved

`TableRetrievalProofs` proves, for every number of views, threads, rows and
clicks, with the eager user, exports and failing threads included:

* `TypeCorrect`: `Spec => []TypeOK`
* `Exclusion`: `Spec => []ConnectionExclusive`
* `Handshake`: `Spec => []RowHandshake`
* `HandlerValid`: `Spec => []HandlerAlive`

from the assumptions of `TableRetrieval` alone (the constants are distinct, the
bounds are natural numbers). None of the three is inductive. `Invariance` proves

    IInv == TypeOK /\ LockInv /\ ViewInv /\ HandlerInv /\ FlagInv /\ RowInv

* `LockInv`: a thread is between lock and unlock if and only if the mutex is its
  own; `ConnectionExclusive` is that, twice.
* `ViewInv`: a started thread has a view, so that `handler[view[t]]` means something.
* `HandlerInv`: `m_handler` points to a thread *of that view*, which is what makes
  the assignment in `~DBTableEdit` clear the right pointer or a newer one, never
  leave a dangling one.
* `FlagInv` and `RowInv`: the flag of the retriever is set from before the row is
  posted until it is displayed, so a thread that waits with its row in the queue
  cannot pass. A second thread of the same view shares the flag; it cannot clear
  it in between because it would need the mutex (`LockInv`).

Each conjunct has a lemma for its step; the lemmas on queues (`PostType`,
`TakeType`, `RemoveAtType`, `TakeShifts`) say what an event posted or taken does.

`PatientRetrievalProofs` proves, for every number of views, threads, rows and clicks,
but for a user who executes again or closes a view only when it has settled, cancels
only what is under way, and exports no syntax meanwhile (`Patient`):

* `Faultless`: `Patient => (Spec => []NoFault)`, where `NoFault` leaves the one fault that no
  patience avoids, that of `CancelStale`
* `TracksThread`: `Patient => (Spec => []HandlerTracksThread)`
* `Settling`: `Patient /\ ~RunFails => (Spec => []SettledClean)`

`PatientInvariance` adds `PatientInv` to `IInv`:

    PatientInv == Harmless /\ Tracked /\ HasStmt /\ EventsOpen /\ DiscardInv

* `Tracked`: a thread that lives is the one its view points to, and the view is open.
  This is what the eager user breaks, and the `m_handler` of a second thread is
  safe because of it.
* `HasStmt`: the statement of the database is that of the thread that prepared it.
* `EventsOpen`, `DiscardInv`, `Harmless`: the callbacks in the queue are for open views;
  a thread that is discarded never ran; no view is destroyed under its thread.

and `CleanInvariance`, where every thread starts, adds

    CleanInv == DueOnce /\ BatchInv /\ EndInv /\ CancelInv /\ QuietInv

* `DueOnce` and `BatchInv`: a view waits for at most one completion, and the batch of the
  grid is open exactly while it does, and the button says Cancel only then. Neither flag is set
  where the thread ends, so that only the count of what is due relates them.
* `EndInv`, `CancelInv`, `QuietInv`: a view has its own events, and deletes its thread,
  only when the thread has posted its last one; a closed view has none.

`MainFrameProofs` proves, for every number of databases, threads and documents,
careful user or not:

* `TypeCorrect`: `Spec => []TypeOK`
* `PointersValid`: `Spec => []PollerPointersValid`
* `DeleteSafe`: `Spec => []DeleteFindsThread`
* `Single`: `Spec => []OnePoller`
* `Polled`: `Spec => []ConnectedIsPolled`
* `NothingLeft`: `Spec => []NoDatabaseLeft`

from the assumption of `MainFrame` (`None` is none of the others), by

    IInv == TypeOK /\ PollerInv /\ HandlerInv /\ DbInv /\ MainInv /\ FrameInv /\ CancelInv

* `PollerInv`: a live thread is the one `m_handler` points to and polls `m_db`.
  With one `m_handler` there is then one thread, and while it lives its database
  is the frame's. The program keeps this because `Connect()` goes on only when
  the destructor of the old thread has cleared `m_handler`.
* `HandlerInv`: `m_handler` dangles only between the failure of `Run()` and the
  `delete` after it.
* `DbInv`, `MainInv`, `FrameInv`: which databases are open, as a function of where
  the main thread is.
* `CancelInv`: a thread ends only when it was asked to, and that happens after the
  main thread has begun to wait. It is why the unlocked read of `m_handler`
  before `Delete()` is harmless; a thread that ended by itself when a poll fails,
  as newtablehandler.cpp tries to, would break it.

`ProgramProofs` proves, for every number of databases, threads, documents and
retrievals, and for one mutex or two:

* `Refinement`: `~CreatesDatabases => (ProgramSpec => Spec)`: every step of the program is a
  step of `MainFrame` or leaves its variables alone (`StepRefines`), so everything
  `MainFrameProofs` shows holds of the program too; `PointersStayValid` draws the
  conclusion for `PollerPointersValid`. Create Database is the one command that
  `MainFrame` does not have, and the theorem shows that it alone breaks the frame.
* `ProgramTypeCorrect`: `ProgramSpec => []ProgramTypeOK`, with `PointerTypes`, the types
  of the databases that documents and threads point to
* `Exclusive`: `ProgramSpec => []PollExcludesRetrieval`, by `ExclusionInv`: with one mutex a
  polling thread that polls holds it, and then no retrieval does
* `DocumentsValid`: `Careful => (ProgramSpec => []DocumentsShareDatabase)`: until the user is rash,
  every document has the database of the frame, and it is open. By `DocsInv` no document
  is open while `Connect()` is at work, because a careful user closed them or there was
  no database for them to have
* `DatabasesSafe`: `Careful => (ProgramSpec => []DatabasesOutliveThreads)`, by `SafeInv`: until
  the user is rash, `IInv` and `DocsInv` of `MainFrame` hold, every retrieval that runs uses
  the frame's open database, and none runs while the main thread is anywhere but in
  its loop

`SqliteTransactionsProofs` proves, for every number of calls and every set of
statements that may fail:

* `TypeCorrect`: `Spec => []TypeOK`
* `ShownSaved`: `Spec => []ShownIsSaved`
* `Refinement`: `Spec => CallsAreAtomic`, that is, `AtomicCalls!Spec` under the mapping

by `IInv == TypeOK /\ CallInv /\ OwnInv /\ AnswerInv /\ ShownIsSaved`. The part that
carries it is `OwnInv`: a transaction a call has begun holds nothing but its own
change, since BEGIN fails inside a transaction, and a call that comes to its COMMIT
without an error still has that transaction. `AnswerInv` then says that the answer
about to be given is right. For the refinement there is one lemma per kind of step:
a new call makes its promise (`CallMakes`), a change of the file is `Save` of the
call that runs (`DiskSaves`), an answer is one the promise allows (`ReturnAnswers`),
the end of the program loses an answer (`CloseLoses`); the rest are stutters.

`SequenceLemmas` has no theorem about the program; the two modules that follow rest on
it. The induction theorems of the library take a predicate as a parameter, which the
provers cannot instantiate. An induction over a *set* does as well: `NatSetInduction`
and `SeqSetInduction` say that a set which has 0 and the successors of its numbers, or
the empty sequence and what is appended to its sequences, has them all; they follow
from `WFMin`, that a set of numbers has a least one. What a recursive function on
`0..n` is, for every `n`, follows from them (`Recursion`), and so does what `Filter`,
`FlattenSeq` and the loop of a poll return (`FilterSteps`, `FlattenSteps`).

`SqliteCatalogProofs` proves, for every set of tables and of shapes, whatever the
other programs do and whenever:

* `TypeCorrectness`: `Spec => []TypeOK`
* `KeepsLiveTables`: `Spec => LiveTableKept`, the action property that no step forgets
  a table which is on disk

by `TypeOK /\ SystemInv` (`TypeInvariance`), where `SystemInv` says that the system tables
are on disk and known, without which a poll that compares could find the
vector of names empty and have no first name to add again. `ComparedType` follows the loop of a poll row by row. And where tables are
only created, and not while `Connect()` is at work (`OnlyCreates`):

* `ExactCatalog`: `OnlyCreates => (Spec => []CatalogExact)`
* `SurvivingPolls`: `OnlyCreates => (Spec => []PollSurvives)`

by `CreatesInv == DiskInv /\ OpenInv /\ CalmInv /\ CopyInv /\ CountInv` (`CreatesInvariance`):

* `CopyInv`: as long as no view is on disk, the tables in memory are a copy of the first
  rows of `sqlite_master`, in their order. The rows a poll does not know by their names are then the last ones
  (`NewIsRest`), and adding them restores the copy (`AddRest`).
* `CountInv`: `m_numOfTables`, which no poll updates, and `m_schema` together tell
  whether there is something to add, and a poll that goes on never finds as many tables
  as were counted, or fewer. Either number alone does not tell.
* `DiskInv`, `OpenInv`, `CalmInv`: names are distinct on disk; memory is empty before
  `Connect()`; no poll has taken a branch for dropped or changed tables.

`QueryWindowProofs` proves, for every set of tables and columns (of distinct names in
each table) and every sequence of clicks, drags, selections and closings:

* `TypeCorrect`: `Spec => []TypeOK`
* `Agreement`: `Spec => []PageAndDocumentAgree`
* `Conservation`: `Spec => []ColumnsConserved`
* `Overruns`: `Spec => []OverrunOnlyOutOfOrder`
* `QueriesSelected`: `Spec => []QueryFollowsDiagram`: what is highlighted is queried, and nothing
  else is until a highlighting is lost
* `SortsQueried`: `Spec => []SortFollowsQuery`

by `WindowInv == TypeInv /\ DiagramInv /\ PageInv` (`WindowInvariance`):

* `DiagramInv`: no table is there twice; what is selected, queried or sorted by is a
  column of the diagram. Hence tables that are selected when there are none find
  all lists empty, which is why only the second selection does harm.
* `PageInv == ListsInv /\ ClauseInv /\ DragInv /\ PlaceInv`. `ListsInv` joins page and
  document: same names in the same order, no column twice, none missing. It is not
  inductive without `DragInv`, by which the item that is dragged is still where it was
  when the drag began, so that deleting by position (page) and by name (document) delete
  the same column (`MoveOut`), and inserting at one position inserts at the other
  (`MoveIn`). `PlaceInv`: item data are original positions until a drop within the right
  list.

`QueryFollowsDiagram` and `SortFollowsQuery` are then inductive relative to `WindowInv`;
for the latter, `SortSelects`, `SortAdds` and `SortRemoves` follow the two filtered
lists through the three ways in which they change. `Overruns` is an argument by
pigeonholes: a column that does not fit back has more columns before it than there are
in the list, so that one of them must be in the other list (`EarlierGrouped`).

Only model-checked: the liveness properties `RetrievalEnds`, `HandlerReturns`,
`MainReturnsUnlessBlocked` and `CreatedIsListed`, since TLAPS does not handle ENABLED. Every
invariant and every action property that a passing run checks is proved.

## 5. Not modelled

The backends other than SQLite, drawing, dialogs, the configuration file, the
printing of messages, and wxWidgets beyond what is named above. Calls of SQLite
succeed in `SqliteCatalog`, but for the columns of a view. Of the transactions: the text of the statements (so that
one which SQLite refuses is a failure like any other), `PRAGMA writable_schema`, which
stays on, and the statement that `IsFieldPropertiesExist` never finalizes.
`TableRetrieval` and `MainFrame` each have one mutex; `Program` has the two of them as
one or as two. The document pointers to tables that a poll frees, and the calls of
databaseview.cpp that read the catalog without the lock, are data races: a model
would show that they are there, which the source does as well.

Of the query window: the keys and the drags with Ctrl of the shape library; quick select; the sort page, whose drop handler reads an item
of one list with the other (undefined), so that no state after a drop can be
modelled; the where and having pages; the SELECT, FROM and WHERE parts of the text,
which are cut by searching for names and commas; the report designer. Of the
program: `TableEditView`'s own waits for the mutex, which `TableRetrieval` has, and
attached databases.

`libshapeframework` (with its `CanvasHistory`) is a copy of wxSF, and `libpg`,
`mysql-connector` and the SQLite header are copies of those libraries: they make up
almost all of the lines under `src/` and are third-party code.

## 6. Plan

Done, in this order: `TableRetrieval` and `MainFrame`, both with proofs of their safety;
`SqliteCatalog`; `SqliteTransactions` with `AtomicCalls` and the refinement proved; `Program`,
the composition of frame and data windows, its refinement of `MainFrame` and its safety
proved; `QueryWindow`; `SequenceLemmas`, and with it the proofs of `SqliteCatalog` and
`QueryWindow`; the proofs for the patient user.

What could follow: the sort page, once its drop handler has a defined meaning; a
catalog for the servers (PostgreSQL and MySQL), whose polls differ from SQLite's in
their queries; an abstract specification of the query window, a partition of the columns
with an order on one part, which the lists implement until one of the named happenings.
