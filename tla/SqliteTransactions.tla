-------------------------- MODULE SqliteTransactions --------------------------
(***************************************************************************)
(* The calls of SQLiteDatabase that change the file, statement by          *)
(* statement (libsqlite/database_sqlite.cpp).  All of them share the one   *)
(* transaction of the connection; a call that returns early leaves it open *)
(* for the calls after it.                                                 *)
(***************************************************************************)
EXTENDS Naturals

CONSTANTS
  Calls,      (* the calls the user causes, each a change of its own (bound) *)
  Failures,   (* the statements that may fail                              *)
  None        (* no call is running                                        *)

ASSUME TransactionAssumption ==
  /\ None \notin Calls
  /\ Failures \subseteq {"read", "write", "commit", "analyze"}

VARIABLES
  connected,  (* between Connect() and Disconnect() or the program's end   *)
  tx,         (* the connection has an open transaction                    *)
  work,       (* the calls whose changes wait in it                        *)
  disk,       (* the calls whose changes are in the file                   *)
  shown,      (* the calls whose changes are in the program's tables       *)
  kind, log,  (* what a call is, and its logOnly                           *)
  answer,     (* what it returned                                          *)
  cur,        (* the call that runs, or None                               *)
  at,         (* the statement it is to execute next                       *)
  bad         (* its variable result                                       *)

dataVars == <<work, disk>>
callVars == <<kind, log, answer>>
vars == <<connected, tx, dataVars, shown, callVars, cur, at, bad>>

(* ApplyForeignKey is two kinds: isNew, and for an existing key !isNew.     *)
Foreign == {"AddForeignKey", "DropForeignKey"}
Kind == {"CreateIndex", "SetTableProperties", "SetFieldProperties",
         "DeleteTable"} \cup Foreign
Loggable == Foreign \cup {"SetTableProperties", "SetFieldProperties"}
Unknown == "unknown"

At == {"idle", "begin", "read", "write", "end", "analyze", "return"}

Init ==
  /\ connected = FALSE /\ tx = FALSE
  /\ work = {} /\ disk = {} /\ shown = {}
  /\ kind = [c \in Calls |-> Unknown]
  /\ log = [c \in Calls |-> FALSE]
  /\ answer = [c \in Calls |-> "none"]
  /\ cur = None /\ at = "idle" /\ bad = FALSE

Is(kinds) == kind[cur] \in kinds

-----------------------------------------------------------------------------
(* The connection. *)

(* Connect() creates the program's own tables in a transaction and does not *)
(* look at the result of its COMMIT; then it reads the catalog.            *)
Connect ==
  /\ ~connected
  /\ connected' = TRUE
  /\ tx' \in {FALSE} \cup (IF "commit" \in Failures THEN {TRUE} ELSE {})
  /\ shown' = disk
  /\ UNCHANGED <<dataVars, callVars, cur, at, bad>>

(* Disconnect(), or the end of the program in the middle of a call: SQLite  *)
(* rolls back what is not committed.                                       *)
Close ==
  /\ connected
  /\ connected' = FALSE
  /\ tx' = FALSE /\ work' = {} /\ shown' = {}
  /\ answer' = IF cur = None THEN answer ELSE [answer EXCEPT ![cur] = "lost"]
  /\ cur' = None /\ at' = "idle" /\ bad' = FALSE
  /\ UNCHANGED <<disk, kind, log>>

-----------------------------------------------------------------------------
(* A call. *)

(* The first statement: DeleteTable has no transaction of its own, and     *)
(* ApplyForeignKey none when it only logs.                                 *)
First(k, l) ==
  CASE k = "DeleteTable"    -> "write"
    [] k \in Foreign /\ l   -> "read"
    [] OTHER                -> "begin"

Call(c, k, l) ==
  /\ connected /\ cur = None
  /\ kind[c] = Unknown
  /\ l => k \in Loggable
  /\ kind' = [kind EXCEPT ![c] = k]
  /\ log' = [log EXCEPT ![c] = l]
  /\ cur' = c /\ at' = First(k, l) /\ bad' = FALSE
  /\ UNCHANGED <<connected, tx, dataVars, shown, answer>>

(* A statement that fails leaves the transaction, or SQLite has rolled all  *)
(* of it back (full disk, I/O error, no memory).                           *)
TransactionSurvivesOrNot ==
  \/ UNCHANGED <<tx, work>>
  \/ tx' = FALSE /\ work' = {}

Goto(there) == at' = there /\ UNCHANGED <<connected, callVars, cur>>

Begin ==
  /\ at = "begin" /\ ~tx
  /\ tx' = TRUE
  /\ Goto("read")
  /\ UNCHANGED <<dataVars, shown, bad>>

(* A plausible slip: BEGIN within a transaction is taken for a success.    *)
BeginAgain ==
  /\ at = "begin" /\ tx
  /\ Goto("read")
  /\ UNCHANGED <<tx, dataVars, shown, bad>>

(* BEGIN within a transaction fails; SetTableProperties then executes the   *)
(* ROLLBACK at its end, which ends the transaction of another call.        *)
BeginFails ==
  /\ at = "begin" /\ tx
  /\ bad' = TRUE
  /\ Goto(IF Is({"SetTableProperties"}) THEN "end" ELSE "return")
  /\ UNCHANGED <<tx, dataVars, shown>>

(* What follows the query: nothing is executed when logging only.          *)
AfterRead ==
  IF ~log[cur] THEN "write" ELSE IF Is(Foreign) THEN "return" ELSE "end"

(* DropForeignKey takes an existing key out of memory before the file is   *)
(* changed, and even when logging only.                                    *)
DropFromMemory ==
  shown' = IF Is({"DropForeignKey"}) THEN shown \cup {cur} ELSE shown

(* IsIndexExists, IsTablePropertiesExist, IsFieldPropertiesExist, SELECT    *)
(* sql.                                                                    *)
Read ==
  /\ at = "read"
  /\ Goto(AfterRead)
  /\ DropFromMemory
  /\ UNCHANGED <<tx, dataVars, bad>>

(* The query fails, or the index exists: CreateIndex and ApplyForeignKey    *)
(* return at once, SetFieldProperties goes on.                             *)
ReadFails ==
  /\ at = "read" /\ "read" \in Failures
  /\ TransactionSurvivesOrNot
  /\ bad' = ~Is({"SetFieldProperties"})
  /\ Goto(IF Is({"SetFieldProperties"}) THEN AfterRead
          ELSE IF Is({"SetTableProperties"}) THEN "end" ELSE "return")
  /\ UNCHANGED <<disk, shown>>

AfterWrite == IF Is({"DeleteTable"}) THEN "return" ELSE "end"

(* A plausible slip: DeleteTable counts on a COMMIT that nobody executes.   *)
WriteWaits ==
  /\ at = "write" /\ ~Is({"SetFieldProperties"})
  /\ work' = work \cup {cur}
  /\ Goto(AfterWrite)
  /\ UNCHANGED <<tx, disk, shown, bad>>

(* Outside a transaction a statement commits itself. *)
Write ==
  /\ at = "write" /\ ~Is({"SetFieldProperties"})
  /\ IF tx THEN work' = work \cup {cur} /\ disk' = disk
           ELSE disk' = disk \cup {cur} /\ work' = work
  /\ Goto(AfterWrite)
  /\ UNCHANGED <<tx, shown, bad>>

(* SetFieldProperties writes its texts and the owner, which is always empty, *)
(* without quotes: both of its statements (1415-1435) are a syntax error.   *)
WriteFails ==
  /\ at = "write"
  /\ "write" \in Failures \/ Is({"SetFieldProperties"})
  /\ TransactionSurvivesOrNot
  /\ bad' = TRUE
  /\ Goto(AfterWrite)
  /\ UNCHANGED <<disk, shown>>

AfterCommit == IF Is(Foreign) THEN "analyze" ELSE "return"

Commit ==
  /\ at = "end" /\ ~bad /\ tx
  /\ tx' = FALSE /\ work' = {}
  /\ disk' = disk \cup work
  /\ Goto(AfterCommit)
  /\ UNCHANGED <<shown, bad>>

(* The COMMIT of a change fails while another program reads, any COMMIT    *)
(* without a transaction.                                                  *)
CommitFails ==
  /\ at = "end" /\ ~bad
  /\ ("commit" \in Failures /\ work # {}) \/ ~tx
  /\ TransactionSurvivesOrNot
  /\ bad' = TRUE
  /\ Goto("return")
  /\ UNCHANGED <<disk, shown>>

Rollback ==
  /\ at = "end" /\ bad
  /\ tx' = FALSE /\ work' = {}
  /\ Goto("return")
  /\ UNCHANGED <<disk, shown, bad>>

(* ANALYZE sqlite_master; only then is a new key put into memory.          *)
Analyze ==
  /\ at = "analyze"
  /\ shown' = IF Is({"AddForeignKey"}) THEN shown \cup {cur} ELSE shown
  /\ Goto("return")
  /\ UNCHANGED <<tx, dataVars, bad>>

AnalyzeFails ==
  /\ at = "analyze" /\ "analyze" \in Failures
  /\ bad' = TRUE
  /\ Goto("return")
  /\ UNCHANGED <<tx, dataVars, shown>>

(* A plausible slip: the handler sets the properties whatever the answer.  *)
SetsMemoryAlways(c) ==
  Is({"SetTableProperties", "SetFieldProperties"}) /\ ~log[c]

(* propertieshandler.cpp sets the properties in memory after a success.    *)
SetsMemory(c) ==
  Is({"SetTableProperties", "SetFieldProperties"}) /\ ~bad /\ ~log[c]

Return ==
  /\ at = "return"
  /\ answer' = [answer EXCEPT ![cur] = IF bad THEN "failed" ELSE "ok"]
  /\ shown' = IF SetsMemory(cur) THEN shown \cup {cur} ELSE shown
  /\ cur' = None /\ at' = "idle" /\ bad' = FALSE
  /\ UNCHANGED <<connected, tx, dataVars, kind, log>>

Statement ==
  \/ Begin \/ BeginFails \/ Read \/ ReadFails \/ Write \/ WriteFails
  \/ Commit \/ CommitFails \/ Rollback \/ Analyze \/ AnalyzeFails \/ Return

Next ==
  \/ Connect \/ Close \/ Statement
  \/ \E c \in Calls, k \in Kind, l \in BOOLEAN : Call(c, k, l)

Spec == Init /\ [][Next]_vars

-----------------------------------------------------------------------------
(* Properties. *)

(* Types, and that no changes wait without a transaction to wait in.       *)
TypeOK ==
  /\ connected \in BOOLEAN /\ tx \in BOOLEAN /\ bad \in BOOLEAN
  /\ work \subseteq Calls /\ disk \subseteq Calls /\ shown \subseteq Calls
  /\ kind \in [Calls -> Kind \cup {Unknown}]
  /\ log \in [Calls -> BOOLEAN]
  /\ answer \in [Calls -> {"none", "ok", "failed", "lost"}]
  /\ cur \in Calls \cup {None} /\ at \in At
  /\ cur = None <=> at = "idle"
  /\ cur # None => kind[cur] # Unknown /\ answer[cur] = "none"
  /\ work # {} => tx

(* The properties of a table and the new foreign keys the program shows are *)
(* in the file, also after a COMMIT that failed or a statement that joined  *)
(* the transaction of another call.                                        *)
ShownIsSaved ==
  \A c \in shown :
    kind[c] \in {"SetTableProperties", "AddForeignKey"} => c \in disk

(* What each call promises: SetFieldProperties, whose statements are always *)
(* a syntax error, never changes the file.                                 *)
Class(c) ==
  IF kind[c] = Unknown THEN Unknown
  ELSE IF log[c] \/ kind[c] = "SetFieldProperties" THEN "reports"
  ELSE IF kind[c] \in Foreign THEN "late"
  ELSE IF kind[c] = "DeleteTable" THEN "joins" ELSE "whole"

Atomic == INSTANCE AtomicCalls WITH class <- [c \in Calls |-> Class(c)]

(* A query or a COMMIT that fails leaves the transaction open for the calls *)
(* that follow (lines 155, 408-416, 435, 899, 1073-1100, 1450); a call      *)
(* never saves the change of another all the same.  CreateIndex and        *)
(* SetTableProperties are all or nothing, and the answer tells which;      *)
(* ApplyForeignKey may have changed the file though its ANALYZE failed;    *)
(* DeleteTable may report a success that the ROLLBACK of another call      *)
(* undoes, but never changes the file after it failed; a call that only    *)
(* logs changes nothing.                                                   *)
CallsAreAtomic == Atomic!Spec
=============================================================================
