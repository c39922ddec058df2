--------------------------- MODULE SqliteCatalog ---------------------------
(***************************************************************************)
(* The catalog of an SQLite database that SQLiteDatabase keeps in memory   *)
(* (m_tables, m_tableNames), how Connect() fills it and how the polling    *)
(* thread brings it up to date (libsqlite/database_sqlite.cpp).            *)
(*                                                                         *)
(* Other programs change the file at any time.  One poll reads one version *)
(* of it: the statement on schema_version stays open until the end and     *)
(* keeps the read lock.  Connect() reads the tables and the version apart. *)
(* A call of SQLite fails in this module only for a view, of which          *)
(* sqlite3_table_column_metadata() has nothing to tell (sqlite3.h:5930).   *)
(***************************************************************************)
EXTENDS Sublists

CONSTANTS
  Tables,       (* the names of user tables and views                      *)
  Views,        (* those of them that are names of views                   *)
  Sys,          (* stands for the five tables "sys.abcat..." of Connect()  *)
  Shapes,       (* how many different (fields, indexes) counts there are   *)
  Changes,      (* what other programs do: "create", "drop", "alter",      *)
                (* "rename"                                                *)
  InWindow,     (* they may also do it while Connect() is reading          *)
  MaxVersion    (* how often they do it (bound)                            *)

ASSUME CatalogAssumption ==
  /\ Sys \notin Tables /\ Views \subseteq Tables
  /\ Shapes \in Nat \ {0} /\ MaxVersion \in Nat
  /\ Changes \subseteq {"create", "drop", "alter", "rename"}
  /\ InWindow \in BOOLEAN

VARIABLES
  disk,     (* the tables of sqlite_master, in its order, and their shapes *)
  version,  (* PRAGMA schema_version                                       *)
  conn,     (* how far Connect() is; "failed": the database is deleted     *)
  tables,   (* m_tables[m_catalog]: the DatabaseTable objects pointed to   *)
  names,    (* m_tableNames                                                *)
  num,      (* m_numOfTables                                               *)
  schema,   (* m_schema                                                    *)
  alarm,    (* errorMsg of the polling thread holds "Internaql database    *)
            (* error!!"                                                    *)
  fault     (* what a poll ran into: "null", "freed", "range" or "none"    *)

cacheVars == <<tables, names, num, schema>>
vars == <<disk, version, conn, cacheVars, alarm, fault>>

Names == Tables \cup {Sys}
Row == [name : Names, shape : 1..Shapes]
(* A DatabaseTable; shape 0 is an object without fields. *)
Table == [name : Names, shape : 0..Shapes, freed : BOOLEAN]

NamesOf(s) == {s[i].name : i \in DOMAIN s}
OnDisk == NamesOf(disk)
Cached == NamesOf(tables)
Listed == {names[i] : i \in DOMAIN names}
Without(s, n) == Omit(s, {r \in ToSet(s) : r.name = n})

(* A new file, or one that this program has opened before. *)
Init ==
  /\ disk \in {<<>>, <<[name |-> Sys, shape |-> 1]>>} /\ version = 0
  /\ conn = "closed"
  /\ tables = <<>> /\ names = <<>> /\ num = 0 /\ schema = 0
  /\ alarm = FALSE
  /\ fault = "none"

-----------------------------------------------------------------------------
(* The other programs. *)

MayChange(change) ==
  /\ change \in Changes \/ conn = "closed"
  /\ version < MaxVersion
  /\ conn # "failed" /\ (InWindow \/ conn \in {"closed", "connected"})
  /\ version' = version + 1
  /\ UNCHANGED <<conn, cacheVars, alarm, fault>>

CreateTable(n) ==
  /\ MayChange("create")
  /\ n \notin OnDisk
  /\ \E s \in 1..Shapes : disk' = Append(disk, [name |-> n, shape |-> s])

DropTable(n) ==
  /\ MayChange("drop")
  /\ n \in OnDisk
  /\ disk' = Without(disk, n)

(* A column or an index of a table is added or dropped. *)
AlterTable(n) ==
  /\ MayChange("alter")
  /\ n \notin Views
  /\ \E i \in DOMAIN disk, s \in 1..Shapes :
       /\ disk[i].name = n /\ disk[i].shape # s
       /\ disk' = [disk EXCEPT ![i].shape = s]

RenameTable(n, m) ==
  /\ MayChange("rename")
  /\ m \notin OnDisk /\ {n, m} \cap Views = {}
  /\ \E i \in DOMAIN disk :
       disk[i].name = n /\ disk' = [disk EXCEPT ![i].name = m]

OtherPrograms ==
  \E n \in Tables :
    \/ CreateTable(n) \/ DropTable(n) \/ AlterTable(n)
    \/ \E m \in Tables : RenameTable(n, m)

-----------------------------------------------------------------------------
(* AddDropTable.  quiet: errorMsg is empty; once it holds a message, the    *)
(* fields of the tables that are added are skipped.                        *)

ShapeOf(n, quiet) ==
  IF n \in OnDisk /\ quiet
  THEN disk[CHOOSE i \in DOMAIN disk : disk[i].name = n].shape
  ELSE 0

NewTable(n, quiet) == [name |-> n, shape |-> ShapeOf(n, quiet), freed |-> FALSE]

(* Nothing has failed yet when the table n of ns is added. *)
Quiet(ns, n) ==
  ~alarm /\ \E i \in DOMAIN ns : ns[i] = n /\ \A j \in 1..i : ns[j] \notin Views

(* The objects of the tables ns, added in this order.  It fails for a view, *)
(* which has no object but a name all the same.                            *)
Objects(ns) ==
  LET added == Omit(ns, Views)
  IN [i \in DOMAIN added |-> NewTable(added[i], Quiet(ns, added[i]))]

AddTables(ns) ==
  /\ tables' = tables \o Objects(ns)
  /\ names' = names \o ns
  /\ alarm' = (alarm \/ ToSet(ns) \cap Views # {})

(* A plausible slip: the name is left in m_tableNames. *)
DropTableOnly(n) ==
  /\ tables' = Without(tables, n)
  /\ names' = names

DropFromMemory(n) ==
  /\ tables' = Without(tables, n)
  /\ names' = Omit(names, {n})

DiskOrder == [i \in DOMAIN disk |-> disk[i].name]

-----------------------------------------------------------------------------
(* Connect(). *)

(* CREATE TABLE IF NOT EXISTS for the system tables, in one transaction. *)
CreateSystemTables ==
  /\ conn = "closed"
  /\ conn' = "created"
  /\ \/ Sys \in OnDisk /\ UNCHANGED <<disk, version>>
     \/ /\ Sys \notin OnDisk
        /\ disk' = Append(disk, [name |-> Sys, shape |-> 1])
        /\ version' = version + 1
  /\ UNCHANGED <<cacheVars, alarm, fault>>

(* A plausible slip: the end of the list is counted as a table. *)
CountTheEnd ==
  /\ conn = "created" /\ OnDisk \cap Views = {}
  /\ conn' = "listed"
  /\ AddTables(DiskOrder)
  /\ num' = Len(disk) + 1
  /\ UNCHANGED <<disk, version, schema, fault>>

GetTableListFromDb ==
  /\ conn = "created" /\ OnDisk \cap Views = {}
  /\ conn' = "listed"
  /\ AddTables(DiskOrder)
  /\ num' = Len(disk)
  /\ UNCHANGED <<disk, version, schema, fault>>

(* AddDropTable fails for the first view, and the connection with it. *)
GetTableListFails ==
  /\ conn = "created" /\ OnDisk \cap Views # {}
  /\ conn' = "failed"
  /\ UNCHANGED <<disk, version, cacheVars, alarm, fault>>

ReadSchemaVersion ==
  /\ conn = "listed"
  /\ conn' = "connected"
  /\ schema' = version
  /\ UNCHANGED <<disk, version, tables, names, num, alarm, fault>>

-----------------------------------------------------------------------------
(* NewTableCreation(): what a poll does depends on how many tables there    *)
(* are now and how many there were when Connect() counted them.            *)

Polls == conn = "connected" /\ fault = "none" /\ schema # version

(* A plausible slip: known tables are not skipped. *)
PollAddsAgain ==
  /\ Polls /\ Len(disk) > num
  /\ AddTables(DiskOrder)
  /\ schema' = version
  /\ UNCHANGED <<disk, version, conn, num, fault>>

(* A plausible slip: one poll adds one table. *)
PollAddsOne ==
  /\ Polls /\ Len(disk) > num
  /\ LET new == Omit(DiskOrder, Listed) IN
     /\ AddTables(IF new = <<>> THEN new ELSE <<Head(new)>>)
     /\ schema' = IF new = <<>> THEN schema ELSE version
  /\ UNCHANGED <<disk, version, conn, num, fault>>

(* More tables than then: the unknown ones are added.  The version is noted *)
(* only if there is one, and a view that cannot be added is reported.      *)
PollAdds ==
  /\ Polls /\ Len(disk) > num
  /\ LET new == Omit(DiskOrder, Listed) IN
     /\ AddTables(new)
     /\ schema' = IF new = <<>> THEN schema ELSE version
  /\ UNCHANGED <<disk, version, conn, num, fault>>

(* What is known and not on disk: temp, in m_tableNames' order. *)
Missing == Omit(names, OnDisk)
Freed == \E i \in DOMAIN tables : tables[i].freed

(* A plausible slip: the first known table is dropped. *)
PollDropsFirst ==
  /\ Polls /\ Len(disk) < num
  /\ Missing # <<>> /\ ~Freed
  /\ DropFromMemory(Head(names))
  /\ alarm' = TRUE
  /\ schema' = version
  /\ UNCHANGED <<disk, version, conn, num, fault>>

(* Fewer tables than then: the first missing one is dropped, and the last   *)
(* result of sqlite3_step, SQLITE_DONE, is taken for a failure.            *)
PollDrops ==
  /\ Polls /\ Len(disk) < num
  /\ Missing # <<>> /\ ~Freed
  /\ DropFromMemory(Head(Missing))
  /\ alarm' = TRUE
  /\ schema' = version
  /\ UNCHANGED <<disk, version, conn, num, fault>>

(* temp.at( 0 ) of an empty vector, or a deleted object on the way. *)
PollDropsNothing ==
  /\ Polls /\ Len(disk) < num
  /\ fault' = IF Missing = <<>> THEN "range" ELSE "freed"
  /\ Missing = <<>> \/ Freed
  /\ UNCHANGED <<disk, version, conn, cacheVars, alarm>>

(* As many tables as then: every one is looked up and compared.  A changed  *)
(* one is deleted, its pointer stays, and a new one is appended.           *)
FirstIn(s, n) ==
  LET here == {i \in DOMAIN s : s[i].name = n /\ ~s[i].freed} IN
  IF here = {} THEN 0 ELSE CHOOSE i \in here : \A j \in here : i <= j

PassesFreed(s, n) ==
  \E i \in DOMAIN s : s[i].freed /\ \A j \in 1..i : s[j].freed \/ s[j].name # n

Compare(st, n) ==
  LET i == FirstIn(st.tables, n) IN
  IF st.fault # "none" THEN st
  ELSE IF PassesFreed(st.tables, n) THEN [st EXCEPT !.fault = "freed"]
  ELSE IF i = 0 THEN [st EXCEPT !.fault = "null"]
  ELSE IF \E r \in {disk[k] : k \in DOMAIN disk} :
            r.name = n /\ r.shape # st.tables[i].shape
  THEN [st EXCEPT !.tables = Append([@ EXCEPT ![i].freed = TRUE],
                                   NewTable(n, ~alarm)),
                  !.names = Append(@, n)]
  ELSE st

Compared ==
  LET after[i \in 0..Len(disk)] ==
        IF i = 0 THEN [tables |-> tables, names |-> names, fault |-> "none"]
        ELSE Compare(after[i - 1], disk[i].name)
  IN after[Len(disk)]

(* After a loop without a fault the first known table is added once more,   *)
(* and the same SQLITE_DONE is taken for a failure of that.                *)
PollCompares ==
  /\ Polls /\ Len(disk) = num
  /\ Compared.fault = "none"
  /\ tables' = Compared.tables \o Objects(<<Head(names)>>)
  /\ names' = Append(Compared.names, Head(names))
  /\ schema' = version
  /\ alarm' = TRUE
  /\ UNCHANGED <<disk, version, conn, num, fault>>

PollComparesFaults ==
  /\ Polls /\ Len(disk) = num
  /\ Compared.fault # "none"
  /\ fault' = Compared.fault
  /\ UNCHANGED <<disk, version, conn, cacheVars, alarm>>

NewTableCreation ==
  PollAdds \/ PollDrops \/ PollDropsNothing \/ PollCompares \/ PollComparesFaults

Connect ==
  CreateSystemTables \/ GetTableListFromDb \/ GetTableListFails \/ ReadSchemaVersion

Next == Connect \/ NewTableCreation \/ OtherPrograms

Spec == Init /\ [][Next]_vars

(* The thread polls every five seconds as long as the program is connected. *)
FairSpec == Spec /\ WF_vars(Connect) /\ WF_vars(NewTableCreation)

-----------------------------------------------------------------------------
(* Properties. *)

(* Every variable stays within its type; every known name has an object,    *)
(* unless it is that of a view, and every object a known name (m_tables and *)
(* m_tableNames are kept apart, in both branches of AddDropTable).          *)
TypeOK ==
  /\ disk \in Seq(Row)
  /\ version \in Nat
  /\ conn \in {"closed", "created", "listed", "connected", "failed"}
  /\ tables \in Seq(Table)
  /\ names \in Seq(Names)
  /\ num \in Nat /\ schema \in Nat
  /\ alarm \in BOOLEAN
  /\ fault \in {"none", "null", "freed", "range"}
  /\ Cached = Listed \ Views

(* However tables come and go, a poll never forgets a table that is there:  *)
(* documents point to its DatabaseTable (temp at database_sqlite.cpp:1516   *)
(* holds only what is gone).                                               *)
LiveTableKept ==
  [][disk' = disk => OnDisk \cap Cached \subseteq Cached']_vars

(* While tables are only created, and as long as there is no view, a        *)
(* catalog that is up to date shows every table once and with its fields,   *)
(* however many came between two polls (AddDropTable, NewTableCreation).    *)
CatalogExact ==
  conn = "connected" /\ schema = version /\ OnDisk \cap Views = {} =>
    \A i \in DOMAIN disk :
      \E k \in DOMAIN tables :
        /\ tables[k] = [name |-> disk[i].name, shape |-> disk[i].shape,
                        freed |-> FALSE]
        /\ \A j \in DOMAIN tables : tables[j].name = disk[i].name => j = k

(* While tables and views are only created, no poll crashes                 *)
(* (NewTableCreation's temp.at( 0 ) and table->GetNumberOfFields()).        *)
PollSurvives == fault = "none"

(* A table created by another program while connected appears in the end,   *)
(* also behind a view that AddDropTable failed for (NewTableCreation).      *)
CreatedIsListed ==
  \A n \in Tables \ Views : conn = "connected" /\ n \in OnDisk ~> n \in Cached

(* "Internaql database error!! Try to restart an applicaton and see if it    *)
(* will be fixed" (database_sqlite.cpp:1609) is said when the call before    *)
(* it has failed; without views none fails in this module.                  *)
NoFalseAlarm == Views = {} => ~alarm
=============================================================================
