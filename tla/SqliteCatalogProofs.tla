------------------------ MODULE SqliteCatalogProofs ------------------------
(***************************************************************************)
(* Theorems about SqliteCatalog: the names and the objects of the catalog  *)
(* in memory stay in step whatever other programs do, and as long as they  *)
(* only create, the names are those of a prefix of sqlite_master, and the   *)
(* objects copies of it if there is no view, so that what a poll adds is    *)
(* exactly what is missing.                                                *)
(***************************************************************************)
EXTENDS SqliteCatalog, SequenceLemmas

-----------------------------------------------------------------------------
(* The names of a sequence of tables. *)

LEMMA NamesOfSet ==
  ASSUME NEW s
  PROVE  NamesOf(s) = {r.name : r \in ToSet(s)}
BY DEF NamesOf, ToSet

LEMMA NamesOfAppend ==
  ASSUME NEW S, NEW s \in Seq(S), NEW r \in S
  PROVE  NamesOf(Append(s, r)) = NamesOf(s) \cup {r.name}
<1>1. ToSet(Append(s, r)) = ToSet(s) \cup {r}
  BY ToSetAppend
<1>2. QED
  BY <1>1, NamesOfSet

(* The elements of a concatenation.                                        *)
LEMMA ConcatAt ==
  ASSUME NEW S, NEW s \in Seq(S), NEW t \in Seq(S)
  PROVE  /\ Len(s \o t) = Len(s) + Len(t)
         /\ \A i \in 1..Len(s) : (s \o t)[i] = s[i]
         /\ \A i \in 1..Len(t) : (s \o t)[Len(s) + i] = t[i]
OBVIOUS

LEMMA NamesOfConcat ==
  ASSUME NEW S, NEW s \in Seq(S), NEW t \in Seq(S)
  PROVE  NamesOf(s \o t) = NamesOf(s) \cup NamesOf(t)
<1>1. ToSet(s \o t) = ToSet(s) \cup ToSet(t)
  BY ToSetConcat
<1>2. QED
  BY <1>1, NamesOfSet

LEMMA WithoutProperties ==
  ASSUME NEW S, NEW s \in Seq(S), NEW n
  PROVE  /\ Without(s, n) \in Seq(S)
         /\ NamesOf(Without(s, n)) = NamesOf(s) \ {n}
<1>1. Without(s, n) \in Seq(S)
  BY OmitProperties DEF Without
<1>2. ToSet(Without(s, n)) = {r \in ToSet(s) : r.name # n}
  BY OmitProperties DEF Without
<1>3. QED
  BY <1>1, <1>2, NamesOfSet

LEMMA RowOnDisk ==
  ASSUME disk \in Seq(Row), NEW i \in DOMAIN disk
  PROVE  disk[i].name \in Names /\ disk[i].shape \in 1..Shapes
<1>1. disk[i] \in Row
  OBVIOUS
<1>2. QED
  BY <1>1 DEF Row

LEMMA DiskOrderType ==
  ASSUME disk \in Seq(Row)
  PROVE  /\ DiskOrder \in Seq(Names) /\ Len(DiskOrder) = Len(disk)
         /\ ToSet(DiskOrder) = OnDisk
<1>1. \A i \in DOMAIN disk : disk[i].name \in Names
  BY RowOnDisk
<1>2. DiskOrder \in Seq(Names) /\ Len(DiskOrder) = Len(disk)
  BY <1>1 DEF DiskOrder
<1>3. ToSet(DiskOrder) = OnDisk
  BY DEF DiskOrder, ToSet, OnDisk, NamesOf
<1>4. QED
  BY <1>2, <1>3

LEMMA NewTableType ==
  ASSUME disk \in Seq(Row), NEW n \in Names, NEW quiet
  PROVE  NewTable(n, quiet) \in Table /\ NewTable(n, quiet).name = n
<1>1. ShapeOf(n, quiet) \in 0..Shapes
  <2>1. CASE n \in OnDisk /\ quiet
    <3> DEFINE i == CHOOSE i \in DOMAIN disk : disk[i].name = n
    <3>1. i \in DOMAIN disk
      BY <2>1 DEF OnDisk, NamesOf
    <3>2. disk[i].shape \in 1..Shapes
      <4> HIDE DEF i
      <4>1. QED
        BY <3>1, RowOnDisk
    <3>3. ShapeOf(n, quiet) = disk[i].shape
      BY <2>1 DEF ShapeOf
    <3>4. QED
      <4> HIDE DEF i
      <4>1. QED
        BY <3>2, <3>3, CatalogAssumption
  <2>2. CASE ~(n \in OnDisk /\ quiet)
    BY <2>2, CatalogAssumption DEF ShapeOf
  <2>3. QED
    BY <2>1, <2>2
<1>2. QED
  BY <1>1 DEF NewTable, Table

(* The objects of added tables: one of each name that is not a view's.      *)
LEMMA ObjectsType ==
  ASSUME disk \in Seq(Row), NEW ns \in Seq(Names)
  PROVE  Objects(ns) \in Seq(Table) /\ NamesOf(Objects(ns)) = ToSet(ns) \ Views
<1> DEFINE added == Omit(ns, Views)
           new == [i \in DOMAIN added |-> NewTable(added[i], Quiet(ns, added[i]))]
<1>1. added \in Seq(Names) /\ ToSet(added) = ToSet(ns) \ Views
  BY OmitProperties
<1>2. Objects(ns) = new
  BY DEF Objects
<1> HIDE DEF added
<1>3. \A i \in DOMAIN added :
        /\ NewTable(added[i], Quiet(ns, added[i])) \in Table
        /\ NewTable(added[i], Quiet(ns, added[i])).name = added[i]
  <2>1. ASSUME NEW i \in DOMAIN added
        PROVE  added[i] \in Names
    BY <1>1
  <2>2. QED
    BY <2>1, NewTableType
<1>4. new \in Seq(Table)
  BY <1>1, <1>3
<1>5. NamesOf(new) = ToSet(added)
  BY <1>3 DEF NamesOf, ToSet
<1>6. QED
  BY <1>1, <1>2, <1>4, <1>5

(* The two vectors grow and shrink by the same names.                      *)
LEMMA AddTablesType ==
  ASSUME TypeOK, NEW ns \in Seq(Names), AddTables(ns)
  PROVE  /\ tables' \in Seq(Table) /\ names' \in Seq(Names)
         /\ Listed' = Listed \cup ToSet(ns)
         /\ Cached' = Cached \cup (ToSet(ns) \ Views)
<1> DEFINE new == Objects(ns)
<1>1. new \in Seq(Table) /\ NamesOf(new) = ToSet(ns) \ Views
  BY ObjectsType DEF TypeOK
<1>2. tables' = tables \o new /\ names' = names \o ns
  BY DEF AddTables
<1> HIDE DEF new
<1>3. NamesOf(tables \o new) = NamesOf(tables) \cup NamesOf(new)
  BY <1>1, NamesOfConcat DEF TypeOK
<1>4. ToSet(names \o ns) = ToSet(names) \cup ToSet(ns)
  BY ToSetConcat DEF TypeOK
<1>5. tables \o new \in Seq(Table) /\ names \o ns \in Seq(Names)
  BY <1>1 DEF TypeOK
<1>6. QED
  BY <1>1, <1>2, <1>3, <1>4, <1>5 DEF Listed, Cached, ToSet

LEMMA DropType ==
  ASSUME TypeOK, NEW n, DropFromMemory(n)
  PROVE  /\ tables' \in Seq(Table) /\ names' \in Seq(Names)
         /\ Listed' = Listed \ {n}
         /\ Cached' = Cached \ {n}
<1>1. Omit(names, {n}) \in Seq(Names) /\ ToSet(Omit(names, {n})) = ToSet(names) \ {n}
  BY OmitProperties DEF TypeOK
<1>2. Without(tables, n) \in Seq(Table) /\ NamesOf(Without(tables, n)) = Cached \ {n}
  BY WithoutProperties DEF TypeOK, Cached
<1>3. QED
  BY <1>1, <1>2 DEF DropFromMemory, Listed, Cached, ToSet

-----------------------------------------------------------------------------
(* The comparison of one poll. *)

States == [tables : Seq(Table), names : Seq(Names),
           fault : {"none", "null", "freed", "range"}]

(* An object is deleted where it is, and a new one of the same name added. *)
LEMMA CompareType ==
  ASSUME disk \in Seq(Row), NEW st \in States, NEW n \in Names
  PROVE  /\ Compare(st, n) \in States
         /\ NamesOf(Compare(st, n).tables) \in {NamesOf(st.tables), NamesOf(st.tables) \cup {n}}
         /\ NamesOf(st.tables) = ToSet(st.names) \ Views =>
              NamesOf(Compare(st, n).tables) = ToSet(Compare(st, n).names) \ Views
<1> DEFINE i == FirstIn(st.tables, n)
           old == [st.tables EXCEPT ![i].freed = TRUE]
           obj == NewTable(n, ~alarm)
           new == [st EXCEPT !.tables = Append(old, obj),
                             !.names = Append(@, n)]
<1>0. /\ st.tables \in Seq(Table) /\ st.names \in Seq(Names)
      /\ st.fault \in {"none", "null", "freed", "range"}
      /\ st = [tables |-> st.tables, names |-> st.names, fault |-> st.fault]
  BY DEF States
<1>1. old \in Seq(Table) /\ NamesOf(old) = NamesOf(st.tables)
  <2> DEFINE t == st.tables
             u == [t EXCEPT ![i].freed = TRUE]
  <2>1. t \in Seq(Table)
    BY <1>0
  <2> HIDE DEF t, i
  <2>2. \A j \in DOMAIN t : t[j] \in Table
    BY <2>1
  <2>3. \A j \in DOMAIN t : u[j] \in Table /\ u[j].name = t[j].name
    BY <2>2 DEF Table
  <2>4. DOMAIN u = DOMAIN t /\ DOMAIN t = 1..Len(t) /\ Len(t) \in Nat
    BY <2>1
  <2>5. u = [j \in 1..Len(t) |-> u[j]]
    BY <2>4
  <2>6. u \in Seq(Table)
    <3> HIDE DEF u
    <3>1. u \in [1..Len(t) -> Table]
      BY <2>3, <2>4, <2>5
    <3>2. QED
      BY <2>4, <3>1
  <2>7. NamesOf(u) = NamesOf(t)
    BY <2>3, <2>4 DEF NamesOf
  <2>8. QED
    BY <2>6, <2>7 DEF t
<1>2. obj \in Table /\ obj.name = n
  BY NewTableType
<1> HIDE DEF old, i, obj
<1>3. /\ new.tables = Append(old, obj) /\ new.names = Append(st.names, n)
      /\ new \in States
  <2>1. /\ Append(old, obj) \in Seq(Table)
        /\ Append(st.names, n) \in Seq(Names)
    BY <1>0, <1>1, <1>2
  <2> DEFINE x == Append(old, obj)
             y == Append(st.names, n)
  <2>2. new = [st EXCEPT !.tables = x, !.names = y]
    OBVIOUS
  <2> HIDE DEF x, y
  <2>3. [st EXCEPT !.tables = x, !.names = y] \in States
    BY <2>1 DEF States, x, y
  <2>4. /\ [st EXCEPT !.tables = x, !.names = y].tables = x
        /\ [st EXCEPT !.tables = x, !.names = y].names = y
    BY DEF States
  <2>5. QED
    BY <2>2, <2>3, <2>4 DEF x, y
<1>4. /\ NamesOf(new.tables) = NamesOf(st.tables) \cup {n}
      /\ ToSet(new.names) = ToSet(st.names) \cup {n}
  BY <1>0, <1>1, <1>2, <1>3, NamesOfAppend, ToSetAppend
<1>5. CASE Compare(st, n) = new /\ n \in NamesOf(st.tables)
  BY <1>3, <1>4, <1>5
<1>6. CASE \/ Compare(st, n) = st \/ Compare(st, n) = [st EXCEPT !.fault = "freed"]
           \/ Compare(st, n) = [st EXCEPT !.fault = "null"]
  <2>1. /\ Compare(st, n) \in States
        /\ Compare(st, n).tables = st.tables /\ Compare(st, n).names = st.names
    BY <1>0, <1>6 DEF States
  <2>2. QED
    BY <2>1
<1>7. i # 0 => n \in NamesOf(st.tables)
  <2> DEFINE here == {k \in DOMAIN st.tables : st.tables[k].name = n /\ ~st.tables[k].freed}
  <2>1. here # {} => n \in NamesOf(st.tables)
    BY DEF NamesOf
  <2>2. here = {} => i = 0
    BY DEF FirstIn, i
  <2>3. QED
    BY <2>1, <2>2
<1>8. QED
  BY <1>5, <1>6, <1>7 DEF Compare, old, i, obj

(* Through the whole comparison the names and the objects stay in step, and *)
(* none of them is forgotten.                                              *)
LEMMA ComparedType ==
  ASSUME TypeOK
  PROVE  /\ Compared \in States
         /\ NamesOf(Compared.tables) = ToSet(Compared.names) \ Views
         /\ Cached \subseteq NamesOf(Compared.tables)
<1> DEFINE n == Len(disk)
           v0 == [tables |-> tables, names |-> names, fault |-> "none"]
           G == [i \in 1..n |-> [q \in States |-> Compare(q, disk[i].name)]]
           After(f) == f = [i \in 0..n |->
                         IF i = 0 THEN v0 ELSE Compare(f[i - 1], disk[i].name)]
           k == CHOOSE f : After(f)
           InStep(st) == /\ st \in States
                         /\ NamesOf(st.tables) = ToSet(st.names) \ Views
                         /\ Cached \subseteq NamesOf(st.tables)
<1>1. n \in Nat /\ \A i \in 1..n : disk[i].name \in Names
  BY RowOnDisk DEF TypeOK
<1>2. InStep(v0)
  BY DEF TypeOK, States, Cached, Listed, ToSet
<1>3. ASSUME NEW i \in 1..n, NEW q \in States
      PROVE  Compare(q, disk[i].name) \in States /\ (InStep(q) => InStep(Compare(q, disk[i].name)))
  BY <1>1, CompareType DEF TypeOK
<1>4. PICK f \in [0..n -> States] :
        f[0] = v0 /\ \A i \in 1..n : f[i] = Compare(f[i - 1], disk[i].name)
  <2>1. G \in [1..n -> [States -> States]]
    BY <1>3
  <2>2. v0 \in States
    BY <1>2
  <2>3. \E f : Unfolds(f, n, States, v0, G)
    <3> HIDE DEF n, v0, G
    <3>1. QED
      BY <1>1, <2>1, <2>2, Recursion
  <2>4. \A f \in [0..n -> States] : \A i \in 1..n :
          f[i - 1] \in States /\ G[i][f[i - 1]] = Compare(f[i - 1], disk[i].name)
    BY <1>1
  <2>5. QED
    <3> HIDE DEF n, v0, G
    <3>1. QED
      BY <2>3, <2>4 DEF Unfolds
<1>5. After(f)
  <2> HIDE DEF v0, n
  <2>1. \A i \in 0..n : f[i] = IF i = 0 THEN v0 ELSE Compare(f[i - 1], disk[i].name)
    BY <1>1, <1>4
  <2>2. QED
    BY <1>4, <2>1
<1>6. After(k)
  BY <1>5
<1>7. Compared = k[n]
  BY DEF Compared
<1> HIDE DEF k
<1>8. k[0] = v0 /\ \A i \in 1..n : k[i] = Compare(k[i - 1], disk[i].name)
  <2> HIDE DEF v0, n
  <2>1. 0 \in 0..n /\ \A i \in 1..n : i \in 0..n /\ i # 0
    BY <1>1
  <2>2. \A i \in 0..n : k[i] = IF i = 0 THEN v0 ELSE Compare(k[i - 1], disk[i].name)
    BY <1>6, Zenon
  <2>3. QED
    BY <2>1, <2>2, Zenon
<1>9. InStep(k[n])
  <2> DEFINE U == {i \in 0..n : InStep(k[i])}
  <2> HIDE DEF v0, n, InStep
  <2>1. 0 \in U
    BY <1>1, <1>2, <1>8
  <2>2. ASSUME NEW i \in 1..n, i - 1 \in U
        PROVE  i \in U
    <3>1. InStep(k[i - 1]) /\ k[i - 1] \in States
      BY <2>2 DEF InStep
    <3>2. InStep(Compare(k[i - 1], disk[i].name))
      BY <1>3, <3>1
    <3>3. i \in 0..n /\ k[i] = Compare(k[i - 1], disk[i].name)
      BY <1>1, <1>8
    <3>4. QED
      BY <3>2, <3>3
  <2>3. \A i \in 1..n : i - 1 \in U => i \in U
    BY <2>2
  <2>4. 0..n \subseteq U
    <3> HIDE DEF U
    <3>1. QED
      BY <1>1, <2>1, <2>3, UpTo
  <2>5. QED
    BY <1>1, <2>4
<1>10. QED
  BY <1>7, <1>9

-----------------------------------------------------------------------------
(* Types, and what is always there. *)

(* The system tables are on disk once Connect() has created them, and known *)
(* once it has listed the tables: m_tableNames is never empty after that.  *)
SystemInv ==
  /\ conn # "closed" => Sys \in OnDisk
  /\ conn \in {"listed", "connected"} => Sys \in Listed

CacheOK ==
  /\ tables \in Seq(Table) /\ names \in Seq(Names)
  /\ Cached = Listed \ Views

(* What a row of sqlite_master is replaced by leaves the others as they are. *)
LEMMA RowReplaced ==
  ASSUME disk \in Seq(Row), NEW i \in DOMAIN disk, NEW r \in Row
  PROVE  /\ [disk EXCEPT ![i] = r] \in Seq(Row)
         /\ OnDisk \ {disk[i].name} \subseteq NamesOf([disk EXCEPT ![i] = r])
<1> DEFINE u == [disk EXCEPT ![i] = r]
<1>1. DOMAIN u = DOMAIN disk /\ \A j \in DOMAIN disk : j # i => u[j] = disk[j]
  OBVIOUS
<1>2. u \in Seq(Row)
  OBVIOUS
<1>3. ASSUME NEW n \in OnDisk, n # disk[i].name
      PROVE  n \in NamesOf(u)
  <2>1. PICK j \in DOMAIN disk : disk[j].name = n
    BY DEF OnDisk, NamesOf
  <2>2. u[j].name = n
    BY <1>1, <1>3, <2>1
  <2> HIDE DEF u
  <2>3. QED
    BY <1>1, <2>2 DEF NamesOf
<1>4. QED
  BY <1>2, <1>3

LEMMA OtherProgramsType ==
  ASSUME TypeOK, OtherPrograms
  PROVE  disk' \in Seq(Row) /\ (Sys \in OnDisk => Sys \in OnDisk')
<1>0. disk \in Seq(Row) /\ Sys \notin Tables /\ Tables \subseteq Names
  BY CatalogAssumption DEF TypeOK, Names
<1>1. ASSUME NEW n \in Tables, CreateTable(n)
      PROVE  disk' \in Seq(Row) /\ OnDisk \subseteq OnDisk'
  <2>1. PICK s \in 1..Shapes : disk' = Append(disk, [name |-> n, shape |-> s])
    BY <1>1 DEF CreateTable
  <2>2. [name |-> n, shape |-> s] \in Row
    BY <1>0 DEF Row
  <2>3. Append(disk, [name |-> n, shape |-> s]) \in Seq(Row)
    BY <1>0, <2>2
  <2>4. NamesOf(disk') = NamesOf(disk) \cup {n}
    BY <1>0, <2>1, <2>2, NamesOfAppend
  <2>5. QED
    BY <2>1, <2>3, <2>4 DEF OnDisk, NamesOf
<1>2. ASSUME NEW n \in Tables, DropTable(n)
      PROVE  disk' \in Seq(Row) /\ OnDisk \ {n} \subseteq OnDisk'
  <2>1. disk' = Without(disk, n)
    BY <1>2 DEF DropTable
  <2>2. Without(disk, n) \in Seq(Row) /\ NamesOf(Without(disk, n)) = NamesOf(disk) \ {n}
    BY <1>0, WithoutProperties
  <2>3. NamesOf(disk') = NamesOf(disk) \ {n}
    BY <2>1, <2>2
  <2>4. QED
    BY <2>1, <2>2, <2>3 DEF OnDisk, NamesOf
<1>3. ASSUME NEW n \in Tables,
             \/ AlterTable(n)
             \/ \E m \in Tables : RenameTable(n, m)
      PROVE  disk' \in Seq(Row) /\ OnDisk \ {n} \subseteq OnDisk'
  <2>1. PICK i \in DOMAIN disk, r \in Row :
          disk[i].name = n /\ disk' = [disk EXCEPT ![i] = r]
    <3>1. CASE AlterTable(n)
      <4>1. PICK i \in DOMAIN disk, s \in 1..Shapes :
              disk[i].name = n /\ disk' = [disk EXCEPT ![i].shape = s]
        BY <3>1 DEF AlterTable
      <4>2. disk[i] \in Row
        BY <1>0
      <4>3. [disk[i] EXCEPT !.shape = s] \in Row
        BY <4>2 DEF Row
      <4>4. disk' = [disk EXCEPT ![i] = [disk[i] EXCEPT !.shape = s]]
        BY <4>1
      <4>5. QED
        BY <4>1, <4>3, <4>4
    <3>2. ASSUME NEW m \in Tables, RenameTable(n, m)
          PROVE  \E i \in DOMAIN disk, r \in Row :
                   disk[i].name = n /\ disk' = [disk EXCEPT ![i] = r]
      <4>1. PICK i \in DOMAIN disk :
              disk[i].name = n /\ disk' = [disk EXCEPT ![i].name = m]
        BY <3>2 DEF RenameTable
      <4>2. disk[i] \in Row /\ m \in Names
        BY <1>0
      <4>3. [disk[i] EXCEPT !.name = m] \in Row
        BY <4>2 DEF Row
      <4>4. disk' = [disk EXCEPT ![i] = [disk[i] EXCEPT !.name = m]]
        BY <4>1
      <4>5. QED
        BY <4>1, <4>3, <4>4
    <3>3. QED
      BY <1>3, <3>1, <3>2
  <2>2. /\ [disk EXCEPT ![i] = r] \in Seq(Row)
        /\ NamesOf(disk) \ {n} \subseteq NamesOf([disk EXCEPT ![i] = r])
    BY <1>0, <2>1, RowReplaced DEF OnDisk
  <2>3. NamesOf(disk) \ {n} \subseteq NamesOf(disk')
    BY <2>1, <2>2
  <2>4. QED
    BY <2>1, <2>2, <2>3 DEF OnDisk, NamesOf
<1>4. QED
  BY <1>0, <1>1, <1>2, <1>3 DEF OtherPrograms

(* What is known is on disk or was: a poll that drops a table drops one     *)
(* that is gone, and one that compares deletes objects but no names.       *)
LEMMA CacheStep ==
  ASSUME TypeOK, SystemInv, Connect \/ NewTableCreation
  PROVE  /\ CacheOK' /\ fault' \in {"none", "null", "freed", "range"}
         /\ OnDisk \cap Cached \subseteq Cached'
         /\ (Listed \ Views) \cap OnDisk \subseteq Listed'
<1> USE DEF CacheOK
<1>1. CASE CreateSystemTables \/ GetTableListFails \/ ReadSchemaVersion
  BY <1>1 DEF TypeOK, CreateSystemTables, GetTableListFails, ReadSchemaVersion,
     cacheVars, Listed, Cached, NamesOf
<1>2. ASSUME NEW ns \in Seq(Names), AddTables(ns), fault' = fault
      PROVE  /\ CacheOK' /\ fault' \in {"none", "null", "freed", "range"}
             /\ Cached \subseteq Cached' /\ Listed \subseteq Listed'
  BY <1>2, AddTablesType DEF TypeOK
<1>3. CASE GetTableListFromDb
  <2>1. DiskOrder \in Seq(Names)
    BY DiskOrderType DEF TypeOK
  <2>2. QED
    BY <1>2, <1>3, <2>1 DEF GetTableListFromDb
<1>4. CASE PollAdds
  <2>1. DiskOrder \in Seq(Names)
    BY DiskOrderType DEF TypeOK
  <2>2. Omit(DiskOrder, Listed) \in Seq(Names)
    BY <2>1, OmitProperties
  <2>3. QED
    BY <1>2, <1>4, <2>2 DEF PollAdds
<1>5. CASE PollDrops
  <2>1. Missing \in Seq(Names) /\ ToSet(Missing) = ToSet(names) \ OnDisk
    BY OmitProperties DEF TypeOK, Missing
  <2>2. Head(Missing) \in ToSet(Missing)
    <3>1. Missing # <<>>
      BY <1>5 DEF PollDrops
    <3>2. 1 \in DOMAIN Missing /\ Head(Missing) = Missing[1]
      BY <2>1, <3>1
    <3>3. QED
      BY <3>2 DEF ToSet
  <2>3. Head(Missing) \notin OnDisk
    BY <2>1, <2>2
  <2>4. DropFromMemory(Head(Missing)) /\ fault' = fault
    BY <1>5 DEF PollDrops
  <2>5. QED
    BY <2>3, <2>4, DropType DEF TypeOK
<1>6. CASE PollCompares
  <2>1. /\ Compared \in States
        /\ NamesOf(Compared.tables) = ToSet(Compared.names) \ Views
        /\ Cached \subseteq NamesOf(Compared.tables)
    BY ComparedType
  <2>2. Compared.tables \in Seq(Table) /\ Compared.names \in Seq(Names)
    BY <2>1 DEF States
  <2> DEFINE n == Head(names)
  <2>3. n \in Names
    <3>1. Sys \in Listed
      BY <1>6 DEF PollCompares, Polls, SystemInv
    <3>2. names # <<>>
      BY <3>1 DEF Listed
    <3>3. QED
      BY <3>2 DEF TypeOK
  <2>4. Objects(<<n>>) \in Seq(Table) /\ NamesOf(Objects(<<n>>)) = {n} \ Views
    <3>1. <<n>> \in Seq(Names) /\ ToSet(<<n>>) = {n}
      BY <2>3 DEF ToSet
    <3>2. QED
      BY <3>1, ObjectsType DEF TypeOK
  <2> DEFINE new == Objects(<<n>>)
  <2>5. /\ tables' = Compared.tables \o new
        /\ names' = Append(Compared.names, n) /\ fault' = fault
    BY <1>6 DEF PollCompares
  <2> HIDE DEF n, new
  <2>6. tables' \in Seq(Table) /\ names' \in Seq(Names)
    BY <2>2, <2>3, <2>4, <2>5 DEF new
  <2>7. NamesOf(tables') = NamesOf(Compared.tables) \cup ({n} \ Views)
    <3>1. NamesOf(Compared.tables \o new) = NamesOf(Compared.tables) \cup NamesOf(new)
      BY <2>2, <2>4, NamesOfConcat DEF new
    <3>2. QED
      BY <2>4, <2>5, <3>1 DEF new
  <2>8. ToSet(names') = ToSet(Compared.names) \cup {n}
    <3>1. ToSet(Append(Compared.names, n)) = ToSet(Compared.names) \cup {n}
      BY <2>2, <2>3, ToSetAppend
    <3>2. QED
      BY <2>5, <3>1
  <2>9. Cached' = NamesOf(tables') /\ Listed' = ToSet(names')
    BY DEF Cached, Listed, NamesOf, ToSet
  <2>10. Cached' = Listed' \ Views /\ Cached \subseteq Cached'
    BY <2>1, <2>7, <2>8, <2>9
  <2>11. QED
    BY <2>5, <2>6, <2>10 DEF TypeOK
<1>7. CASE PollDropsNothing \/ PollComparesFaults
  <2>1. Compared.fault \in {"none", "null", "freed", "range"}
    BY ComparedType DEF States
  <2>2. cacheVars' = cacheVars /\ fault' \in {"none", "null", "freed", "range"}
    BY <1>7, <2>1 DEF PollDropsNothing, PollComparesFaults, cacheVars
  <2>3. QED
    BY <2>2 DEF TypeOK, cacheVars, Listed, Cached, NamesOf
<1>8. QED
  BY <1>1, <1>3, <1>4, <1>5, <1>6, <1>7 DEF Connect, NewTableCreation

LEMMA CreateSystemTablesType ==
  ASSUME TypeOK, CreateSystemTables
  PROVE  disk' \in Seq(Row) /\ version' \in Nat /\ Sys \in OnDisk'
<1>1. CASE Sys \in OnDisk /\ UNCHANGED <<disk, version>>
  BY <1>1 DEF TypeOK, OnDisk, NamesOf
<1>2. CASE /\ Sys \notin OnDisk
           /\ disk' = Append(disk, [name |-> Sys, shape |-> 1])
           /\ version' = version + 1
  <2>1. [name |-> Sys, shape |-> 1] \in Row
    BY CatalogAssumption DEF Row, Names
  <2>2. NamesOf(disk') = NamesOf(disk) \cup {Sys}
    BY <1>2, <2>1, NamesOfAppend DEF TypeOK
  <2>3. Append(disk, [name |-> Sys, shape |-> 1]) \in Seq(Row)
    BY <2>1 DEF TypeOK
  <2>4. QED
    BY <1>2, <2>2, <2>3 DEF TypeOK, OnDisk, NamesOf
<1>3. QED
  BY <1>1, <1>2 DEF CreateSystemTables

LEMMA TypeInit == Init => TypeOK /\ SystemInv
<1> SUFFICES ASSUME Init PROVE TypeOK /\ SystemInv
  OBVIOUS
<1>1. disk \in Seq(Row)
  <2>1. [name |-> Sys, shape |-> 1] \in Row
    BY CatalogAssumption DEF Row, Names
  <2>2. <<[name |-> Sys, shape |-> 1]>> \in Seq(Row) /\ <<>> \in Seq(Row)
    BY <2>1
  <2>3. disk = <<>> \/ disk = <<[name |-> Sys, shape |-> 1]>>
    BY DEF Init
  <2>4. QED
    BY <2>2, <2>3
<1>2. tables = <<>> /\ names = <<>>
  BY DEF Init
<1>3. tables \in Seq(Table) /\ names \in Seq(Names) /\ Listed = {} /\ Cached = {}
  BY <1>2 DEF Listed, Cached, NamesOf
<1>4. QED
  BY <1>1, <1>3 DEF Init, TypeOK, SystemInv

LEMMA TypeStep == TypeOK /\ SystemInv /\ [Next]_vars => TypeOK' /\ SystemInv'
<1> SUFFICES ASSUME TypeOK, SystemInv, [Next]_vars
             PROVE  TypeOK' /\ SystemInv'
  OBVIOUS
<1>1. CASE Connect
  <2>1. CacheOK' /\ fault' \in {"none", "null", "freed", "range"}
    BY <1>1, CacheStep
  <2>2. CASE CreateSystemTables
    <3>1. disk' \in Seq(Row) /\ version' \in Nat /\ Sys \in OnDisk'
      BY <2>2, CreateSystemTablesType
    <3>2. QED
      BY <2>1, <2>2, <3>1 DEF CreateSystemTables, cacheVars, TypeOK, CacheOK, SystemInv
  <2>3. CASE GetTableListFromDb
    <3>1. Listed' = Listed \cup OnDisk
      BY <2>3, DiskOrderType, AddTablesType DEF GetTableListFromDb, TypeOK
    <3>2. num' \in Nat /\ disk' = disk /\ OnDisk' = OnDisk /\ alarm' \in BOOLEAN
      BY <2>3 DEF GetTableListFromDb, AddTables, TypeOK, OnDisk, NamesOf
    <3>3. QED
      BY <2>1, <2>3, <3>1, <3>2 DEF GetTableListFromDb, TypeOK, CacheOK, SystemInv
  <2>4. CASE ReadSchemaVersion \/ GetTableListFails
    BY <2>1, <2>4 DEF ReadSchemaVersion, GetTableListFails, cacheVars, TypeOK, CacheOK,
       SystemInv, OnDisk, NamesOf, Listed
  <2>5. QED
    BY <1>1, <2>2, <2>3, <2>4 DEF Connect
<1>2. CASE NewTableCreation
  <2>1. /\ CacheOK' /\ fault' \in {"none", "null", "freed", "range"}
        /\ (Listed \ Views) \cap OnDisk \subseteq Listed'
    BY <1>2, CacheStep
  <2>2. /\ disk' = disk /\ version' = version /\ conn' = conn /\ num' = num
        /\ schema' \in {schema, version} /\ alarm' \in BOOLEAN
    BY <1>2 DEF NewTableCreation, PollAdds, PollDrops, PollDropsNothing, PollCompares,
       PollComparesFaults, AddTables, cacheVars, TypeOK
  <2>3. OnDisk' = OnDisk
    BY <2>2 DEF OnDisk, NamesOf
  <2>4. Sys \notin Views
    BY CatalogAssumption
  <2>5. QED
    BY <2>1, <2>2, <2>3, <2>4 DEF TypeOK, CacheOK, SystemInv
<1>3. CASE OtherPrograms
  <2>1. disk' \in Seq(Row) /\ (Sys \in OnDisk => Sys \in OnDisk')
    BY <1>3, OtherProgramsType
  <2>2. version' = version + 1 /\ UNCHANGED <<conn, cacheVars, alarm, fault>>
    BY <1>3 DEF OtherPrograms, CreateTable, DropTable, AlterTable, RenameTable, MayChange
  <2>3. Listed' = Listed /\ Cached' = Cached
    BY <2>2 DEF cacheVars, Listed, Cached, NamesOf
  <2>4. QED
    BY <2>1, <2>2, <2>3 DEF cacheVars, TypeOK, SystemInv
<1>4. CASE UNCHANGED vars
  BY <1>4 DEF vars, cacheVars, TypeOK, SystemInv, OnDisk, Listed, Cached, NamesOf
<1>5. QED
  BY <1>1, <1>2, <1>3, <1>4 DEF Next

(* Whatever other programs do to the file, at any time: every known name    *)
(* that is not a view's has an object and every object a known name         *)
(* (AddDropTable's two vectors stay in step through all branches of         *)
(* NewTableCreation).                                                      *)
THEOREM TypeInvariance == Spec => [](TypeOK /\ SystemInv)
<1>1. TypeOK /\ SystemInv /\ [Next]_vars => (TypeOK /\ SystemInv)'
  BY TypeStep
<1>2. QED
  BY <1>1, TypeInit, PTL DEF Spec

(* TypeOK alone: the vectors of AddDropTable hold the same names, but for    *)
(* the names of views, of which there are no objects.                      *)
THEOREM TypeCorrectness == Spec => []TypeOK
BY TypeInvariance, PTL

(* No step of Connect() or of a poll forgets a table that is on disk: what  *)
(* documents point to stays known (the vector temp holds only names that   *)
(* are gone, and the comparison only adds).                                *)
THEOREM KeepsLiveTables == Spec => LiveTableKept
<1>1. TypeOK /\ SystemInv /\ [Next]_vars =>
        [disk' = disk => OnDisk \cap Cached \subseteq Cached']_vars
  <2> SUFFICES ASSUME TypeOK, SystemInv, Next
               PROVE  OnDisk \cap Cached \subseteq Cached'
    OBVIOUS
  <2>1. CASE Connect \/ NewTableCreation
    BY <2>1, CacheStep
  <2>2. CASE OtherPrograms
    BY <2>2 DEF OtherPrograms, CreateTable, DropTable, AlterTable, RenameTable,
       MayChange, cacheVars, Cached, NamesOf
  <2>3. QED
    BY <2>1, <2>2 DEF Next
<1>2. QED
  BY <1>1, TypeInvariance, PTL DEF Spec, LiveTableKept

-----------------------------------------------------------------------------
(* Other programs only create tables, and not while Connect() is reading.   *)

OnlyCreates == Changes \subseteq {"create"} /\ ~InWindow

DistinctNames(s) == \A i, j \in DOMAIN s : s[i].name = s[j].name => i = j

(* sqlite_master has one row for a name.                                   *)
DiskInv == DistinctNames(disk)

(* Connect() starts with nothing in memory.                                *)
OpenInv ==
  conn \in {"closed", "created"} => tables = <<>> /\ names = <<>> /\ ~alarm

(* No branch of a poll but the one that adds has been taken.               *)
CalmInv == fault = "none"

NoViews == OnDisk \cap Views = {}

(* The names in memory are those of the first rows of sqlite_master; the    *)
(* objects are copies of these rows, as long as there is no view.          *)
NamesCopied ==
  /\ Len(names) <= Len(disk)
  /\ \A k \in 1..Len(names) : names[k] = disk[k].name

TablesCopied ==
  /\ ~alarm
  /\ Len(tables) = Len(names)
  /\ \A k \in 1..Len(tables) :
       tables[k] = [name |-> disk[k].name, shape |-> disk[k].shape, freed |-> FALSE]

Copied == NamesCopied /\ (NoViews => TablesCopied)

CopyInv == conn \in {"listed", "connected"} => Copied

(* The number of tables that Connect() counted is out of date exactly when  *)
(* there is something to add, and then the version is out of date too.     *)
CountInv ==
  /\ conn = "listed" => num = Len(disk) /\ Len(names) = Len(disk)
  /\ conn = "connected" =>
       /\ schema <= version
       /\ schema = version => Len(names) = Len(disk)
       /\ num < Len(disk) \/ (num = Len(disk) /\ schema = version)

CreatesInv == DiskInv /\ OpenInv /\ CalmInv /\ CopyInv /\ CountInv

(* Names stay distinct where rows are left out, added or renamed.          *)
LEMMA DistinctWithout ==
  ASSUME NEW S, NEW s \in Seq(S), NEW n, DistinctNames(s)
  PROVE  DistinctNames(Without(s, n))
<1> DEFINE T == ToSet(s) \ {r \in ToSet(s) : r.name = n}
           w == Filter(s, T)
<1>1. Without(s, n) = w
  BY DEF Without, Omit
<1> HIDE DEF T
<1>2. PICK h : Embeds(h, w, s)
  BY FilterEmbeds
<1>3. w \in Seq(S)
  BY FilterType
<1> HIDE DEF w
<1>4. ASSUME NEW i \in DOMAIN w, NEW j \in DOMAIN w, w[i].name = w[j].name
      PROVE  i = j
  <2>1. h[i] \in DOMAIN s /\ h[j] \in DOMAIN s /\ s[h[i]].name = s[h[j]].name
    BY <1>2, <1>4 DEF Embeds
  <2>2. h[i] = h[j] /\ h[i] \in Int
    BY <2>1 DEF DistinctNames
  <2>3. i \in Int /\ j \in Int
    BY <1>3
  <2>4. ~(i < j) /\ ~(j < i)
    BY <1>2, <2>2 DEF Embeds
  <2>5. QED
    BY <2>3, <2>4
<1>5. QED
  BY <1>1, <1>4 DEF DistinctNames

LEMMA DistinctAppend ==
  ASSUME NEW S, NEW s \in Seq(S), NEW r \in S, DistinctNames(s), r.name \notin NamesOf(s)
  PROVE  DistinctNames(Append(s, r))
<1> DEFINE t == Append(s, r)
           n == Len(s)
<1>1. /\ n \in Nat /\ DOMAIN s = 1..n /\ DOMAIN t = 1..n + 1
      /\ t[n + 1] = r /\ \A i \in 1..n : t[i] = s[i]
  OBVIOUS
<1> HIDE DEF t, n
<1>2. \A i \in 1..n + 1 : i \in 1..n \/ i = n + 1
  BY <1>1
<1>3. \A i \in 1..n : s[i].name # r.name
  BY <1>1 DEF NamesOf
<1>4. DistinctNames(t)
  BY <1>1, <1>2, <1>3 DEF DistinctNames
<1>5. QED
  BY <1>4 DEF t

LEMMA DiskStep ==
  ASSUME TypeOK, DiskInv, [Next]_vars
  PROVE  DiskInv'
<1>0. disk \in Seq(Row)
  BY DEF TypeOK
<1>1. ASSUME NEW n \in Names, NEW s \in 1..Shapes, n \notin OnDisk,
             disk' = Append(disk, [name |-> n, shape |-> s])
      PROVE  DiskInv'
  <2>1. [name |-> n, shape |-> s] \in Row
    BY DEF Row
  <2>2. DistinctNames(Append(disk, [name |-> n, shape |-> s]))
    BY <1>0, <1>1, <2>1, DistinctAppend DEF DiskInv, OnDisk
  <2>3. QED
    BY <1>1, <2>2 DEF DiskInv, DistinctNames
<1>2. ASSUME NEW n \in Tables, CreateTable(n)
      PROVE  DiskInv'
  BY <1>1, <1>2 DEF CreateTable, Names
<1>3. CASE CreateSystemTables
  <2>1. CASE disk' = disk
    BY <2>1 DEF DiskInv, DistinctNames
  <2>2. CASE Sys \notin OnDisk /\ disk' = Append(disk, [name |-> Sys, shape |-> 1])
    <3>1. Sys \in Names /\ 1 \in 1..Shapes
      BY CatalogAssumption DEF Names
    <3>2. QED
      BY <1>1, <2>2, <3>1
  <2>3. QED
    BY <1>3, <2>1, <2>2 DEF CreateSystemTables
<1>4. ASSUME NEW n \in Tables, DropTable(n)
      PROVE  DiskInv'
  <2>1. DistinctNames(Without(disk, n))
    BY <1>0, DistinctWithout DEF DiskInv
  <2>2. QED
    BY <1>4, <2>1 DEF DropTable, DiskInv, DistinctNames
<1>5. ASSUME NEW n \in Tables, AlterTable(n)
      PROVE  DiskInv'
  <2>1. PICK i \in DOMAIN disk, s \in 1..Shapes : disk' = [disk EXCEPT ![i].shape = s]
    BY <1>5 DEF AlterTable
  <2>2. \A j \in DOMAIN disk : disk[j] \in Row
    BY <1>0
  <2>3. DOMAIN disk' = DOMAIN disk /\ \A j \in DOMAIN disk : disk'[j].name = disk[j].name
    BY <2>1, <2>2 DEF Row
  <2>4. QED
    BY <2>3 DEF DiskInv, DistinctNames
<1>6. ASSUME NEW n \in Tables, NEW m \in Tables, RenameTable(n, m)
      PROVE  DiskInv'
  <2>1. PICK i \in DOMAIN disk : disk' = [disk EXCEPT ![i].name = m]
    BY <1>6 DEF RenameTable
  <2>2. \A j \in DOMAIN disk : disk[j] \in Row /\ disk[j].name # m
    BY <1>0, <1>6 DEF RenameTable, OnDisk, NamesOf
  <2>3. /\ DOMAIN disk' = DOMAIN disk /\ disk'[i].name = m
        /\ \A j \in DOMAIN disk : j # i => disk'[j].name = disk[j].name
    BY <2>1, <2>2 DEF Row
  <2>4. QED
    BY <2>2, <2>3 DEF DiskInv, DistinctNames
<1>7. CASE UNCHANGED disk
  BY <1>7 DEF DiskInv, DistinctNames
<1>8. CASE \/ NewTableCreation \/ GetTableListFromDb \/ GetTableListFails
           \/ ReadSchemaVersion
  BY <1>7, <1>8 DEF NewTableCreation, PollAdds, PollDrops, PollDropsNothing,
     PollCompares, PollComparesFaults, GetTableListFromDb, GetTableListFails,
     ReadSchemaVersion
<1>9. QED
  BY <1>2, <1>3, <1>4, <1>5, <1>6, <1>7, <1>8 DEF Next, Connect, OtherPrograms, vars

(* The object of a row, as long as no message keeps the fields from being   *)
(* read.                                                                   *)
LEMMA NewTableCopies ==
  ASSUME TypeOK, DiskInv, NEW k \in DOMAIN disk
  PROVE  NewTable(disk[k].name, TRUE) =
           [name |-> disk[k].name, shape |-> disk[k].shape, freed |-> FALSE]
<1> DEFINE i == CHOOSE i \in DOMAIN disk : disk[i].name = disk[k].name
<1>1. disk[k].name \in OnDisk
  BY DEF OnDisk, NamesOf
<1>2. i \in DOMAIN disk /\ disk[i].name = disk[k].name
  OBVIOUS
<1>3. ShapeOf(disk[k].name, TRUE) = disk[i].shape
  BY <1>1 DEF ShapeOf
<1> HIDE DEF i
<1>4. i = k
  BY <1>2 DEF DiskInv, DistinctNames
<1>5. QED
  BY <1>3, <1>4 DEF NewTable

(* Without views nothing is left out and nothing fails.                    *)
LEMMA ObjectsWithoutViews ==
  ASSUME ~alarm, NEW ns \in Seq(Names), ToSet(ns) \cap Views = {}
  PROVE  Objects(ns) = [i \in DOMAIN ns |-> NewTable(ns[i], TRUE)]
<1>1. Omit(ns, Views) = ns
  <2>1. ToSet(ns) \subseteq ToSet(ns) \ Views
    OBVIOUS
  <2>2. QED
    BY <2>1, FilterAll DEF Omit
<1>2. \A i \in DOMAIN ns : Quiet(ns, ns[i]) = TRUE
  <2>1. ASSUME NEW i \in DOMAIN ns
        PROVE  Quiet(ns, ns[i])
    <3>1. \A j \in 1..i : ns[j] \in ToSet(ns)
      BY DEF ToSet
    <3>2. QED
      BY <3>1 DEF Quiet
  <2>2. ASSUME NEW i \in DOMAIN ns
        PROVE  Quiet(ns, ns[i]) \in BOOLEAN
    BY DEF Quiet
  <2>3. QED
    BY <2>1, <2>2
<1>3. Objects(ns) = [i \in DOMAIN ns |-> NewTable(ns[i], Quiet(ns, ns[i]))]
  BY <1>1 DEF Objects
<1>4. QED
  BY <1>2, <1>3

(* Adding what is missing of the copy completes it: the names.              *)
LEMMA AddRestNames ==
  ASSUME TypeOK, NamesCopied, disk' = disk,
         NEW ns \in Seq(Names), AddTables(ns),
         Len(names) + Len(ns) = Len(disk),
         \A i \in 1..Len(ns) : ns[i] = disk[Len(names) + i].name
  PROVE  NamesCopied' /\ Len(names') = Len(disk)
<1> DEFINE m == Len(names)
<1>1. m \in Nat /\ Len(ns) \in Nat /\ Len(disk) = m + Len(ns) /\ names \in Seq(Names)
  BY DEF TypeOK
<1>2. names' = names \o ns
  BY DEF AddTables
<1>3. /\ Len(names \o ns) = m + Len(ns)
      /\ \A i \in 1..m : (names \o ns)[i] = names[i]
      /\ \A i \in 1..Len(ns) : (names \o ns)[m + i] = ns[i]
  BY <1>1
<1>4. \A i \in 1..m : names[i] = disk[i].name
  BY DEF NamesCopied
<1>5. \A i \in 1..Len(ns) : ns[i] = disk[m + i].name
  OBVIOUS
<1> HIDE DEF m
<1>6. ASSUME NEW k \in 1..m + Len(ns)
      PROVE  names'[k] = disk[k].name
  <2>1. CASE k \in 1..m
    BY <1>2, <1>3, <1>4, <2>1
  <2>2. CASE k \notin 1..m
    <3>1. k - m \in 1..Len(ns) /\ m + (k - m) = k
      BY <1>1, <2>2
    <3>2. QED
      BY <1>2, <1>3, <1>5, <3>1
  <2>3. QED
    BY <2>1, <2>2
<1>7. QED
  BY <1>1, <1>2, <1>3, <1>6 DEF NamesCopied

(* And the objects, as long as there is no view.                           *)
LEMMA AddRestTables ==
  ASSUME TypeOK, DiskInv, NamesCopied, NoViews, TablesCopied, disk' = disk,
         NEW ns \in Seq(Names), AddTables(ns),
         Len(names) + Len(ns) = Len(disk),
         \A i \in 1..Len(ns) : ns[i] = disk[Len(names) + i].name
  PROVE  TablesCopied'
<1> DEFINE m == Len(names)
           new == [i \in DOMAIN ns |-> NewTable(ns[i], TRUE)]
<1>1. /\ m \in Nat /\ Len(tables) = m /\ Len(ns) \in Nat /\ DOMAIN ns = 1..Len(ns)
      /\ DOMAIN disk = 1..m + Len(ns) /\ Len(disk) = m + Len(ns)
      /\ tables \in Seq(Table) /\ names \in Seq(Names)
  BY DEF TypeOK, TablesCopied
<1>2. \A i \in 1..Len(ns) : m + i \in DOMAIN disk
  BY <1>1
<1>3. ToSet(ns) \cap Views = {}
  <2>1. \A i \in 1..Len(ns) : ns[i] \in OnDisk
    BY <1>2 DEF OnDisk, NamesOf
  <2>2. QED
    BY <1>1, <2>1 DEF ToSet, NoViews
<1>4. \A i \in 1..Len(ns) :
        new[i] = [name |-> disk[m + i].name, shape |-> disk[m + i].shape, freed |-> FALSE]
  BY <1>1, <1>2, NewTableCopies
<1>5. new \in Seq(Table) /\ Len(new) = Len(ns)
  <2>1. \A i \in 1..Len(ns) : disk[m + i].name \in Names /\ disk[m + i].shape \in 1..Shapes
    BY <1>2, RowOnDisk DEF TypeOK
  <2>2. \A i \in 1..Len(ns) : new[i] \in Table
    <3> HIDE DEF new, m
    <3>1. ASSUME NEW i \in 1..Len(ns)
          PROVE  new[i] \in Table
      <4>1. disk[m + i].name \in Names /\ disk[m + i].shape \in 0..Shapes
        BY <2>1, CatalogAssumption
      <4>2. [name |-> disk[m + i].name, shape |-> disk[m + i].shape, freed |-> FALSE]
              \in Table
        BY <4>1 DEF Table
      <4>3. QED
        BY <1>4, <4>2
    <3>2. QED
      BY <3>1
  <2>3. DOMAIN new = 1..Len(ns) /\ new = [i \in 1..Len(ns) |-> new[i]]
    BY <1>1
  <2> HIDE DEF new
  <2>4. new \in [1..Len(ns) -> Table]
    BY <2>2, <2>3
  <2>5. QED
    BY <1>1, <2>4
<1>6. tables' = tables \o new /\ names' = names \o ns /\ ~alarm'
  <2>1. Objects(ns) = new
    BY <1>3, ObjectsWithoutViews DEF TablesCopied
  <2>2. QED
    BY <1>3, <2>1 DEF AddTables, TablesCopied
<1> HIDE DEF new, m
<1>7. /\ Len(tables \o new) = m + Len(ns)
      /\ \A i \in 1..m : (tables \o new)[i] = tables[i]
      /\ \A i \in 1..Len(ns) : (tables \o new)[m + i] = new[i]
  <2>1. tables \in Seq(Table) /\ new \in Seq(Table)
    BY <1>1, <1>5
  <2>2. /\ Len(tables \o new) = Len(tables) + Len(new)
        /\ \A i \in 1..Len(tables) : (tables \o new)[i] = tables[i]
        /\ \A i \in 1..Len(new) : (tables \o new)[Len(tables) + i] = new[i]
    BY <2>1, ConcatAt
  <2>3. Len(tables) = m /\ Len(new) = Len(ns)
    BY <1>1, <1>5
  <2>4. QED
    BY <2>2, <2>3
<1>8. Len(names \o ns) = m + Len(ns)
  BY <1>1 DEF m
<1>9. ASSUME NEW k \in 1..m + Len(ns)
      PROVE  tables'[k] = [name |-> disk[k].name, shape |-> disk[k].shape, freed |-> FALSE]
  <2>1. CASE k \in 1..m
    BY <1>1, <1>6, <1>7, <2>1 DEF TablesCopied
  <2>2. CASE k \notin 1..m
    <3>1. k - m \in 1..Len(ns) /\ m + (k - m) = k
      BY <1>1, <2>2
    <3>2. tables'[k] = new[k - m]
      BY <1>6, <1>7, <3>1
    <3>3. QED
      BY <1>4, <3>1, <3>2
  <2>3. QED
    BY <2>1, <2>2
<1>10. QED
  BY <1>6, <1>7, <1>8, <1>9 DEF TablesCopied

LEMMA AddRest ==
  ASSUME TypeOK, DiskInv, Copied, disk' = disk,
         NEW ns \in Seq(Names), AddTables(ns),
         Len(names) + Len(ns) = Len(disk),
         \A i \in 1..Len(ns) : ns[i] = disk[Len(names) + i].name
  PROVE  Copied' /\ Len(names') = Len(disk)
<1>1. NamesCopied' /\ Len(names') = Len(disk)
  BY AddRestNames DEF Copied
<1>2. NoViews' => NoViews
  BY DEF NoViews, OnDisk, NamesOf
<1>3. NoViews => TablesCopied'
  BY AddRestTables DEF Copied
<1>4. QED
  BY <1>1, <1>2, <1>3 DEF Copied

(* The names that are not known are those of the rows that are not copied.  *)
LEMMA NewIsRest ==
  ASSUME TypeOK, DiskInv, NamesCopied
  PROVE  LET new == Omit(DiskOrder, Listed)
         IN /\ new \in Seq(Names) /\ Len(names) + Len(new) = Len(disk)
            /\ \A i \in 1..Len(new) : new[i] = disk[Len(names) + i].name
<1> DEFINE m == Len(names)
           n == Len(disk)
           rest == SubSeq(DiskOrder, m + 1, n)
<1>1. /\ m \in Nat /\ n \in Nat /\ m <= n
      /\ DOMAIN names = 1..m /\ DOMAIN disk = 1..n
  BY DEF TypeOK, NamesCopied
<1>2. /\ DiskOrder \in Seq(Names) /\ Len(DiskOrder) = n
      /\ \A i \in 1..n : DiskOrder[i] = disk[i].name
  BY <1>1, DiskOrderType DEF TypeOK, DiskOrder
<1>3. \A i \in 1..m : names[i] = disk[i].name
  BY <1>1 DEF NamesCopied
<1> HIDE DEF m, n
<1>4. /\ rest \in Seq(Names) /\ Len(rest) = n - m
      /\ \A i \in 1..n - m : rest[i] = disk[m + i].name
  <2>1. rest \in Seq(Names) /\ Len(rest) = n - m
    BY <1>1, <1>2
  <2>2. \A i \in 1..n - m : rest[i] = DiskOrder[m + i] /\ m + i \in 1..n
    BY <1>1, <1>2
  <2>3. QED
    BY <1>2, <2>1, <2>2
<1>5. DiskOrder = names \o rest
  <2> HIDE DEF rest
  <2>1. names \o rest \in Seq(Names) /\ Len(names \o rest) = n
    BY <1>1, <1>4 DEF TypeOK, m
  <2>a. \A k \in 1..n :
          (names \o rest)[k] = IF k <= m THEN names[k] ELSE rest[k - m]
    <3>1. names \in Seq(Names) /\ Len(names) = m
      BY DEF TypeOK, m
    <3>2. rest \in Seq(Names)
      BY <1>4
    <3>3. \A k \in 1..Len(names) + Len(rest) :
            (names \o rest)[k] =
              IF k <= Len(names) THEN names[k] ELSE rest[k - Len(names)]
      BY <3>1, <3>2, ConcatProperties
    <3>4. 1..Len(names) + Len(rest) = 1..n
      BY <1>1, <1>4, <3>1
    <3>5. QED
      BY <3>1, <3>3, <3>4
  <2>2. ASSUME NEW i \in 1..n
        PROVE  DiskOrder[i] = (names \o rest)[i]
    <3>1. CASE i \in 1..m
      BY <1>1, <1>2, <1>3, <2>a, <3>1
    <3>2. CASE i \notin 1..m
      <4>1. i - m \in 1..n - m /\ m + (i - m) = i /\ ~(i <= m)
        BY <1>1, <3>2
      <4>2. (names \o rest)[i] = rest[i - m]
        BY <2>a, <4>1
      <4>3. QED
        BY <1>2, <1>4, <4>1, <4>2
    <3>3. QED
      BY <3>1, <3>2
  <2>3. QED
    BY <1>2, <2>1, <2>2, SeqEqual
<1>6. ToSet(names) = Listed
  BY DEF ToSet, Listed
<1>7. ToSet(rest) \cap Listed = {}
  <2> HIDE DEF rest
  <2>1. ASSUME NEW i \in 1..n - m, NEW k \in 1..m
        PROVE  rest[i] # names[k]
    <3>1. m + i \in 1..n /\ k \in 1..n /\ m + i # k
      BY <1>1
    <3>2. QED
      BY <1>1, <1>3, <1>4, <3>1 DEF DiskInv, DistinctNames
  <2>2. DOMAIN rest = 1..n - m
    BY <1>1, <1>4
  <2>3. QED
    BY <1>1, <2>1, <2>2 DEF ToSet, Listed
<1>8. Omit(names \o rest, Listed) = rest
  <2> HIDE DEF rest
  <2>1. names \in Seq(Names)
    BY DEF TypeOK
  <2>2. QED
    BY <1>4, <1>6, <1>7, <2>1, OmitPrefix
<1>9. Omit(DiskOrder, Listed) = rest
  BY <1>5, <1>8
<1> HIDE DEF rest
<1>10. m + Len(rest) = n
  BY <1>1, <1>4
<1>11. QED
  BY <1>4, <1>9, <1>10 DEF m, n

LEMMA CreatesInit == Init => CreatesInv
<1> SUFFICES ASSUME Init PROVE CreatesInv
  OBVIOUS
<1>1. DistinctNames(disk)
  BY DEF Init, DistinctNames
<1>2. QED
  BY <1>1 DEF Init, CreatesInv, DiskInv, OpenInv, CalmInv, CopyInv, CountInv

(* Connect(): nothing comes between its three steps.                       *)
LEMMA ConnectCreates ==
  ASSUME TypeOK, CreatesInv, Connect
  PROVE  OpenInv' /\ CalmInv' /\ CopyInv' /\ CountInv'
<1> USE DEF CreatesInv, OpenInv, CalmInv
<1>1. CASE CreateSystemTables
  BY <1>1 DEF CreateSystemTables, cacheVars, CopyInv, CountInv
<1>2. CASE GetTableListFromDb
  <2>1. /\ tables = <<>> /\ names = <<>> /\ AddTables(DiskOrder) /\ disk' = disk
        /\ ~alarm /\ conn' = "listed" /\ num' = Len(disk) /\ fault' = fault
    BY <1>2 DEF GetTableListFromDb
  <2>2. Len(tables) = 0 /\ Len(names) = 0
    BY <2>1
  <2>3. /\ DiskOrder \in Seq(Names) /\ Len(DiskOrder) = Len(disk) /\ Len(disk) \in Nat
        /\ \A i \in 1..Len(disk) : DiskOrder[i] = disk[i].name
    BY DiskOrderType DEF TypeOK, DiskOrder
  <2>4. Copied
    BY <2>1, <2>2, <2>3 DEF Copied, NamesCopied, TablesCopied
  <2>5. /\ Len(names) + Len(DiskOrder) = Len(disk)
        /\ \A i \in 1..Len(DiskOrder) : DiskOrder[i] = disk[Len(names) + i].name
    <3>1. \A i \in 1..Len(disk) : 0 + i = i
      OBVIOUS
    <3>2. QED
      BY <2>2, <2>3, <3>1
  <2>6. Copied' /\ Len(names') = Len(disk)
    BY <2>1, <2>3, <2>4, <2>5, AddRest
  <2>7. QED
    BY <2>1, <2>6 DEF CopyInv, CountInv
<1>3. CASE ReadSchemaVersion
  BY <1>3 DEF ReadSchemaVersion, CopyInv, Copied, NamesCopied, TablesCopied, NoViews,
     OnDisk, NamesOf, CountInv, TypeOK
<1>4. CASE GetTableListFails
  BY <1>4 DEF GetTableListFails, CopyInv, CountInv
<1>5. QED
  BY <1>1, <1>2, <1>3, <1>4 DEF Connect

(* A poll adds, and by the counts it can do nothing else.                  *)
LEMMA PollCreates ==
  ASSUME TypeOK, CreatesInv, NewTableCreation
  PROVE  OpenInv' /\ CalmInv' /\ CopyInv' /\ CountInv'
<1>1. conn = "connected" /\ schema # version /\ num < Len(disk)
  BY DEF NewTableCreation, PollAdds, PollDrops, PollDropsNothing, PollCompares,
     PollComparesFaults, Polls, CreatesInv, CountInv
<1>2. Len(disk) \in Nat /\ num \in Nat
  BY DEF TypeOK
<1>3. PollAdds
  BY <1>1, <1>2 DEF NewTableCreation, PollDrops, PollDropsNothing, PollCompares,
     PollComparesFaults
<1> DEFINE new == Omit(DiskOrder, Listed)
<1>4. /\ new \in Seq(Names) /\ Len(names) + Len(new) = Len(disk)
      /\ \A i \in 1..Len(new) : new[i] = disk[Len(names) + i].name
  BY <1>1, NewIsRest DEF CreatesInv, CopyInv, Copied
<1>5. /\ AddTables(new) /\ schema' = IF new = <<>> THEN schema ELSE version
      /\ UNCHANGED <<disk, version, conn, num, fault>>
  BY <1>3 DEF PollAdds
<1> HIDE DEF new
<1>6. Copied' /\ Len(names') = Len(disk)
  BY <1>1, <1>4, <1>5, AddRest DEF CreatesInv, CopyInv
<1>7. CountInv'
  <2>1. schema' <= version
    BY <1>1, <1>5 DEF CreatesInv, CountInv, TypeOK
  <2>2. QED
    BY <1>1, <1>2, <1>5, <1>6, <2>1 DEF CountInv
<1>8. QED
  BY <1>1, <1>5, <1>6, <1>7 DEF CreatesInv, OpenInv, CalmInv, CopyInv

(* Another program creates a table behind those that are there.            *)
LEMMA OthersCreate ==
  ASSUME OnlyCreates, TypeOK, CreatesInv, OtherPrograms
  PROVE  OpenInv' /\ CalmInv' /\ CopyInv' /\ CountInv'
<1>1. /\ version' = version + 1 /\ UNCHANGED <<conn, cacheVars, alarm, fault>>
      /\ conn \in {"closed", "connected"}
  BY DEF OtherPrograms, CreateTable, DropTable, AlterTable, RenameTable, MayChange,
     OnlyCreates
<1>2. OpenInv' /\ CalmInv'
  BY <1>1 DEF CreatesInv, OpenInv, CalmInv, cacheVars
<1>3. CASE conn = "closed"
  BY <1>1, <1>2, <1>3 DEF CopyInv, CountInv
<1>4. CASE conn = "connected"
  <2>1. PICK r \in Row : disk' = Append(disk, r)
    <3>1. PICK n \in Tables, s \in 1..Shapes :
            disk' = Append(disk, [name |-> n, shape |-> s])
      BY <1>4 DEF OtherPrograms, CreateTable, DropTable, AlterTable, RenameTable,
         MayChange, OnlyCreates
    <3>2. [name |-> n, shape |-> s] \in Row
      BY DEF Row, Names
    <3>3. QED
      BY <3>1, <3>2
  <2>2. /\ Len(disk) \in Nat /\ Len(disk') = Len(disk) + 1
        /\ \A k \in 1..Len(disk) : disk'[k] = disk[k]
    BY <2>1 DEF TypeOK
  <2>3. Copied /\ Len(names) \in Nat
    BY <1>4 DEF TypeOK, CreatesInv, CopyInv
  <2>4. NamesCopied'
    BY <1>1, <2>2, <2>3 DEF Copied, NamesCopied, cacheVars
  <2>5. NoViews' => NoViews
    <3>1. OnDisk' = OnDisk \cup {r.name}
      <4>1. NamesOf(disk') = NamesOf(disk) \cup {r.name}
        BY <2>1, NamesOfAppend DEF TypeOK
      <4>2. QED
        BY <4>1 DEF OnDisk, NamesOf
    <3>2. QED
      BY <3>1 DEF NoViews
  <2>6. TablesCopied => TablesCopied'
    <3>1. ASSUME TablesCopied
          PROVE  \A k \in 1..Len(tables) : disk'[k] = disk[k]
      BY <2>2, <2>3, <3>1 DEF TablesCopied, Copied, NamesCopied
    <3>2. QED
      BY <1>1, <3>1 DEF TablesCopied, cacheVars
  <2>7. CountInv'
    BY <1>1, <1>4, <2>2 DEF CreatesInv, CountInv, cacheVars, TypeOK
  <2>8. QED
    BY <1>2, <2>3, <2>4, <2>5, <2>6, <2>7 DEF CopyInv, Copied
<1>5. QED
  BY <1>1, <1>2, <1>3, <1>4

LEMMA CreatesStep ==
  OnlyCreates /\ TypeOK /\ CreatesInv /\ [Next]_vars => CreatesInv'
<1> SUFFICES ASSUME OnlyCreates, TypeOK, CreatesInv, [Next]_vars
             PROVE  CreatesInv'
  OBVIOUS
<1>1. DiskInv'
  BY DiskStep DEF CreatesInv
<1>2. CASE UNCHANGED vars
  BY <1>1, <1>2 DEF vars, cacheVars, CreatesInv, OpenInv, CalmInv, CopyInv, Copied,
     NamesCopied, TablesCopied, NoViews, OnDisk, NamesOf, CountInv
<1>3. QED
  BY <1>1, <1>2, ConnectCreates, PollCreates, OthersCreate DEF Next, CreatesInv

(* While other programs only create tables and views, the names in memory   *)
(* are those of the first rows of sqlite_master, m_numOfTables or m_schema  *)
(* tells when that is not all of them (NewTableCreation), and as long as    *)
(* there is no view the objects are copies of these rows (AddDropTable).    *)
THEOREM CreatesInvariance == OnlyCreates => (Spec => []CreatesInv)
<1> SUFFICES ASSUME OnlyCreates PROVE Spec => []CreatesInv
  OBVIOUS
<1>1. TypeOK /\ CreatesInv /\ [Next]_vars => CreatesInv'
  BY CreatesStep
<1>2. QED
  BY <1>1, CreatesInit, TypeCorrectness, PTL DEF Spec

(* While other programs only create, and as long as there is no view, a     *)
(* catalog that is up to date shows every table once and with its fields,   *)
(* however many came between two polls and however often the count of       *)
(* Connect() is out of date (AddDropTable, NewTableCreation).               *)
THEOREM ExactCatalog == OnlyCreates => (Spec => []CatalogExact)
<1> SUFFICES ASSUME OnlyCreates PROVE Spec => []CatalogExact
  OBVIOUS
<1>1. TypeOK /\ CreatesInv => CatalogExact
  <2> SUFFICES ASSUME TypeOK, CreatesInv, conn = "connected", schema = version,
                      NoViews, NEW i \in DOMAIN disk
               PROVE  \E k \in DOMAIN tables :
                        /\ tables[k] = [name |-> disk[i].name, shape |-> disk[i].shape,
                                        freed |-> FALSE]
                        /\ \A j \in DOMAIN tables : tables[j].name = disk[i].name => j = k
    BY DEF CatalogExact, NoViews
  <2>1. TablesCopied /\ Len(tables) = Len(disk)
    BY DEF CreatesInv, CopyInv, CountInv, Copied, TablesCopied
  <2>2. DOMAIN tables = 1..Len(tables) /\ DOMAIN disk = 1..Len(tables)
    BY <2>1 DEF TypeOK
  <2>3. \A j \in DOMAIN tables : tables[j].name = disk[j].name
    BY <2>1, <2>2 DEF TablesCopied
  <2>4. tables[i] = [name |-> disk[i].name, shape |-> disk[i].shape, freed |-> FALSE]
    BY <2>1, <2>2 DEF TablesCopied
  <2>5. QED
    BY <2>2, <2>3, <2>4 DEF CreatesInv, DiskInv, DistinctNames
<1>2. QED
  BY <1>1, TypeCorrectness, CreatesInvariance, PTL

(* Nor does any poll crash, views or not: none takes the branches that look up names or    *)
(* dereference what they did not find (database_sqlite.cpp:1584, 1607).      *)
THEOREM SurvivingPolls == OnlyCreates => (Spec => []PollSurvives)
<1> SUFFICES ASSUME OnlyCreates PROVE Spec => []PollSurvives
  OBVIOUS
<1>1. CreatesInv => PollSurvives
  BY DEF CreatesInv, CalmInv, PollSurvives
<1>2. QED
  BY <1>1, CreatesInvariance, PTL

=============================================================================
