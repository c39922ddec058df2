-------------------------- MODULE QueryWindowProofs --------------------------
(***************************************************************************)
(* The invariants of QueryWindow, for any tables and columns: the diagram, *)
(* the query and the list to sort by; the two lists of the page and of the *)
(* document, and the text.                                                 *)
(***************************************************************************)
EXTENDS QueryWindow, SequenceLemmas, FiniteSetTheorems

ColumnNames == UNION {ToSet(Columns[t]) : t \in Tables}
Item == [name : Fields, data : Nat]

-----------------------------------------------------------------------------
(* The columns of tables. *)

ColumnsOf(t) == [j \in DOMAIN Columns[t] |-> <<t, Columns[t][j]>>]

LEMMA ColumnsOfTable ==
  ASSUME NEW t \in Tables
  PROVE  /\ ColumnsOf(t) \in Seq(Fields)
         /\ ToSet(ColumnsOf(t)) = {<<t, c>> : c \in ToSet(Columns[t])}
         /\ IsInjective(ColumnsOf(t))
<1> DEFINE n == Len(Columns[t])
<1>1. n \in Nat /\ DOMAIN Columns[t] = 1..n
  BY ColumnsAssumption
<1>2. \A j \in 1..n : <<t, Columns[t][j]>> \in Fields
  BY <1>1 DEF Fields, ToSet
<1>3. ColumnsOf(t) = [j \in 1..n |-> <<t, Columns[t][j]>>]
  BY <1>1 DEF ColumnsOf
<1>4. ColumnsOf(t) \in Seq(Fields)
  <2> HIDE DEF n
  <2>1. [j \in 1..n |-> <<t, Columns[t][j]>>] \in Seq(Fields)
    BY <1>1, <1>2
  <2>2. QED
    BY <1>3, <2>1
<1>5. ToSet(ColumnsOf(t)) = {<<t, c>> : c \in ToSet(Columns[t])}
  BY DEF ColumnsOf, ToSet
<1>6. IsInjective(ColumnsOf(t))
  <2>1. ASSUME NEW a \in DOMAIN Columns[t], NEW b \in DOMAIN Columns[t],
               <<t, Columns[t][a]>> = <<t, Columns[t][b]>>
        PROVE  a = b
    BY <2>1, ColumnsAssumption DEF IsInjective
  <2>2. QED
    BY <2>1 DEF ColumnsOf, IsInjective
<1>7. QED
  BY <1>4, <1>5, <1>6

LEMMA FieldsOfEmpty == FieldsOf(<<>>) = <<>>
BY FlattenEmpty DEF FieldsOf

LEMMA FieldsOfAppend ==
  ASSUME NEW ts \in Seq(Tables), NEW t \in Tables
  PROVE  /\ FieldsOf(ts) \in Seq(Fields)
         /\ FieldsOf(Append(ts, t)) = FieldsOf(ts) \o ColumnsOf(t)
<1> DEFINE g == [u \in Tables |-> ColumnsOf(u)]
<1>1. Maps(g, Tables, Seq(Fields))
  BY ColumnsOfTable DEF Maps
<1>2. ASSUME NEW us \in Seq(Tables)
      PROVE  FieldsOf(us) = FlattenSeq(Mapped(us, g))
  <2>1. \A i \in DOMAIN us : g[us[i]] = ColumnsOf(us[i])
    OBVIOUS
  <2>2. Mapped(us, g) = [i \in DOMAIN us |-> ColumnsOf(us[i])]
    <3> HIDE DEF g
    <3>1. QED
      BY <2>1 DEF Mapped
  <2>3. FieldsOf(us) = FlattenSeq([i \in DOMAIN us |-> ColumnsOf(us[i])])
    BY DEF FieldsOf, ColumnsOf
  <2>4. QED
    BY <2>2, <2>3
<1>3. g[t] = ColumnsOf(t)
  OBVIOUS
<1> HIDE DEF g
<1>4. Mapped(ts, g) \in Seq(Seq(Fields))
  BY <1>1, MappedType
<1>5. Mapped(Append(ts, t), g) = Append(Mapped(ts, g), ColumnsOf(t))
  BY <1>1, <1>3, MappedAppend
<1>6. ColumnsOf(t) \in Seq(Fields)
  BY ColumnsOfTable
<1>7. /\ FlattenSeq(Mapped(ts, g)) \in Seq(Fields)
      /\ FlattenSeq(Append(Mapped(ts, g), ColumnsOf(t))) =
           FlattenSeq(Mapped(ts, g)) \o ColumnsOf(t)
  BY <1>4, <1>6, FlattenAppend
<1>8. Append(ts, t) \in Seq(Tables)
  OBVIOUS
<1>9. QED
  BY <1>2, <1>5, <1>7, <1>8

(* The columns of tables that are there once are there once.               *)
LEMMA FieldsOfProperties ==
  ASSUME NEW ts \in Seq(Tables)
  PROVE  /\ FieldsOf(ts) \in Seq(Fields)
         /\ ToSet(FieldsOf(ts)) = UNION {ToSet(ColumnsOf(t)) : t \in ToSet(ts)}
         /\ IsInjective(ts) => IsInjective(FieldsOf(ts))
<1> DEFINE Good(us) ==
             /\ FieldsOf(us) \in Seq(Fields)
             /\ ToSet(FieldsOf(us)) = UNION {ToSet(ColumnsOf(t)) : t \in ToSet(us)}
             /\ IsInjective(us) => IsInjective(FieldsOf(us))
           P == {us \in Seq(Tables) : Good(us)}
<1>1. <<>> \in P
  <2>1. <<>> \in Seq(Tables) /\ <<>> \in Seq(Fields)
    OBVIOUS
  <2>2. FieldsOf(<<>>) = <<>> /\ ToSet(<<>>) = {}
    BY FieldsOfEmpty, ToSetEmpty
  <2>3. QED
    BY <2>1, <2>2
<1>2. ASSUME NEW us \in Seq(Tables), NEW u \in Tables, us \in P
      PROVE  Append(us, u) \in P
  <2> DEFINE r == Append(us, u)
             s == FieldsOf(us)
             c == ColumnsOf(u)
  <2>1. Good(us)
    BY <1>2
  <2>2. r \in Seq(Tables)
    OBVIOUS
  <2>3. ToSet(r) = ToSet(us) \cup {u}
    BY ToSetAppend
  <2>4. IsInjective(r) <=> IsInjective(us) /\ u \notin ToSet(us)
    BY InjectiveAppend
  <2>5. s \in Seq(Fields) /\ FieldsOf(r) = s \o c
    BY FieldsOfAppend
  <2>6. c \in Seq(Fields) /\ ToSet(c) = {<<u, x>> : x \in ToSet(Columns[u])} /\ IsInjective(c)
    BY ColumnsOfTable
  <2>7. ASSUME NEW v \in ToSet(us)
        PROVE  v \in Tables /\ ToSet(ColumnsOf(v)) = {<<v, x>> : x \in ToSet(Columns[v])}
    <3>1. v \in Tables
      BY ToSetType
    <3>2. QED
      BY <3>1, ColumnsOfTable
  <2>8. ToSet(s) = UNION {ToSet(ColumnsOf(v)) : v \in ToSet(us)}
    BY <2>1
  <2>9. IsInjective(us) => IsInjective(s)
    BY <2>1
  <2> HIDE DEF r, s, c, Good, P
  <2>10. FieldsOf(r) \in Seq(Fields)
    BY <2>5, <2>6, ConcatProperties
  <2>11. ToSet(FieldsOf(r)) = ToSet(s) \cup ToSet(c)
    BY <2>5, <2>6, ToSetConcat
  <2>12. ToSet(FieldsOf(r)) = UNION {ToSet(ColumnsOf(v)) : v \in ToSet(r)}
    BY <2>3, <2>8, <2>11 DEF c
  <2>13. IsInjective(r) => IsInjective(FieldsOf(r))
    <3> SUFFICES ASSUME IsInjective(r) PROVE IsInjective(FieldsOf(r))
      OBVIOUS
    <3>1. IsInjective(s) /\ u \notin ToSet(us)
      BY <2>4, <2>9
    <3>2. ToSet(s) \cap ToSet(c) = {}
      <4> SUFFICES ASSUME NEW f \in ToSet(s), f \in ToSet(c) PROVE FALSE
        OBVIOUS
      <4>1. PICK v \in ToSet(us) : f \in ToSet(ColumnsOf(v))
        BY <2>8
      <4>2. f[1] = v
        BY <2>7, <4>1
      <4>3. f[1] = u
        BY <2>6
      <4>4. QED
        BY <3>1, <4>2, <4>3
    <3>3. QED
      BY <2>5, <2>6, <3>1, <3>2, InjectiveConcat
  <2>14. Good(r)
    BY <2>10, <2>12, <2>13 DEF Good
  <2>15. QED
    BY <2>2, <2>14 DEF P, r
<1>3. \A us \in Seq(Tables) : \A u \in Tables : us \in P => Append(us, u) \in P
  BY <1>2
<1>4. Seq(Tables) \subseteq P
  <2> HIDE DEF P
  <2>1. QED
    BY <1>1, <1>3, SeqSetInduction
<1>5. QED
  BY <1>4

-----------------------------------------------------------------------------
(* The names of the items of a list, and the names of columns without their *)
(* table.                                                                   *)

nameOf == [x \in Item |-> x.name]
bareOf == [f \in Fields |-> f[2]]

LEMMA NameOf == Maps(nameOf, Item, Fields) /\ \A x \in Item : nameOf[x] = x.name
BY DEF Maps, nameOf, Item

LEMMA BareOf ==
  Maps(bareOf, Fields, ColumnNames) /\ \A f \in Fields : bareOf[f] = Bare(f)
<1>1. \A f \in Fields : f[2] \in ColumnNames
  BY DEF Fields, ColumnNames
<1>2. QED
  BY <1>1 DEF Maps, bareOf, Bare

LEMMA NamesMapped ==
  ASSUME NEW list \in Seq(Item)
  PROVE  Map(list, Name) = Mapped(list, nameOf)
<1>1. \A i \in DOMAIN list : nameOf[list[i]] = list[i].name
  BY NameOf
<1>2. QED
  BY <1>1 DEF Map, Name, Mapped

LEMMA BaresMapped ==
  ASSUME NEW s \in Seq(Fields)
  PROVE  Map(s, Bare) = Mapped(s, bareOf)
<1>1. \A i \in DOMAIN s : bareOf[s[i]] = Bare(s[i])
  BY BareOf
<1>2. QED
  BY <1>1 DEF Map, Mapped

LEMMA Names ==
  ASSUME NEW list \in Seq(Item)
  PROVE  /\ Map(list, Name) \in Seq(Fields) /\ Len(Map(list, Name)) = Len(list)
         /\ \A i \in 1..Len(list) : Map(list, Name)[i] = list[i].name
<1>1. \A i \in 1..Len(list) : nameOf[list[i]] = list[i].name
  BY NameOf
<1>2. Map(list, Name) = Mapped(list, nameOf) /\ Maps(nameOf, Item, Fields)
  BY NamesMapped, NameOf
<1>3. /\ Mapped(list, nameOf) \in Seq(Fields) /\ Len(Mapped(list, nameOf)) = Len(list)
      /\ \A i \in 1..Len(list) : Mapped(list, nameOf)[i] = nameOf[list[i]]
  BY <1>2, MappedType
<1>4. QED
  BY <1>1, <1>2, <1>3

LEMMA InsertNames ==
  ASSUME NEW list \in Seq(Item), NEW i \in 1..Len(list) + 1, NEW x \in Item
  PROVE  Map(InsertAt(list, i, x), Name) = InsertAt(Map(list, Name), i, x.name)
<1>1. InsertAt(list, i, x) \in Seq(Item)
  BY InsertProperties
<1>2. Mapped(InsertAt(list, i, x), nameOf) = InsertAt(Mapped(list, nameOf), i, nameOf[x])
  BY NameOf, InsertMapped
<1>3. nameOf[x] = x.name
  BY NameOf
<1>4. QED
  BY <1>1, <1>2, <1>3, NamesMapped

LEMMA RemoveNames ==
  ASSUME NEW list \in Seq(Item), NEW i \in 1..Len(list)
  PROVE  Map(RemoveAt(list, i), Name) = RemoveAt(Map(list, Name), i)
<1>1. RemoveAt(list, i) \in Seq(Item)
  BY RemoveProperties
<1>2. Mapped(RemoveAt(list, i), nameOf) = RemoveAt(Mapped(list, nameOf), i)
  BY NameOf, RemoveMapped
<1>3. QED
  BY <1>1, <1>2, NamesMapped

LEMMA Bares ==
  ASSUME NEW s \in Seq(Fields)
  PROVE  /\ Map(s, Bare) \in Seq(ColumnNames)
         /\ ToSet(Map(s, Bare)) = {Bare(f) : f \in ToSet(s)}
<1>1. Map(s, Bare) = Mapped(s, bareOf) /\ Maps(bareOf, Fields, ColumnNames)
  BY BaresMapped, BareOf
<1>2. Mapped(s, bareOf) \in Seq(ColumnNames)
  BY <1>1, MappedType
<1>3. ToSet(Mapped(s, bareOf)) = {bareOf[f] : f \in ToSet(s)}
  BY MappedRange
<1>4. \A f \in ToSet(s) : bareOf[f] = Bare(f)
  BY ToSetType, BareOf
<1>5. QED
  BY <1>1, <1>2, <1>3, <1>4

LEMMA BaresConcat ==
  ASSUME NEW s \in Seq(Fields), NEW t \in Seq(Fields)
  PROVE  Map(s \o t, Bare) = Map(s, Bare) \o Map(t, Bare)
<1>1. s \o t \in Seq(Fields)
  BY ConcatProperties
<1>2. Mapped(s \o t, bareOf) = Mapped(s, bareOf) \o Mapped(t, bareOf)
  BY BareOf, MappedConcat
<1>3. QED
  BY <1>1, <1>2, BaresMapped

LEMMA FilterBares ==
  ASSUME NEW s \in Seq(Fields), NEW A, NEW B,
         \A f \in ToSet(s) : f \in A <=> Bare(f) \in B
  PROVE  Filter(Map(s, Bare), B) = Map(Filter(s, A), Bare)
<1>1. \A f \in ToSet(s) : f \in A <=> bareOf[f] \in B
  BY ToSetType, BareOf
<1>2. Filter(Mapped(s, bareOf), B) = Mapped(Filter(s, A), bareOf)
  BY <1>1, BareOf, FilterMapped
<1>3. Filter(s, A) \in Seq(Fields)
  BY FilterType
<1>4. QED
  BY <1>2, <1>3, BaresMapped

-----------------------------------------------------------------------------
(* The invariants. *)

(* What a drag sets has its type once it has begun. *)
DragType(d) ==
  /\ d \in [from : Lists \cup {"none"}, onto : Lists \cup {"none"},
            on : BOOLEAN, captured : BOOLEAN, item : {d.item},
            itemPos : Nat, sourcePos : Nat]
  /\ d.captured => d.on
  /\ d.on => d.from \in Lists /\ d.item \in Fields

(* TypeOK, with what the lists are lists of. *)
TypeInv ==
  /\ tables \in Seq(Tables) /\ selected \subseteq Fields
  /\ query \in Seq(Fields) /\ sorts \in Seq(ColumnNames)
  /\ source \in Seq(Item) /\ dest \in Seq(Item)
  /\ all \in Seq(Fields) /\ groups \in Seq(Fields) /\ clause \in Seq(Fields)
  /\ DragType(drag)
  /\ did \subseteq Happenings
  /\ fault \in {"none", "overrun", "erased", "freed", "null", "uninitialised"}

InDiagram == ToSet(FieldsOf(tables))

(* What is selected, queried or sorted by is a column of the diagram.        *)
DiagramInv ==
  /\ IsInjective(tables)
  /\ "closed" \notin did =>
       /\ ToSet(query) \cup selected \subseteq InDiagram
       /\ ToSet(sorts) \subseteq {Bare(f) : f \in InDiagram}
  /\ "closed" \in did => query = <<>> /\ ("parted" \notin did => selected = {})

(* The two lists of the page are those of the document, and have the columns *)
(* of the diagram, each once.                                                *)
ListsInv ==
  Sound =>
    /\ Map(source, Name) = all /\ Map(dest, Name) = groups
    /\ IsInjective(all) /\ IsInjective(groups)
    /\ ToSet(all) \cap ToSet(groups) = {}
    /\ ToSet(all) \cup ToSet(groups) = InDiagram

ClauseInv ==
  Sound /\ "damaged" \notin did /\ clause # groups => groups = <<>> /\ Len(clause) = 1

(* The item that is dragged is still where it was when the drag began.       *)
DragInv ==
  Sound /\ drag.on =>
    /\ drag.from = "source" =>
         drag.itemPos < Len(source) /\ source[drag.itemPos + 1].name = drag.item
    /\ drag.from = "dest" =>
         /\ drag.sourcePos < Len(dest)
         /\ dest[drag.sourcePos + 1] = [name |-> drag.item, data |-> drag.itemPos]

(* The data of an item is the original position of its column.               *)
AtPlace(item) ==
  item.data < Len(FieldsOf(tables)) /\ FieldsOf(tables)[item.data + 1] = item.name
PlaceInv ==
  did \subseteq {"faded"} /\ fault = "none" => \A item \in ToSet(source) \cup ToSet(dest) : AtPlace(item)

-----------------------------------------------------------------------------
(* What is selected, chosen and displayed. *)

LEMMA Chosen ==
  ASSUME NEW C \in SUBSET Tables, NEW ts \in SetToSeqs(C)
  PROVE  ts \in Seq(Tables) /\ IsInjective(ts) /\ ToSet(ts) \subseteq C
<1> DEFINE n == Cardinality(C)
<1>1. n \in Nat
  <2>1. IsFiniteSet(C)
    BY ColumnsAssumption, FS_Subset
  <2>2. QED
    BY <2>1, FS_CardinalityType
<1>2. ts \in [1..n -> C] /\ \A i, j \in 1..n : i # j => ts[i] # ts[j]
  BY DEF SetToSeqs
<1> HIDE DEF n
<1>3. ts \in Seq(Tables)
  BY <1>1, <1>2
<1>4. DOMAIN ts = 1..n
  BY <1>2
<1>5. QED
  BY <1>2, <1>3, <1>4 DEF IsInjective, ToSet

LEMMA DisplayedType ==
  ASSUME TypeInv
  PROVE  /\ FieldsOf(tables) \in Seq(Fields) /\ Displayed \in Seq(Fields)
         /\ InDiagram \subseteq Fields /\ ToSet(Displayed) \subseteq Fields
         /\ "closed" \in did => ToSet(Displayed) = {}
         /\ "closed" \notin did => Displayed = FieldsOf(tables)
<1>1. FieldsOf(tables) \in Seq(Fields)
  BY FieldsOfProperties DEF TypeInv
<1>2. Displayed \in Seq(Fields)
  BY <1>1 DEF Displayed
<1>3. QED
  BY <1>1, <1>2, ToSetType, ToSetEmpty DEF Displayed, InDiagram

(* The first column of that name is one of them.                             *)
LEMMA SameName ==
  ASSUME NEW s \in Seq(Fields), NEW f \in ToSet(s)
  PROVE  s[SelectInSeq(s, LAMBDA g : Bare(g) = Bare(f))] \in ToSet(s)
<1> DEFINE I == {i \in 1..Len(s) : Bare(s[i]) = Bare(f)}
<1>1. Len(s) \in Nat /\ DOMAIN s = 1..Len(s)
  OBVIOUS
<1>2. I \in SUBSET Nat /\ I # {}
  BY <1>1 DEF ToSet
<1>3. Min(I) \in I
  <2> HIDE DEF I
  <2>1. QED
    BY <1>2, MinProperties
<1>4. SelectInSeq(s, LAMBDA g : Bare(g) = Bare(f)) = Min(I)
  BY <1>2 DEF SelectInSeq
<1>5. s[Min(I)] \in ToSet(s)
  <2>1. Min(I) \in DOMAIN s
    BY <1>1, <1>3
  <2>2. QED
    BY <2>1 DEF ToSet
<1>6. QED
  BY <1>4, <1>5

LEMMA PlaceOf ==
  ASSUME NEW s \in Seq(Fields), IsInjective(s), NEW j \in 1..Len(s)
  PROVE  SelectInSeq(s, LAMBDA g : g = s[j]) = j
<1> DEFINE I == {i \in 1..Len(s) : s[i] = s[j]}
<1>1. I = {j}
  BY DEF IsInjective
<1>2. Min({j}) = j
  <2> DEFINE J == {j}
  <2>0. J \in SUBSET Nat /\ J # {}
    OBVIOUS
  <2> HIDE DEF J
  <2>1. Min(J) \in J
    BY <2>0, MinProperties
  <2>2. QED
    BY <2>1 DEF J
<1>3. SelectInSeq(s, LAMBDA g : g = s[j]) = Min(I)
  BY <1>1 DEF SelectInSeq
<1>4. QED
  BY <1>1, <1>2, <1>3

-----------------------------------------------------------------------------
(* The operations on lists keep their types. *)

LEMMA ItemsOf ==
  ASSUME NEW fs \in Seq(Fields)
  PROVE  /\ Items(fs) \in Seq(Item) /\ Len(Items(fs)) = Len(fs)
         /\ \A i \in 1..Len(fs) : Items(fs)[i] = [name |-> fs[i], data |-> i - 1]
         /\ Map(Items(fs), Name) = fs
<1> DEFINE n == Len(fs)
           s == Items(fs)
<1>1. n \in Nat /\ DOMAIN fs = 1..n /\ \A i \in 1..n : fs[i] \in Fields
  OBVIOUS
<1>2. s = [i \in 1..n |-> [name |-> fs[i], data |-> i - 1]]
  BY <1>1 DEF Items
<1> HIDE DEF n, s
<1>3. \A i \in 1..n : [name |-> fs[i], data |-> i - 1] \in Item
  BY <1>1 DEF Item
<1>4. s \in Seq(Item) /\ Len(s) = n
  BY <1>1, <1>2, <1>3
<1>5. \A i \in 1..n : s[i] = [name |-> fs[i], data |-> i - 1]
  BY <1>2
<1>6. /\ Map(s, Name) \in Seq(Fields) /\ Len(Map(s, Name)) = n
      /\ \A i \in 1..n : Map(s, Name)[i] = fs[i]
  <2>1. /\ Map(s, Name) \in Seq(Fields) /\ Len(Map(s, Name)) = Len(s)
        /\ \A i \in 1..Len(s) : Map(s, Name)[i] = s[i].name
    BY <1>4, Names
  <2>2. ASSUME NEW i \in 1..n
        PROVE  s[i].name = fs[i]
    <3>1. s[i] = [name |-> fs[i], data |-> i - 1]
      BY <1>5
    <3>2. QED
      BY <3>1
  <2>3. QED
    BY <1>4, <2>1, <2>2
<1>7. Map(s, Name) = fs
  BY <1>6, SeqEqual DEF n
<1>8. QED
  BY <1>4, <1>5, <1>7 DEF n, s

LEMMA InsertItemType ==
  ASSUME NEW list \in Seq(Item), NEW pos \in Nat, NEW x \in Item
  PROVE  /\ InsertItem(list, pos, x) \in Seq(Item)
         /\ pos <= Len(list) => InsertItem(list, pos, x) = InsertAt(list, pos + 1, x)
<1> DEFINE k == (IF pos > Len(list) THEN Len(list) ELSE pos) + 1
<1>1. k \in 1..Len(list) + 1
  OBVIOUS
<1>2. InsertItem(list, pos, x) = InsertAt(list, k, x)
  BY DEF InsertItem
<1>3. pos <= Len(list) => k = pos + 1
  OBVIOUS
<1> HIDE DEF k
<1>4. InsertAt(list, k, x) \in Seq(Item)
  BY <1>1, InsertProperties
<1>5. QED
  BY <1>2, <1>3, <1>4

LEMMA DeleteItemType ==
  ASSUME NEW list \in Seq(Item), NEW pos \in Nat
  PROVE  /\ DeleteItem(list, pos) \in Seq(Item)
         /\ pos < Len(list) => DeleteItem(list, pos) = RemoveAt(list, pos + 1)
<1>1. CASE pos < Len(list)
  <2>1. pos + 1 \in 1..Len(list)
    BY <1>1
  <2>2. RemoveAt(list, pos + 1) \in Seq(Item)
    BY <2>1, RemoveProperties
  <2>3. QED
    BY <1>1, <2>2 DEF DeleteItem
<1>2. CASE ~(pos < Len(list))
  BY <1>2 DEF DeleteItem
<1>3. QED
  BY <1>1, <1>2

LEMMA ItemDataType ==
  ASSUME NEW list \in Seq(Item), NEW pos \in Nat
  PROVE  GetItemData(list, pos) \in Nat
<1>1. CASE pos < Len(list)
  <2>1. pos + 1 \in 1..Len(list)
    BY <1>1
  <2>2. list[pos + 1] \in Item
    BY <2>1
  <2>3. QED
    BY <1>1, <2>2 DEF GetItemData, Item
<1>2. CASE ~(pos < Len(list))
  BY <1>2 DEF GetItemData
<1>3. QED
  BY <1>1, <1>2

LEMMA InsertType ==
  ASSUME NEW s \in Seq(Fields), NEW pos \in Nat, NEW f \in Fields
  PROVE  /\ Insert(s, pos, f) \in Seq(Fields)
         /\ Fits(s, pos) => pos + 1 \in 1..Len(s) + 1 /\ Insert(s, pos, f) = InsertAt(s, pos + 1, f)
<1>1. CASE Fits(s, pos)
  <2>1. pos + 1 \in 1..Len(s) + 1
    BY <1>1 DEF Fits
  <2>2. InsertAt(s, pos + 1, f) \in Seq(Fields)
    BY <2>1, InsertProperties
  <2>3. QED
    BY <1>1, <2>1, <2>2 DEF Insert
<1>2. CASE ~Fits(s, pos)
  BY <1>2 DEF Insert
<1>3. QED
  BY <1>1, <1>2

LEMMA OmitType ==
  ASSUME NEW S, NEW s \in Seq(S), NEW T
  PROVE  Omit(s, T) \in Seq(S)
BY OmitProperties

-----------------------------------------------------------------------------
(* Type correctness. *)

LEMMA TypeInit == Init => TypeInv
<1> SUFFICES ASSUME Init PROVE TypeInv
  OBVIOUS
<1>1. DragType(drag)
  BY DEF Init, NoDrag, DragType, Lists
<1>2. QED
  BY <1>1 DEF Init, TypeInv

(* The tables ts are selected, and fs are then the columns of the diagram.   *)
Selects(ts, fs) ==
  /\ ts \in Seq(Tables) /\ IsInjective(ts) /\ ToSet(ts) \cap ToSet(tables) = {}
  /\ fs = FieldsOf(tables \o ts)
  /\ Ready /\ "closed" \notin did
  /\ tables' = tables \o ts
  /\ selected' = selected \cup
       {fs[SelectInSeq(fs, LAMBDA g : Bare(g) = Bare(f))] : f \in ToSet(query)}
  /\ source' = Items(fs) \o source
  /\ all' = all \o fs
  /\ clause' = <<>>
  /\ did' = (did \ {"damaged"}) \cup (IF tables = <<>> THEN {} ELSE {"again"})
  /\ UNCHANGED <<query, sorts, dest, groups, drag, fault>>

LEMMA SomeSelected ==
  ASSUME SelectTables
  PROVE  \E ts, fs : Selects(ts, fs)
<1>1. PICK C \in SUBSET (Tables \ ToSet(tables)) \ {{}} :
        \E ts \in SetToSeqs(C) :
          LET fields == FieldsOf(tables \o ts)
              Same(f) == SelectInSeq(fields, LAMBDA g : Bare(g) = Bare(f))
          IN
          /\ Ready /\ "closed" \notin did
          /\ tables' = tables \o ts
          /\ selected' = selected \cup {fields[Same(f)] : f \in ToSet(query)}
          /\ source' = Items(fields) \o source
          /\ all' = all \o fields
          /\ clause' = <<>>
          /\ did' = (did \ {"damaged"}) \cup (IF tables = <<>> THEN {} ELSE {"again"})
          /\ UNCHANGED <<query, sorts, dest, groups, drag, fault>>
  BY DEF SelectTables
<1>2. PICK ts \in SetToSeqs(C) :
        LET fields == FieldsOf(tables \o ts)
            Same(f) == SelectInSeq(fields, LAMBDA g : Bare(g) = Bare(f))
        IN
        /\ Ready /\ "closed" \notin did
        /\ tables' = tables \o ts
        /\ selected' = selected \cup {fields[Same(f)] : f \in ToSet(query)}
        /\ source' = Items(fields) \o source
        /\ all' = all \o fields
        /\ clause' = <<>>
        /\ did' = (did \ {"damaged"}) \cup (IF tables = <<>> THEN {} ELSE {"again"})
        /\ UNCHANGED <<query, sorts, dest, groups, drag, fault>>
  BY <1>1
<1>3. C \in SUBSET Tables /\ C \cap ToSet(tables) = {}
  OBVIOUS
<1>4. ts \in Seq(Tables) /\ IsInjective(ts) /\ ToSet(ts) \subseteq C
  BY <1>3, Chosen
<1>5. Selects(ts, FieldsOf(tables \o ts))
  BY <1>2, <1>3, <1>4 DEF Selects
<1>6. QED
  BY <1>5

LEMMA SelectedType ==
  ASSUME TypeInv, NEW ts, NEW fields, Selects(ts, fields)
  PROVE  /\ tables \o ts \in Seq(Tables) /\ fields \in Seq(Fields)
         /\ ToSet(fields) = InDiagram'
         /\ InDiagram \subseteq ToSet(fields)
<1>1. ts \in Seq(Tables) /\ fields = FieldsOf(tables \o ts) /\ tables' = tables \o ts
  BY DEF Selects
<1>2. tables \o ts \in Seq(Tables)
  BY <1>1, ConcatProperties DEF TypeInv
<1>3. /\ fields \in Seq(Fields)
      /\ ToSet(fields) = UNION {ToSet(ColumnsOf(t)) : t \in ToSet(tables \o ts)}
  BY <1>1, <1>2, FieldsOfProperties
<1>4. InDiagram = UNION {ToSet(ColumnsOf(t)) : t \in ToSet(tables)}
  BY FieldsOfProperties DEF TypeInv, InDiagram
<1>5. ToSet(tables \o ts) = ToSet(tables) \cup ToSet(ts)
  BY <1>1, ToSetConcat DEF TypeInv
<1>6. QED
  BY <1>1, <1>2, <1>3, <1>4, <1>5 DEF InDiagram

(* The columns selected by a query are columns of the diagram.               *)
LEMMA SelectedShown ==
  ASSUME TypeInv, DiagramInv, NEW ts, NEW fields, Selects(ts, fields)
  PROVE  selected' \subseteq ToSet(fields)
<1>1. fields \in Seq(Fields) /\ InDiagram \subseteq ToSet(fields)
  BY SelectedType
<1>2. ToSet(query) \cup selected \subseteq ToSet(fields)
  BY <1>1 DEF DiagramInv, Selects
<1>3. \A f \in ToSet(query) :
        fields[SelectInSeq(fields, LAMBDA g : Bare(g) = Bare(f))] \in ToSet(fields)
  BY <1>1, <1>2, SameName
<1>4. selected' = selected \cup
        {fields[SelectInSeq(fields, LAMBDA g : Bare(g) = Bare(f))] : f \in ToSet(query)}
  BY DEF Selects
<1>5. QED
  BY <1>2, <1>3, <1>4

LEMMA TypeSelectTables ==
  ASSUME TypeInv, DiagramInv, SelectTables
  PROVE  TypeInv'
<1>1. PICK ts, fields : Selects(ts, fields)
  BY SomeSelected
<1>2. tables \o ts \in Seq(Tables) /\ fields \in Seq(Fields)
  BY <1>1, SelectedType
<1>3. selected' \subseteq Fields
  BY <1>1, <1>2, SelectedShown, ToSetType
<1>4. /\ tables' = tables \o ts
      /\ source' = Items(fields) \o source
      /\ all' = all \o fields
      /\ clause' = <<>>
      /\ did' = (did \ {"damaged"}) \cup (IF tables = <<>> THEN {} ELSE {"again"})
      /\ UNCHANGED <<query, sorts, dest, groups, drag, fault>>
  BY <1>1 DEF Selects
<1>5. source' \in Seq(Item)
  <2>1. Items(fields) \in Seq(Item)
    BY <1>2, ItemsOf
  <2>2. QED
    BY <1>4, <2>1, ConcatProperties DEF TypeInv
<1>6. all' \in Seq(Fields) /\ clause' \in Seq(Fields)
  BY <1>2, <1>4, ConcatProperties DEF TypeInv
<1>7. did' \subseteq Happenings
  BY <1>4 DEF TypeInv, Happenings
<1>8. DragType(drag)'
  BY <1>4 DEF TypeInv, DragType
<1>9. QED
  BY <1>2, <1>3, <1>4, <1>5, <1>6, <1>7, <1>8 DEF TypeInv

(* The columns fs are added to the query; the columns of the set leave it.   *)
AddFields(fs) == query' = query \o fs /\ sorts' = sorts \o Map(fs, Bare)
RemoveFields(fs) == query' = Omit(query, fs) /\ sorts' = Omit(sorts, {Bare(f) : f \in fs})

LEMMA OneAdded ==
  ASSUME TypeInv, NEW f \in Fields, AddFieldToQuery(f)
  PROVE  AddFields(<<f>>)
<1>1. query \o <<f>> = Append(query, f)
  BY DEF TypeInv
<1>2. sorts \o <<Bare(f)>> = Append(sorts, Bare(f))
  BY DEF TypeInv
<1>3. Map(<<f>>, Bare) = <<Bare(f)>>
  BY DEF Map
<1>4. QED
  BY <1>1, <1>2, <1>3 DEF AddFields, AddFieldToQuery

LEMMA OneRemoved ==
  ASSUME NEW f, RemoveFieldFromQuery(f)
  PROVE  RemoveFields({f})
<1>1. {Bare(g) : g \in {f}} = {Bare(f)}
  OBVIOUS
<1>2. QED
  BY <1>1 DEF RemoveFields, RemoveFieldFromQuery, Without

LEMMA TypeAddFields ==
  ASSUME TypeInv, NEW fs \in Seq(Fields), AddFields(fs)
  PROVE  query' \in Seq(Fields) /\ sorts' \in Seq(ColumnNames)
<1>1. query' \in Seq(Fields)
  BY ConcatProperties DEF AddFields, TypeInv
<1>2. Map(fs, Bare) \in Seq(ColumnNames)
  BY Bares
<1>3. sorts' \in Seq(ColumnNames)
  BY <1>2, ConcatProperties DEF AddFields, TypeInv
<1>4. QED
  BY <1>1, <1>3

LEMMA TypeRemoveFields ==
  ASSUME TypeInv, NEW fs, RemoveFields(fs)
  PROVE  query' \in Seq(Fields) /\ sorts' \in Seq(ColumnNames)
<1>1. query' = Omit(query, fs) /\ sorts' = Omit(sorts, {Bare(f) : f \in fs})
  BY DEF RemoveFields
<1>2. query' \in Seq(Fields)
  BY <1>1, OmitType DEF TypeInv
<1>3. sorts' \in Seq(ColumnNames)
  BY <1>1, OmitType DEF TypeInv
<1>4. QED
  BY <1>2, <1>3

LEMMA TypeClick ==
  ASSUME TypeInv, NEW f, OnLeftDown(f)
  PROVE  TypeInv'
<1>1. f \in Fields
  BY DisplayedType DEF OnLeftDown
<1>2. UNCHANGED <<tables, pageVars, docVars, drag, did, fault>>
  BY DEF OnLeftDown
<1>3. selected' \subseteq Fields
  BY <1>1 DEF OnLeftDown, TypeInv
<1>4. query' \in Seq(Fields) /\ sorts' \in Seq(ColumnNames)
  <2>1. CASE AddFieldToQuery(f)
    <3>1. <<f>> \in Seq(Fields)
      BY <1>1
    <3>2. AddFields(<<f>>)
      BY <1>1, <2>1, OneAdded
    <3>3. QED
      BY <3>1, <3>2, TypeAddFields
  <2>2. CASE RemoveFieldFromQuery(f)
    BY <2>2, OneRemoved, TypeRemoveFields
  <2>3. QED
    BY <2>1, <2>2 DEF OnLeftDown
<1>5. QED
  BY <1>2, <1>3, <1>4 DEF TypeInv, pageVars, docVars, DragType

(* Every way to lose a highlighting is one of these.                         *)
Fades == \E fs : Fade(fs)

LEMMA SomeFade ==
  ASSUME ShowHideTablePart \/ OnLeftDownBeside \/ (\E f \in ToSet(Displayed) : OnRightDown(f))
  PROVE  Fades
BY DEF ShowHideTablePart, OnLeftDownBeside, OnRightDown, Fades

LEMMA TypeFade ==
  ASSUME TypeInv, Fades
  PROVE  TypeInv'
<1>1. PICK fs : Fade(fs)
  BY DEF Fades
<1>2. did' \subseteq Happenings
  BY <1>1 DEF Fade, TypeInv, Happenings
<1>3. selected' \subseteq Fields
  BY <1>1 DEF Fade, TypeInv
<1>4. UNCHANGED <<tables, query, sorts, pageVars, docVars, drag, fault>>
  BY <1>1 DEF Fade
<1>5. QED
  BY <1>2, <1>3, <1>4 DEF TypeInv, pageVars, docVars, DragType

(* What closing does, by what is under the cursor.                           *)
Closes ==
  /\ DropTableFromQeury
  /\ \/ selected' = {} /\ did' = (did \ {"damaged"}) \cup {"closed"}
     \/ UNCHANGED selected /\ did' = (did \ {"damaged"}) \cup {"closed", "parted"}
CloseFails ==
  /\ fault' \in {"freed", "erased", "null"}
  /\ UNCHANGED <<diagramVars, pageVars, docVars, drag, did>>

LEMMA Closing ==
  ASSUME OnCloseTable
  PROVE  Closes \/ CloseFails
BY DEF OnCloseTable, Closes, CloseFails

LEMMA TypeClose ==
  ASSUME TypeInv, OnCloseTable \/ SelectTablesFreed \/ LeftUpFirst
  PROVE  TypeInv'
<1>1. CASE Closes
  <2>1. /\ source' = <<>> /\ dest' = <<>> /\ query' = <<>>
        /\ groups' = <<>> /\ clause' = <<>>
        /\ UNCHANGED <<tables, sorts, all, drag, fault>>
    BY <1>1 DEF Closes, DropTableFromQeury
  <2>2. <<>> \in Seq(Item) /\ <<>> \in Seq(Fields)
    OBVIOUS
  <2>3. did' \subseteq Happenings
    BY <1>1 DEF Closes, TypeInv, Happenings
  <2>4. selected' \subseteq Fields
    BY <1>1 DEF Closes, TypeInv
  <2>5. DragType(drag)'
    BY <2>1 DEF TypeInv, DragType
  <2>6. QED
    BY <2>1, <2>2, <2>3, <2>4, <2>5 DEF TypeInv
<1>2. CASE CloseFails
  BY <1>2 DEF CloseFails, TypeInv, DragType, diagramVars, pageVars, docVars
<1>3. CASE SelectTablesFreed
  BY <1>3 DEF SelectTablesFreed, TypeInv, DragType, diagramVars, pageVars, docVars
<1>4. CASE LeftUpFirst
  BY <1>4 DEF LeftUpFirst, TypeInv, DragType, diagramVars, pageVars, docVars
<1>5. QED
  BY <1>1, <1>2, <1>3, <1>4, Closing

LEMMA ItemAt ==
  ASSUME NEW list \in Seq(Item), NEW pos \in Nat, pos < Len(list)
  PROVE  /\ pos + 1 \in 1..Len(list) /\ list[pos + 1] \in Item
         /\ list[pos + 1].name \in Fields /\ list[pos + 1].data \in Nat
         /\ list[pos + 1] = [name |-> list[pos + 1].name, data |-> list[pos + 1].data]
<1>1. pos + 1 \in 1..Len(list)
  OBVIOUS
<1>2. list[pos + 1] \in Item
  BY <1>1
<1>3. QED
  BY <1>1, <1>2 DEF Item

LEMMA TypeBeginDrag ==
  ASSUME TypeInv, NEW l \in Lists, NEW pos \in Nat, OnBeginDrag(l, pos)
  PROVE  TypeInv'
<1> DEFINE item == ListNamed(l)[pos + 1]
<1>1. item.name \in Fields /\ item.data \in Nat
  <2>1. ListNamed(l) \in Seq(Item)
    BY DEF ListNamed, TypeInv
  <2>2. pos < Len(ListNamed(l))
    BY DEF OnBeginDrag
  <2>3. QED
    BY <2>1, <2>2, ItemAt
<1>2. /\ drag' = [drag EXCEPT !.from = l, !.item = item.name,
                              !.on = TRUE, !.captured = TRUE,
                              !.itemPos = IF l = "source" THEN pos ELSE item.data,
                              !.sourcePos = IF l = "dest" THEN pos ELSE @]
      /\ UNCHANGED <<diagramVars, pageVars, docVars, did, fault>>
  BY DEF OnBeginDrag
<1> HIDE DEF item
<1>3. DragType(drag')
  BY <1>1, <1>2 DEF TypeInv, DragType
<1>4. QED
  BY <1>2, <1>3 DEF TypeInv, diagramVars, pageVars, docVars, DragType

LEMMA TypeLeftUpNothing ==
  ASSUME TypeInv, NEW where \in Lists \cup {"outside"}, LeftUpNothing(where)
  PROVE  TypeInv'
<1>1. Onto(where) \in Lists \cup {"none"}
  BY DEF Onto, TypeInv, DragType, Lists
<1>2. DragType(drag')
  BY <1>1 DEF LeftUpNothing, TypeInv, DragType
<1>3. QED
  BY <1>2 DEF LeftUpNothing, TypeInv, diagramVars, pageVars, docVars, DragType

LEMMA DragEndsType ==
  ASSUME TypeInv
  PROVE  DragType(DragEnds) /\ DragEnds.on = FALSE
BY DEF TypeInv, DragType, DragEnds, NoDrag, Lists

LEMMA TypeAddField ==
  ASSUME TypeInv, NEW where \in Lists \cup {"outside"}, AddField(where)
  PROVE  TypeInv'
<1>1. Finishes(where, "source", {"dest"}) /\ source' = DeleteItem(source, drag.itemPos)
  BY DEF AddField
<1>2. PICK pos \in DropPositions(where, dest) :
        LET data == GetItemData(source, drag.itemPos)
        IN
        /\ dest' = InsertItem(dest, pos, [name |-> drag.item, data |-> data])
        /\ all' = Without(all, drag.item)
        /\ groups' = Insert(groups, pos, drag.item)
        /\ fault' = IF Fits(groups, pos) THEN "none" ELSE "overrun"
        /\ clause' = IF "damaged" \in did THEN clause ELSE groups'
  BY DEF AddField
<1>3. drag' = DragEnds /\ UNCHANGED <<diagramVars, did>>
  BY DEF AddField
<1>4. drag.itemPos \in Nat /\ drag.item \in Fields
  BY <1>1 DEF Finishes, TypeInv, DragType
<1>5. pos \in Nat
  BY DEF DropPositions, TypeInv
<1> DEFINE x == [name |-> drag.item, data |-> GetItemData(source, drag.itemPos)]
<1>6. x \in Item
  BY <1>4, ItemDataType DEF Item, TypeInv
<1>7. dest' = InsertItem(dest, pos, x) /\ groups' = Insert(groups, pos, drag.item)
  BY <1>2
<1> HIDE DEF x
<1>8. source' \in Seq(Item)
  BY <1>1, <1>4, DeleteItemType DEF TypeInv
<1>9. dest' \in Seq(Item)
  BY <1>5, <1>6, <1>7, InsertItemType DEF TypeInv
<1>10. groups' \in Seq(Fields)
  BY <1>4, <1>5, <1>7, InsertType DEF TypeInv
<1>11. all' \in Seq(Fields)
  BY <1>2, OmitType DEF TypeInv, Without
<1>12. clause' \in Seq(Fields) /\ fault' \in {"none", "overrun"}
  BY <1>2, <1>10 DEF TypeInv
<1>13. DragType(drag')
  BY <1>3, DragEndsType
<1>14. QED
  BY <1>3, <1>8, <1>9, <1>10, <1>11, <1>12, <1>13 DEF TypeInv, diagramVars

LEMMA TypeRemoveField ==
  ASSUME TypeInv, NEW where \in Lists \cup {"outside"}, RemoveField(where)
  PROVE  TypeInv'
<1> DEFINE data == GetItemData(dest, drag.sourcePos)
           x == [name |-> drag.item, data |-> data]
<1>1. /\ Finishes(where, "dest", {"source", "none"})
      /\ dest' = DeleteItem(dest, drag.sourcePos)
      /\ source' = InsertItem(source, data, x)
      /\ DeleteGroupByField(drag.item, data)
      /\ clause' = IF groups' = <<>> \/ "damaged" \in did THEN clause ELSE groups'
      /\ drag' = DragEnds
      /\ UNCHANGED <<diagramVars, did>>
  BY DEF RemoveField
<1>2. drag.sourcePos \in Nat /\ drag.item \in Fields
  BY <1>1 DEF Finishes, TypeInv, DragType
<1>3. data \in Nat
  BY <1>2, ItemDataType DEF TypeInv
<1>4. x \in Item
  BY <1>2, <1>3 DEF Item
<1> HIDE DEF data, x
<1>5. dest' \in Seq(Item)
  BY <1>1, <1>2, DeleteItemType DEF TypeInv
<1>6. source' \in Seq(Item)
  BY <1>1, <1>3, <1>4, InsertItemType DEF TypeInv
<1>7. /\ groups' = Omit(groups, {drag.item}) /\ all' = Insert(all, data, drag.item)
      /\ fault' = IF Fits(all, data) THEN fault ELSE "overrun"
  BY <1>1 DEF DeleteGroupByField, Without
<1>8. groups' \in Seq(Fields)
  BY <1>7, OmitType DEF TypeInv
<1>9. all' \in Seq(Fields)
  BY <1>2, <1>3, <1>7, InsertType DEF TypeInv
<1>10. DragType(drag')
  BY <1>1, DragEndsType
<1>11. clause' \in Seq(Fields) /\ fault' \in {"none", "overrun", "erased", "freed", "null", "uninitialised"}
  BY <1>1, <1>7, <1>8 DEF TypeInv
<1>12. QED
  BY <1>1, <1>5, <1>6, <1>8, <1>9, <1>10, <1>11 DEF TypeInv, diagramVars

LEMMA TypeChangeField ==
  ASSUME TypeInv, NEW where \in Lists \cup {"outside"}, ChangeField(where)
  PROVE  TypeInv'
<1> DEFINE rest == DeleteItem(dest, drag.itemPos)
           others == Without(groups, drag.item)
           x == [name |-> drag.item, data |-> GetItemData(source, drag.itemPos)]
<1>1. Finishes(where, "dest", {"dest"})
  BY DEF ChangeField
<1>2. PICK pos \in DropPositions(where, rest) :
        /\ dest' = InsertItem(rest, pos, x)
        /\ groups' = Insert(others, pos, drag.item)
        /\ fault' = IF Fits(others, pos) THEN "none" ELSE "overrun"
  BY DEF ChangeField
<1>3. /\ clause' = <<>>
      /\ did' = did \cup {"damaged"}
                    \cup (IF drag.itemPos = drag.sourcePos THEN {} ELSE {"lost"})
      /\ drag' = DragEnds
      /\ UNCHANGED <<diagramVars, source, all>>
  BY DEF ChangeField
<1>4. drag.itemPos \in Nat /\ drag.item \in Fields
  BY <1>1 DEF Finishes, TypeInv, DragType
<1>5. rest \in Seq(Item)
  BY <1>4, DeleteItemType DEF TypeInv
<1>6. others \in Seq(Fields)
  BY OmitType DEF TypeInv, Without
<1>7. x \in Item
  BY <1>4, ItemDataType DEF Item, TypeInv
<1> HIDE DEF rest, others, x
<1>8. pos \in Nat
  BY <1>5 DEF DropPositions
<1>9. dest' \in Seq(Item)
  BY <1>2, <1>5, <1>7, <1>8, InsertItemType
<1>10. groups' \in Seq(Fields)
  BY <1>2, <1>4, <1>6, <1>8, InsertType
<1>11. did' \subseteq Happenings
  BY <1>3 DEF TypeInv, Happenings
<1>12. DragType(drag')
  BY <1>3, DragEndsType
<1>13. fault' \in {"none", "overrun"} /\ clause' \in Seq(Fields)
  BY <1>2, <1>3
<1>14. QED
  BY <1>3, <1>9, <1>10, <1>11, <1>12, <1>13 DEF TypeInv, diagramVars

LEMMA TypeNext ==
  ASSUME TypeInv, DiagramInv, [Next]_vars
  PROVE  TypeInv'
<1>1. CASE SelectTables
  BY <1>1, TypeSelectTables
<1>2. CASE SelectTablesFreed \/ OnCloseTable \/ LeftUpFirst
  BY <1>2, TypeClose
<1>3. ASSUME NEW f \in ToSet(Displayed), OnLeftDown(f) PROVE TypeInv'
  BY <1>3, TypeClick
<1>4. CASE ShowHideTablePart \/ OnLeftDownBeside \/ (\E f \in ToSet(Displayed) : OnRightDown(f))
  BY <1>4, SomeFade, TypeFade
<1>5. ASSUME NEW l \in Lists, NEW pos \in 0..Len(source) + Len(dest), OnBeginDrag(l, pos)
      PROVE  TypeInv'
  <2>1. pos \in Nat
    OBVIOUS
  <2>2. QED
    BY <1>5, <2>1, TypeBeginDrag
<1>6. ASSUME NEW where \in Lists \cup {"outside"},
             LeftUpNothing(where) \/ AddField(where) \/ RemoveField(where) \/ ChangeField(where)
      PROVE  TypeInv'
  BY <1>6, TypeLeftUpNothing, TypeAddField, TypeRemoveField, TypeChangeField
<1>7. CASE UNCHANGED vars
  BY <1>7 DEF vars, diagramVars, pageVars, docVars, TypeInv, DragType
<1>8. QED
  BY <1>1, <1>2, <1>3, <1>4, <1>5, <1>6, <1>7 DEF Next

-----------------------------------------------------------------------------
(* The diagram and the query. *)

(* A click adds the columns fs, or removes those of the set.                 *)
Adds(fs) ==
  /\ fs \in Seq(Fields) /\ IsInjective(fs)
  /\ ToSet(fs) \subseteq ToSet(Displayed) \ selected
  /\ selected' = selected \cup ToSet(fs)
  /\ AddFields(fs)
  /\ UNCHANGED <<tables, pageVars, docVars, drag, did, fault>>

Removes(fs) ==
  /\ fs \subseteq ToSet(Displayed)
  /\ selected' = selected \ fs
  /\ RemoveFields(fs)
  /\ UNCHANGED <<tables, pageVars, docVars, drag, did, fault>>

(* Nothing of the diagram changes. *)
OnPage ==
  /\ UNCHANGED diagramVars
  /\ did \subseteq did' /\ did' \subseteq did \cup {"damaged", "lost"}

LEMMA Clicks ==
  ASSUME TypeInv, NEW f, OnLeftDown(f)
  PROVE  \E fs : Adds(fs) \/ Removes(fs)
<1>1. f \in Fields /\ f \in ToSet(Displayed)
  BY DisplayedType DEF OnLeftDown
<1>2. <<f>> \in Seq(Fields) /\ IsInjective(<<f>>) /\ ToSet(<<f>>) = {f}
  BY <1>1 DEF IsInjective, ToSet
<1>3. CASE f \notin selected
  <2>1. AddFields(<<f>>)
    BY <1>1, <1>3, OneAdded DEF OnLeftDown
  <2>2. Adds(<<f>>)
    BY <1>1, <1>2, <1>3, <2>1 DEF OnLeftDown, Adds
  <2>3. QED
    BY <2>2
<1>4. CASE f \in selected
  <2>1. RemoveFields({f})
    BY <1>4, OneRemoved DEF OnLeftDown
  <2>2. Removes({f})
    BY <1>1, <1>4, <2>1 DEF OnLeftDown, Removes
  <2>3. QED
    BY <2>2
<1>5. QED
  BY <1>3, <1>4

LEMMA Steps ==
  ASSUME TypeInv, DiagramInv, [Next]_vars
  PROVE  \/ \E ts, fs : Selects(ts, fs)
         \/ \E fs : Adds(fs) \/ Removes(fs)
         \/ Fades
         \/ Closes
         \/ OnPage
<1>1. CASE SelectTables
  BY <1>1, SomeSelected
<1>2. ASSUME NEW f \in ToSet(Displayed), OnLeftDown(f) PROVE \E fs : Adds(fs) \/ Removes(fs)
  BY <1>2, Clicks
<1>3. CASE ShowHideTablePart \/ OnLeftDownBeside \/ (\E f \in ToSet(Displayed) : OnRightDown(f))
  BY <1>3, SomeFade
<1>4. CASE SelectTablesFreed \/ LeftUpFirst
  BY <1>4 DEF SelectTablesFreed, LeftUpFirst, OnPage
<1>5. ASSUME NEW l \in Lists, NEW pos \in 0..Len(source) + Len(dest), OnBeginDrag(l, pos)
      PROVE  OnPage
  BY <1>5 DEF OnBeginDrag, OnPage
<1>6. ASSUME NEW where \in Lists \cup {"outside"},
             LeftUpNothing(where) \/ AddField(where) \/ RemoveField(where)
      PROVE  OnPage
  BY <1>6 DEF LeftUpNothing, AddField, RemoveField, OnPage
<1>7. ASSUME NEW where \in Lists \cup {"outside"}, ChangeField(where)
      PROVE  OnPage
  BY <1>7 DEF ChangeField, OnPage
<1>8. CASE UNCHANGED vars
  BY <1>8 DEF vars, OnPage
<1>9. CASE OnCloseTable
  BY <1>9, Closing DEF CloseFails, OnPage
<1>10. QED
  BY <1>1, <1>2, <1>3, <1>4, <1>5, <1>6, <1>7, <1>8, <1>9 DEF Next

LEMMA DiagramNext ==
  ASSUME TypeInv, DiagramInv, [Next]_vars
  PROVE  DiagramInv'
<1>1. ASSUME NEW ts, NEW fs, Selects(ts, fs)
      PROVE  DiagramInv'
  <2>1. InDiagram \subseteq InDiagram'
    BY <1>1, SelectedType
  <2>2. selected' \subseteq InDiagram'
    BY <1>1, SelectedShown, SelectedType
  <2>3. IsInjective(tables')
    BY <1>1, InjectiveConcat DEF Selects, TypeInv, DiagramInv
  <2>4. /\ "closed" \notin did /\ "closed" \notin did'
        /\ query' = query /\ sorts' = sorts
    BY <1>1 DEF Selects
  <2>5. ToSet(query) \subseteq InDiagram /\ ToSet(sorts) \subseteq {Bare(f) : f \in InDiagram}
    BY <2>4 DEF DiagramInv
  <2>6. QED
    BY <2>1, <2>2, <2>3, <2>4, <2>5 DEF DiagramInv
<1>2. ASSUME NEW fs, Adds(fs)
      PROVE  DiagramInv'
  <2>1. /\ fs \in Seq(Fields) /\ ToSet(fs) \subseteq ToSet(Displayed)
        /\ selected' = selected \cup ToSet(fs)
        /\ query' = query \o fs /\ sorts' = sorts \o Map(fs, Bare)
        /\ tables' = tables /\ did' = did
    BY <1>2 DEF Adds, AddFields
  <2>2. InDiagram' = InDiagram
    BY <2>1 DEF InDiagram
  <2>3. CASE "closed" \in did
    <3>1. ToSet(fs) = {}
      BY <2>1, <2>3, DisplayedType
    <3>2. fs = <<>>
      BY <2>1, <3>1, EmptyToSet
    <3>3. query = <<>> /\ ("parted" \notin did => selected = {})
      BY <2>3 DEF DiagramInv
    <3>4. <<>> \o <<>> = <<>>
      OBVIOUS
    <3>5. query' = <<>> /\ selected' = selected
      BY <2>1, <3>1, <3>2, <3>3, <3>4
    <3>6. QED
      BY <2>1, <2>3, <3>3, <3>5 DEF DiagramInv
  <2>4. CASE "closed" \notin did
    <3>1. ToSet(fs) \subseteq InDiagram
      BY <2>1, <2>4, DisplayedType DEF InDiagram
    <3>2. ToSet(query') = ToSet(query) \cup ToSet(fs)
      BY <2>1, ToSetConcat DEF TypeInv
    <3>3. Map(fs, Bare) \in Seq(ColumnNames) /\ ToSet(Map(fs, Bare)) = {Bare(f) : f \in ToSet(fs)}
      BY <2>1, Bares
    <3>4. ToSet(sorts') = ToSet(sorts) \cup ToSet(Map(fs, Bare))
      <4>1. sorts \in Seq(ColumnNames)
        BY DEF TypeInv
      <4>2. ToSet(sorts \o Map(fs, Bare)) = ToSet(sorts) \cup ToSet(Map(fs, Bare))
        BY <3>3, <4>1, ToSetConcat
      <4>3. QED
        BY <2>1, <4>2
    <3>5. QED
      BY <2>1, <2>2, <2>4, <3>1, <3>2, <3>3, <3>4 DEF DiagramInv
  <2>5. QED
    BY <2>3, <2>4
<1>3. ASSUME NEW fs, Removes(fs)
      PROVE  DiagramInv'
  <2>1. /\ selected' = selected \ fs
        /\ query' = Omit(query, fs) /\ sorts' = Omit(sorts, {Bare(f) : f \in fs})
        /\ tables' = tables /\ did' = did
    BY <1>3 DEF Removes, RemoveFields
  <2>2. InDiagram' = InDiagram
    BY <2>1 DEF InDiagram
  <2>3. query' \in Seq(Fields) /\ ToSet(query') = ToSet(query) \ fs
    BY <2>1, OmitProperties DEF TypeInv
  <2>4. ToSet(sorts') = ToSet(sorts) \ {Bare(f) : f \in fs}
    BY <2>1, OmitProperties DEF TypeInv
  <2>5. query = <<>> => query' = <<>>
    BY <2>3, ToSetEmpty, EmptyToSet
  <2>6. QED
    BY <2>1, <2>2, <2>3, <2>4, <2>5 DEF DiagramInv
<1>4. CASE Closes
  BY <1>4 DEF Closes, DropTableFromQeury, DiagramInv
<1>5. CASE OnPage
  BY <1>5 DEF OnPage, DiagramInv, InDiagram, diagramVars
<1>6. CASE Fades
  BY <1>6 DEF Fades, Fade, DiagramInv, InDiagram
<1>7. QED
  BY <1>1, <1>2, <1>3, <1>4, <1>5, <1>6, Steps

LEMMA DiagramInit == Init => DiagramInv
<1> SUFFICES ASSUME Init PROVE DiagramInv
  OBVIOUS
<1>1. tables = <<>> /\ query = <<>> /\ selected = {} /\ sorts = <<>> /\ did = {}
  BY DEF Init
<1>2. QED
  BY <1>1, ToSetEmpty DEF DiagramInv, IsInjective

LEMMA EmptyDiagram ==
  ASSUME TypeInv, tables = <<>>
  PROVE  InDiagram = {}
BY FieldsOfEmpty, ToSetEmpty DEF InDiagram

LEMMA QueryNext ==
  ASSUME TypeInv, DiagramInv, QueryFollowsDiagram, [Next]_vars
  PROVE  QueryFollowsDiagram'
<1> DEFINE Exact == "faded" \notin did' => ToSet(query') = selected' /\ IsInjective(query')
           Shows == selected' \subseteq ToSet(query')
<1>0. query \in Seq(Fields)
  BY DEF TypeInv
<1>1. ASSUME NEW ts, NEW fs, Selects(ts, fs), did' \cap {"again", "parted"} = {}
      PROVE  Shows /\ Exact
  <2>1. /\ did' = (did \ {"damaged"}) \cup (IF tables = <<>> THEN {} ELSE {"again"})
        /\ "closed" \notin did /\ query' = query
        /\ selected' = selected \cup
             {fs[SelectInSeq(fs, LAMBDA g : Bare(g) = Bare(f))] : f \in ToSet(query)}
    BY <1>1 DEF Selects
  <2>2. tables = <<>> /\ did \cap {"again", "parted"} = {}
    BY <1>1, <2>1
  <2>3. ToSet(query) = {} /\ selected = {}
    BY <2>1, <2>2, EmptyDiagram DEF DiagramInv
  <2>4. selected' = {}
    BY <2>1, <2>3
  <2>5. "faded" \in did => "faded" \in did'
    BY <2>1
  <2>6. QED
    BY <2>1, <2>2, <2>3, <2>4, <2>5 DEF QueryFollowsDiagram
<1>2. ASSUME NEW fs, Adds(fs), did' \cap {"again", "parted"} = {}
      PROVE  Shows /\ Exact
  <2>1. /\ fs \in Seq(Fields) /\ IsInjective(fs) /\ ToSet(fs) \cap selected = {}
        /\ selected' = selected \cup ToSet(fs)
        /\ query' = query \o fs /\ did' = did
    BY <1>2 DEF Adds, AddFields
  <2>2. ToSet(query') = ToSet(query) \cup ToSet(fs)
    BY <1>0, <2>1, ToSetConcat
  <2>3. Shows
    BY <1>2, <2>1, <2>2 DEF QueryFollowsDiagram
  <2>4. ASSUME "faded" \notin did'
        PROVE  ToSet(query') = selected' /\ IsInjective(query')
    <3>1. ToSet(query) = selected /\ IsInjective(query)
      BY <1>2, <2>1, <2>4 DEF QueryFollowsDiagram
    <3>2. IsInjective(query')
      BY <1>0, <2>1, <3>1, InjectiveConcat
    <3>3. QED
      BY <2>1, <2>2, <3>1, <3>2
  <2>5. QED
    BY <2>3, <2>4
<1>3. ASSUME NEW fs, Removes(fs), did' \cap {"again", "parted"} = {}
      PROVE  Shows /\ Exact
  <2>1. selected' = selected \ fs /\ query' = Omit(query, fs) /\ did' = did
    BY <1>3 DEF Removes, RemoveFields
  <2>2. ToSet(query') = ToSet(query) \ fs
    BY <1>0, <2>1, OmitProperties
  <2>3. Shows
    BY <1>3, <2>1, <2>2 DEF QueryFollowsDiagram
  <2>4. ASSUME "faded" \notin did'
        PROVE  ToSet(query') = selected' /\ IsInjective(query')
    <3>1. ToSet(query) = selected /\ IsInjective(query)
      BY <1>3, <2>1, <2>4 DEF QueryFollowsDiagram
    <3>2. IsInjective(query')
      BY <1>0, <2>1, <3>1, OmitProperties
    <3>3. QED
      BY <2>1, <2>2, <3>1, <3>2
  <2>5. QED
    BY <2>3, <2>4
<1>4. ASSUME Closes, did' \cap {"again", "parted"} = {}
      PROVE  Shows /\ Exact
  <2>1. query' = <<>> /\ selected' = {}
    BY <1>4 DEF Closes, DropTableFromQeury
  <2>2. QED
    BY <2>1, ToSetEmpty DEF IsInjective
<1>5. ASSUME OnPage, did' \cap {"again", "parted"} = {}
      PROVE  Shows /\ Exact
  <2>1. /\ query' = query /\ selected' = selected
        /\ did \cap {"again", "parted"} = {} /\ ("faded" \in did => "faded" \in did')
    BY <1>5 DEF OnPage, diagramVars
  <2>2. QED
    BY <2>1 DEF QueryFollowsDiagram
<1>6. ASSUME Fades, did' \cap {"again", "parted"} = {}
      PROVE  Shows /\ Exact
  <2>1. /\ query' = query /\ selected' \subseteq selected /\ "faded" \in did'
        /\ did \cap {"again", "parted"} = {}
    BY <1>6 DEF Fades, Fade
  <2>2. QED
    BY <2>1 DEF QueryFollowsDiagram
<1> HIDE DEF Shows, Exact
<1>7. did' \cap {"again", "parted"} = {} => Shows /\ Exact
  BY <1>1, <1>2, <1>3, <1>4, <1>5, <1>6, Steps
<1>8. QED
  BY <1>7 DEF QueryFollowsDiagram, Shows, Exact

-----------------------------------------------------------------------------
(* What can be sorted by. *)

UniqueIn(D) == {f \in D : \A g \in D : Bare(g) = Bare(f) => g = f}
NamesOf(fs) == {Bare(f) : f \in fs}

LEMMA UniqueNames ==
  ASSUME NEW D, NEW f \in D
  PROVE  f \in UniqueIn(D) <=> Bare(f) \in NamesOf(UniqueIn(D))
BY DEF UniqueIn, NamesOf

LEMMA SortSelects ==
  ASSUME NEW s \in Seq(ColumnNames), NEW q \in Seq(Fields), NEW D, NEW E,
         D \subseteq E, ToSet(s) \subseteq NamesOf(D), ToSet(q) \subseteq D,
         Filter(s, NamesOf(UniqueIn(D))) = Map(Filter(q, UniqueIn(D)), Bare)
  PROVE  Filter(s, NamesOf(UniqueIn(E))) = Map(Filter(q, UniqueIn(E)), Bare)
<1> DEFINE A == UniqueIn(D)
           C == UniqueIn(E)
           B == NamesOf(A)
           F == NamesOf(C)
<1>1. D \cap C \subseteq A
  BY DEF UniqueIn
<1>2. \A f \in D : f \in A <=> Bare(f) \in B
  BY UniqueNames
<1>3. \A f \in E : f \in C <=> Bare(f) \in F
  BY UniqueNames
<1>4. Filter(s, B) = Map(Filter(q, A), Bare)
  OBVIOUS
<1>5. \A x \in ToSet(s) : \E f \in D : x = Bare(f)
  BY DEF NamesOf
<1> HIDE DEF A, B, C, F
<1>6. ToSet(s) \cap F = ToSet(s) \cap (B \cap F)
  BY <1>1, <1>2, <1>3, <1>5
<1>7. Filter(s, F) = Filter(Filter(s, B), F)
  <2>1. Filter(s, F) = Filter(s, B \cap F)
    BY <1>6, FilterSame
  <2>2. QED
    BY <2>1, FilterTwice
<1>8. Filter(q, C) = Filter(Filter(q, A), C)
  <2>1. ToSet(q) \cap C = ToSet(q) \cap (A \cap C)
    BY <1>1
  <2>2. Filter(q, C) = Filter(q, A \cap C)
    BY <2>1, FilterSame
  <2>3. QED
    BY <2>2, FilterTwice
<1>9. Filter(q, A) \in Seq(Fields) /\ ToSet(Filter(q, A)) \subseteq D
  BY FilterType, FilterRange
<1>10. \A f \in ToSet(Filter(q, A)) : f \in C <=> Bare(f) \in F
  BY <1>3, <1>9
<1>11. Filter(Map(Filter(q, A), Bare), F) = Map(Filter(Filter(q, A), C), Bare)
  BY <1>9, <1>10, FilterBares
<1>12. Filter(s, F) = Map(Filter(q, C), Bare)
  BY <1>4, <1>7, <1>8, <1>11
<1>13. QED
  BY <1>12 DEF C, F

LEMMA SortAdds ==
  ASSUME NEW s \in Seq(ColumnNames), NEW q \in Seq(Fields), NEW fs \in Seq(Fields),
         NEW D, ToSet(fs) \subseteq D,
         Filter(s, NamesOf(UniqueIn(D))) = Map(Filter(q, UniqueIn(D)), Bare)
  PROVE  Filter(s \o Map(fs, Bare), NamesOf(UniqueIn(D))) =
           Map(Filter(q \o fs, UniqueIn(D)), Bare)
<1> DEFINE A == UniqueIn(D)
           B == NamesOf(A)
           m == Map(fs, Bare)
<1>1. m \in Seq(ColumnNames)
  BY Bares
<1>2. \A f \in ToSet(fs) : f \in A <=> Bare(f) \in B
  BY UniqueNames
<1>3. Filter(s, B) = Map(Filter(q, A), Bare)
  OBVIOUS
<1> HIDE DEF A, B
<1>4. Filter(m, B) = Map(Filter(fs, A), Bare)
  BY <1>2, FilterBares
<1> HIDE DEF m
<1>5. Filter(s \o m, B) = Filter(s, B) \o Filter(m, B)
  BY <1>1, FilterConcat
<1>6. Filter(q \o fs, A) = Filter(q, A) \o Filter(fs, A)
  BY FilterConcat
<1>7. Filter(q, A) \in Seq(Fields) /\ Filter(fs, A) \in Seq(Fields)
  BY FilterType
<1>8. Map(Filter(q \o fs, A), Bare) = Map(Filter(q, A), Bare) \o Map(Filter(fs, A), Bare)
  BY <1>6, <1>7, BaresConcat
<1>9. Filter(s \o m, B) = Map(Filter(q \o fs, A), Bare)
  BY <1>3, <1>4, <1>5, <1>8
<1>10. QED
  BY <1>9 DEF A, B, m

LEMMA SortRemoves ==
  ASSUME NEW s \in Seq(ColumnNames), NEW q \in Seq(Fields), NEW D, NEW fs \in SUBSET D,
         ToSet(q) \subseteq D,
         Filter(s, NamesOf(UniqueIn(D))) = Map(Filter(q, UniqueIn(D)), Bare)
  PROVE  Filter(Omit(s, NamesOf(fs)), NamesOf(UniqueIn(D))) =
           Map(Filter(Omit(q, fs), UniqueIn(D)), Bare)
<1> DEFINE A == UniqueIn(D)
           B == NamesOf(A)
           X == ToSet(s) \ NamesOf(fs)
           Y == ToSet(q) \ fs
           r == Filter(q, A)
<1>1. Filter(s, B) = Map(r, Bare)
  OBVIOUS
<1>2. r \in Seq(Fields) /\ ToSet(r) = ToSet(q) \cap A
  BY FilterType, FilterRange
<1>3. NamesOf(ToSet(r)) \subseteq ToSet(s)
  <2>1. ToSet(Map(r, Bare)) = NamesOf(ToSet(r))
    BY <1>2, Bares DEF NamesOf
  <2>2. ToSet(Filter(s, B)) = ToSet(s) \cap B
    BY FilterRange
  <2>3. QED
    BY <1>1, <2>1, <2>2
<1>4. ASSUME NEW f \in ToSet(r)
      PROVE  f \in Y <=> Bare(f) \in X
  <2>1. f \in ToSet(q) /\ f \in A
    BY <1>2
  <2>2. Bare(f) \in ToSet(s)
    BY <1>3 DEF NamesOf
  <2>3. Bare(f) \in NamesOf(fs) <=> f \in fs
    BY <2>1 DEF NamesOf, UniqueIn
  <2>4. QED
    BY <2>1, <2>2, <2>3
<1>5. Omit(s, NamesOf(fs)) = Filter(s, X) /\ Omit(q, fs) = Filter(q, Y)
  BY DEF Omit
<1> HIDE DEF A, B, X, Y, r
<1>6. Filter(Map(r, Bare), X) = Map(Filter(r, Y), Bare)
  BY <1>2, <1>4, FilterBares
<1>7. Filter(Filter(s, X), B) = Filter(Filter(s, B), X)
  <2>1. Filter(Filter(s, X), B) = Filter(s, X \cap B)
    BY FilterTwice
  <2>2. Filter(Filter(s, B), X) = Filter(s, B \cap X)
    BY FilterTwice
  <2>3. X \cap B = B \cap X
    OBVIOUS
  <2>4. QED
    BY <2>1, <2>2, <2>3
<1>8. Filter(Filter(q, Y), A) = Filter(r, Y)
  <2>1. Filter(Filter(q, Y), A) = Filter(q, Y \cap A)
    BY FilterTwice
  <2>2. Filter(Filter(q, A), Y) = Filter(q, A \cap Y)
    BY FilterTwice
  <2>3. Y \cap A = A \cap Y
    OBVIOUS
  <2>4. QED
    BY <2>1, <2>2, <2>3 DEF r
<1>9. Filter(Omit(s, NamesOf(fs)), B) = Map(Filter(Omit(q, fs), A), Bare)
  BY <1>1, <1>5, <1>6, <1>7, <1>8
<1>10. QED
  BY <1>9 DEF A, B

LEMMA SortUnique ==
  SortFollowsQuery <=>
    ("closed" \notin did =>
       Filter(sorts, NamesOf(UniqueIn(InDiagram))) = Map(Filter(query, UniqueIn(InDiagram)), Bare))
<1>1. Unique = UniqueIn(InDiagram) /\ {Bare(f) : f \in Unique} = NamesOf(UniqueIn(InDiagram))
  BY DEF Unique, UniqueIn, InDiagram, NamesOf
<1>2. QED
  BY <1>1 DEF SortFollowsQuery

LEMMA SortUniqueNext ==
  SortFollowsQuery' <=>
    ("closed" \notin did' =>
       Filter(sorts', NamesOf(UniqueIn(InDiagram'))) =
         Map(Filter(query', UniqueIn(InDiagram')), Bare))
<1>1. /\ Unique' = UniqueIn(InDiagram')
      /\ {Bare(f) : f \in Unique'} = NamesOf(UniqueIn(InDiagram'))
  BY DEF Unique, UniqueIn, InDiagram, NamesOf
<1>2. QED
  BY <1>1 DEF SortFollowsQuery

LEMMA SortNext ==
  ASSUME TypeInv, DiagramInv, SortFollowsQuery, [Next]_vars
  PROVE  SortFollowsQuery'
<1> DEFINE Sorted == Filter(sorts', NamesOf(UniqueIn(InDiagram'))) =
                       Map(Filter(query', UniqueIn(InDiagram')), Bare)
<1>0. sorts \in Seq(ColumnNames) /\ query \in Seq(Fields)
  BY DEF TypeInv
<1>1. "closed" \notin did =>
        /\ Filter(sorts, NamesOf(UniqueIn(InDiagram))) =
             Map(Filter(query, UniqueIn(InDiagram)), Bare)
        /\ ToSet(query) \subseteq InDiagram /\ ToSet(sorts) \subseteq NamesOf(InDiagram)
  BY SortUnique DEF DiagramInv, NamesOf
<1>2. ASSUME NEW ts, NEW fs, Selects(ts, fs)
      PROVE  Sorted
  <2>1. "closed" \notin did /\ sorts' = sorts /\ query' = query
    BY <1>2 DEF Selects
  <2>2. InDiagram \subseteq InDiagram'
    BY <1>2, SelectedType
  <2>3. Filter(sorts, NamesOf(UniqueIn(InDiagram'))) =
          Map(Filter(query, UniqueIn(InDiagram')), Bare)
    BY <1>0, <1>1, <2>1, <2>2, SortSelects
  <2>4. QED
    BY <2>1, <2>3
<1>3. ASSUME NEW fs, Adds(fs), "closed" \notin did'
      PROVE  Sorted
  <2>1. /\ fs \in Seq(Fields) /\ query' = query \o fs /\ sorts' = sorts \o Map(fs, Bare)
        /\ did' = did /\ tables' = tables /\ ToSet(fs) \subseteq ToSet(Displayed)
    BY <1>3 DEF Adds, AddFields
  <2>2. ToSet(fs) \subseteq InDiagram
    BY <1>3, <2>1, DisplayedType DEF InDiagram
  <2>3. InDiagram' = InDiagram
    BY <2>1 DEF InDiagram
  <2>4. Filter(sorts \o Map(fs, Bare), NamesOf(UniqueIn(InDiagram))) =
          Map(Filter(query \o fs, UniqueIn(InDiagram)), Bare)
    BY <1>0, <1>1, <1>3, <2>1, <2>2, SortAdds
  <2>5. QED
    BY <2>1, <2>3, <2>4
<1>4. ASSUME NEW fs, Removes(fs), "closed" \notin did'
      PROVE  Sorted
  <2>1. /\ query' = Omit(query, fs) /\ sorts' = Omit(sorts, NamesOf(fs))
        /\ did' = did /\ tables' = tables /\ fs \subseteq ToSet(Displayed)
    BY <1>4 DEF Removes, RemoveFields, NamesOf
  <2>2. fs \in SUBSET InDiagram
    BY <1>4, <2>1, DisplayedType DEF InDiagram
  <2>3. InDiagram' = InDiagram
    BY <2>1 DEF InDiagram
  <2>4. Filter(Omit(sorts, NamesOf(fs)), NamesOf(UniqueIn(InDiagram))) =
          Map(Filter(Omit(query, fs), UniqueIn(InDiagram)), Bare)
    BY <1>0, <1>1, <1>4, <2>1, <2>2, SortRemoves
  <2>5. QED
    BY <2>1, <2>3, <2>4
<1>5. ASSUME Fades, "closed" \notin did'
      PROVE  Sorted
  <2>1. UNCHANGED <<tables, query, sorts>> /\ "closed" \notin did
    BY <1>5 DEF Fades, Fade
  <2>2. QED
    BY <1>1, <2>1 DEF InDiagram
<1>6. ASSUME OnPage, "closed" \notin did'
      PROVE  Sorted
  <2>1. UNCHANGED diagramVars /\ "closed" \notin did
    BY <1>6 DEF OnPage
  <2>2. QED
    BY <1>1, <2>1 DEF diagramVars, InDiagram
<1> HIDE DEF Sorted
<1>7. "closed" \notin did' => Sorted
  <2>1. ~(Closes /\ "closed" \notin did')
    BY DEF Closes
  <2>2. QED
    BY <1>2, <1>3, <1>4, <1>5, <1>6, <2>1, Steps
<1>8. QED
  BY <1>7, SortUniqueNext DEF Sorted

-----------------------------------------------------------------------------
(* The lists of the page and of the document. *)

Named(list, names) == Map(list, Name) = names
HasAt(list, pos, f) == pos < Len(list) /\ list[pos + 1].name = f

LEMMA RemoveName ==
  ASSUME NEW s \in Seq(Fields), IsInjective(s), NEW k \in 1..Len(s), NEW f, s[k] = f
  PROVE  /\ Omit(s, {f}) = RemoveAt(s, k)
         /\ ToSet(RemoveAt(s, k)) = ToSet(s) \ {f}
         /\ IsInjective(RemoveAt(s, k)) /\ Len(RemoveAt(s, k)) = Len(s) - 1
<1>1. /\ Omit(s, {s[k]}) = RemoveAt(s, k)
      /\ ToSet(RemoveAt(s, k)) = ToSet(s) \ {s[k]}
      /\ IsInjective(RemoveAt(s, k)) /\ Len(RemoveAt(s, k)) = Len(s) - 1
  BY RemoveProperties
<1>2. QED
  BY <1>1

(* An item leaves a list of the page, and its column that of the document.   *)
LEMMA MoveOut ==
  ASSUME NEW list \in Seq(Item), NEW names, Named(list, names), IsInjective(names),
         NEW pos \in Nat, NEW f, HasAt(list, pos, f)
  PROVE  /\ Map(DeleteItem(list, pos), Name) = Omit(names, {f})
         /\ f \in ToSet(names) /\ ToSet(Omit(names, {f})) = ToSet(names) \ {f}
         /\ IsInjective(Omit(names, {f})) /\ Len(names) = Len(Omit(names, {f})) + 1
         /\ list[pos + 1] \in ToSet(list)
         /\ ToSet(DeleteItem(list, pos)) \subseteq ToSet(list)
<1> DEFINE k == pos + 1
<1>0. pos < Len(list) /\ list[pos + 1].name = f
  BY DEF HasAt
<1>1. k \in 1..Len(list)
  BY <1>0
<1>2. /\ names \in Seq(Fields) /\ Len(names) = Len(list)
      /\ \A i \in 1..Len(list) : names[i] = list[i].name
  BY Names DEF Named
<1>3. k \in 1..Len(names) /\ names[k] = f
  BY <1>0, <1>1, <1>2
<1>4. DeleteItem(list, pos) = RemoveAt(list, k)
  BY <1>0, DeleteItemType
<1> HIDE DEF k
<1>5. Map(RemoveAt(list, k), Name) = RemoveAt(names, k)
  BY <1>1, RemoveNames DEF Named
<1>6. /\ Omit(names, {f}) = RemoveAt(names, k)
      /\ ToSet(RemoveAt(names, k)) = ToSet(names) \ {f}
      /\ IsInjective(RemoveAt(names, k)) /\ Len(RemoveAt(names, k)) = Len(names) - 1
  BY <1>2, <1>3, RemoveName
<1>7. Len(names) = Len(RemoveAt(names, k)) + 1
  BY <1>2, <1>3, <1>6
<1>8. f \in ToSet(names)
  <2>1. DOMAIN names = 1..Len(names)
    BY <1>2
  <2>2. QED
    BY <1>3, <2>1 DEF ToSet
<1>9. list[k] \in ToSet(list)
  <2>1. DOMAIN list = 1..Len(list)
    OBVIOUS
  <2>2. QED
    BY <1>1, <2>1 DEF ToSet
<1>10. ToSet(RemoveAt(list, k)) \subseteq ToSet(list)
  BY <1>1, RemoveProperties
<1>11. QED
  BY <1>4, <1>5, <1>6, <1>7, <1>8, <1>9, <1>10 DEF k

(* An item enters a list of the page, and its column that of the document.   *)
LEMMA MoveIn ==
  ASSUME NEW list \in Seq(Item), NEW names, Named(list, names), IsInjective(names),
         NEW x \in Item, x.name \notin ToSet(names), NEW pos \in Nat, pos <= Len(list)
  PROVE  /\ Fits(names, pos)
         /\ Map(InsertItem(list, pos, x), Name) = Insert(names, pos, x.name)
         /\ ToSet(Insert(names, pos, x.name)) = ToSet(names) \cup {x.name}
         /\ IsInjective(Insert(names, pos, x.name))
         /\ ToSet(InsertItem(list, pos, x)) = ToSet(list) \cup {x}
<1> DEFINE k == pos + 1
<1>1. k \in 1..Len(list) + 1
  OBVIOUS
<1>2. names \in Seq(Fields) /\ Len(names) = Len(list)
  BY Names DEF Named
<1>3. Fits(names, pos) /\ k \in 1..Len(names) + 1
  BY <1>1, <1>2 DEF Fits
<1>4. InsertItem(list, pos, x) = InsertAt(list, k, x)
  BY InsertItemType
<1>5. Insert(names, pos, x.name) = InsertAt(names, k, x.name)
  BY <1>3 DEF Insert
<1>6. x.name \in Fields
  BY DEF Item
<1> HIDE DEF k
<1>7. Map(InsertAt(list, k, x), Name) = InsertAt(names, k, x.name)
  BY <1>1, InsertNames DEF Named
<1>8. /\ ToSet(InsertAt(names, k, x.name)) = ToSet(names) \cup {x.name}
      /\ IsInjective(InsertAt(names, k, x.name))
  BY <1>2, <1>3, <1>6, InsertProperties
<1>9. ToSet(InsertAt(list, k, x)) = ToSet(list) \cup {x}
  BY <1>1, InsertProperties
<1>10. QED
  BY <1>3, <1>4, <1>5, <1>7, <1>8, <1>9

PageInv == ListsInv /\ ClauseInv /\ DragInv /\ PlaceInv

LEMMA SoundLists ==
  ASSUME TypeInv, PageInv, Sound
  PROVE  /\ Map(source, Name) = all /\ Map(dest, Name) = groups
         /\ IsInjective(all) /\ IsInjective(groups)
         /\ ToSet(all) \cap ToSet(groups) = {}
         /\ ToSet(all) \cup ToSet(groups) = InDiagram
         /\ Len(source) = Len(all) /\ Len(dest) = Len(groups)
<1>1. source \in Seq(Item) /\ dest \in Seq(Item)
  BY DEF TypeInv
<1>2. /\ Map(source, Name) = all /\ Map(dest, Name) = groups
      /\ IsInjective(all) /\ IsInjective(groups)
      /\ ToSet(all) \cap ToSet(groups) = {}
      /\ ToSet(all) \cup ToSet(groups) = InDiagram
  BY DEF PageInv, ListsInv
<1>3. Len(Map(source, Name)) = Len(source) /\ Len(Map(dest, Name)) = Len(dest)
  BY <1>1, Names
<1>4. QED
  BY <1>2, <1>3

LEMMA PageInit == Init => PageInv
<1> SUFFICES ASSUME Init PROVE PageInv
  OBVIOUS
<1>1. /\ tables = <<>> /\ source = <<>> /\ dest = <<>> /\ all = <<>> /\ groups = <<>>
      /\ clause = <<>> /\ drag = NoDrag
  BY DEF Init
<1>2. InDiagram = {} /\ ToSet(<<>>) = {}
  BY <1>1, FieldsOfEmpty, ToSetEmpty DEF InDiagram
<1>3. Map(<<>>, Name) = <<>>
  BY DEF Map
<1>4. IsInjective(<<>>)
  BY DEF IsInjective
<1>5. drag.on = FALSE
  BY <1>1 DEF NoDrag
<1>6. QED
  BY <1>1, <1>2, <1>3, <1>4, <1>5 DEF PageInv, ListsInv, ClauseInv, DragInv, PlaceInv

LEMMA PageSame ==
  ASSUME PageInv, UNCHANGED <<tables, pageVars, docVars, fault>>,
         did' = did \/ did' = did \cup {"faded"},
         drag'.on => drag.on /\ drag'.from = drag.from /\ drag'.item = drag.item
                     /\ drag'.itemPos = drag.itemPos /\ drag'.sourcePos = drag.sourcePos
  PROVE  PageInv'
<1>1. /\ tables' = tables /\ source' = source /\ dest' = dest /\ all' = all
      /\ groups' = groups /\ clause' = clause /\ fault' = fault
  BY DEF pageVars, docVars
<1>2. /\ Sound' => Sound
      /\ "damaged" \notin did' => "damaged" \notin did
      /\ did' \subseteq {"faded"} => did \subseteq {"faded"}
  BY <1>1 DEF Sound
<1>3. ListsInv'
  BY <1>1, <1>2 DEF PageInv, ListsInv, InDiagram
<1>4. ClauseInv'
  BY <1>1, <1>2 DEF PageInv, ClauseInv
<1>5. DragInv'
  BY <1>1, <1>2 DEF PageInv, DragInv
<1>6. PlaceInv'
  BY <1>1, <1>2 DEF PageInv, PlaceInv, AtPlace
<1>7. QED
  BY <1>3, <1>4, <1>5, <1>6 DEF PageInv

(* A step that leaves what the invariants say nothing about.                 *)
LEMMA PageLost ==
  ASSUME ~Sound'
  PROVE  PageInv'
<1>1. ~(did' \subseteq {"faded"} /\ fault' = "none")
  BY DEF Sound
<1>2. QED
  BY <1>1 DEF PageInv, ListsInv, ClauseInv, DragInv, PlaceInv

LEMMA PageSelects ==
  ASSUME TypeInv, DiagramInv, PageInv, NEW ts, NEW fs, Selects(ts, fs)
  PROVE  PageInv'
<1>1. /\ ts \in Seq(Tables) /\ fs = FieldsOf(tables \o ts)
      /\ tables' = tables \o ts /\ IsInjective(tables \o ts)
      /\ source' = Items(fs) \o source /\ all' = all \o fs /\ clause' = <<>>
      /\ did' = (did \ {"damaged"}) \cup (IF tables = <<>> THEN {} ELSE {"again"})
      /\ dest' = dest /\ groups' = groups /\ drag' = drag /\ fault' = fault
  <2>1. IsInjective(tables \o ts)
    BY InjectiveConcat DEF TypeInv, DiagramInv, Selects
  <2>2. QED
    BY <2>1 DEF Selects
<1>2. tables \o ts \in Seq(Tables) /\ fs \in Seq(Fields) /\ ToSet(fs) = InDiagram'
  BY SelectedType
<1>3. CASE ~Sound'
  BY <1>3, PageLost
<1>4. CASE Sound'
  <2>1. tables = <<>> /\ Sound
    BY <1>1, <1>4 DEF Sound
  <2>2. InDiagram = {}
    BY <2>1, EmptyDiagram
  <2>3. ToSet(all) = {} /\ ToSet(groups) = {}
    BY <2>1, <2>2, SoundLists
  <2>4. all = <<>> /\ groups = <<>>
    BY <2>3, EmptyToSet DEF TypeInv
  <2>5. Len(source) = 0 /\ Len(dest) = 0
    BY <2>1, <2>4, SoundLists
  <2>6. source = <<>> /\ dest = <<>>
    BY <2>5 DEF TypeInv
  <2>7. /\ Items(fs) \in Seq(Item) /\ Len(Items(fs)) = Len(fs)
        /\ \A i \in 1..Len(fs) : Items(fs)[i] = [name |-> fs[i], data |-> i - 1]
        /\ Map(Items(fs), Name) = fs
    BY <1>2, ItemsOf
  <2>8. source' = Items(fs) /\ all' = fs
    <3>1. Items(fs) \o <<>> = Items(fs) /\ <<>> \o fs = fs
      BY <1>2, <2>7
    <3>2. QED
      BY <1>1, <2>4, <2>6, <3>1
  <2>9. dest' = <<>> /\ groups' = <<>> /\ clause' = <<>>
    BY <1>1, <2>4, <2>6
  <2>10. IsInjective(fs) /\ IsInjective(<<>>)
    <3>1. IsInjective(fs)
      BY <1>1, <1>2, FieldsOfProperties
    <3>2. QED
      BY <3>1 DEF IsInjective
  <2>11. Map(<<>>, Name) = <<>> /\ ToSet(<<>>) = {}
    BY ToSetEmpty DEF Map
  <2>12. ListsInv'
    BY <1>2, <2>7, <2>8, <2>9, <2>10, <2>11 DEF ListsInv
  <2>13. ClauseInv'
    BY <2>9 DEF ClauseInv
  <2>14. drag.on = FALSE
    <3> SUFFICES ASSUME drag.on PROVE FALSE
      BY DEF TypeInv, DragType
    <3>1. drag.from \in Lists /\ drag.itemPos \in Nat /\ drag.sourcePos \in Nat
      BY DEF TypeInv, DragType
    <3>2. drag.from = "source" => drag.itemPos < Len(source)
      BY <2>1 DEF PageInv, DragInv
    <3>3. drag.from = "dest" => drag.sourcePos < Len(dest)
      BY <2>1 DEF PageInv, DragInv
    <3>4. QED
      BY <2>5, <3>1, <3>2, <3>3 DEF Lists
  <2>15. DragInv'
    BY <1>1, <2>14 DEF DragInv
  <2>16. PlaceInv'
    <3>1. FieldsOf(tables') = fs /\ Len(fs) \in Nat
      BY <1>1, <1>2
    <3>2. ASSUME NEW item \in ToSet(Items(fs))
          PROVE  item.data < Len(fs) /\ fs[item.data + 1] = item.name
      <4>1. DOMAIN Items(fs) = 1..Len(fs)
        BY <2>7
      <4>2. PICK i \in 1..Len(fs) : item = Items(fs)[i]
        BY <4>1 DEF ToSet
      <4>3. item = [name |-> fs[i], data |-> i - 1]
        BY <2>7, <4>2
      <4>4. item.name = fs[i] /\ item.data = i - 1
        BY <4>3
      <4>5. i - 1 < Len(fs) /\ (i - 1) + 1 = i
        BY <3>1
      <4>6. QED
        BY <4>4, <4>5
    <3>3. QED
      BY <2>8, <2>9, <2>11, <3>1, <3>2 DEF PlaceInv, AtPlace
  <2>17. QED
    BY <2>12, <2>13, <2>15, <2>16 DEF PageInv
<1>5. QED
  BY <1>3, <1>4

LEMMA PageBeginDrag ==
  ASSUME TypeInv, PageInv, NEW l \in Lists, NEW pos \in Nat, OnBeginDrag(l, pos)
  PROVE  PageInv'
<1> DEFINE item == ListNamed(l)[pos + 1]
<1>1. /\ pos < Len(ListNamed(l))
      /\ drag' = [drag EXCEPT !.from = l, !.item = item.name,
                              !.on = TRUE, !.captured = TRUE,
                              !.itemPos = IF l = "source" THEN pos ELSE item.data,
                              !.sourcePos = IF l = "dest" THEN pos ELSE @]
      /\ tables' = tables /\ source' = source /\ dest' = dest /\ all' = all
      /\ groups' = groups /\ clause' = clause /\ did' = did /\ fault' = fault
  BY DEF OnBeginDrag, diagramVars, pageVars, docVars
<1>2. ListNamed(l) \in Seq(Item)
  BY DEF ListNamed, TypeInv
<1>3. item = [name |-> item.name, data |-> item.data]
  BY <1>1, <1>2, ItemAt
<1>4. /\ l = "source" => item = source[pos + 1]
      /\ l = "dest" => item = dest[pos + 1]
  BY DEF ListNamed
<1> HIDE DEF item
<1>5. /\ drag'.from = l /\ drag'.item = item.name
      /\ l = "source" => drag'.itemPos = pos
      /\ l = "dest" => drag'.itemPos = item.data /\ drag'.sourcePos = pos
  BY <1>1 DEF TypeInv, DragType
<1>6. ListsInv' /\ ClauseInv' /\ PlaceInv'
  BY <1>1 DEF PageInv, ListsInv, ClauseInv, PlaceInv, Sound, InDiagram, AtPlace
<1>7. CASE l = "source"
  <2>1. pos < Len(source')
    BY <1>1, <1>7 DEF ListNamed
  <2>2. source'[drag'.itemPos + 1].name = drag'.item
    BY <1>1, <1>4, <1>5, <1>7
  <2>3. DragInv'
    BY <1>5, <1>7, <2>1, <2>2 DEF DragInv
  <2>4. QED
    BY <1>6, <2>3 DEF PageInv
<1>8. CASE l = "dest"
  <2>1. pos < Len(dest')
    BY <1>1, <1>8 DEF ListNamed
  <2>2. dest'[drag'.sourcePos + 1] = [name |-> drag'.item, data |-> drag'.itemPos]
    BY <1>1, <1>3, <1>4, <1>5, <1>8
  <2>3. DragInv'
    BY <1>5, <1>8, <2>1, <2>2 DEF DragInv
  <2>4. QED
    BY <1>6, <2>3 DEF PageInv
<1>9. QED
  BY <1>7, <1>8 DEF Lists

LEMMA DropType ==
  ASSUME NEW where, NEW n \in Nat, NEW list, Len(list) = n, NEW pos \in DropPositions(where, list)
  PROVE  pos \in Nat /\ pos <= n
BY DEF DropPositions

LEMMA Dropping ==
  ASSUME TypeInv, NEW where, NEW from, NEW onto, Finishes(where, from, onto), Sound'
  PROVE  /\ drag.on /\ drag.from = from /\ drag.item \in Fields
         /\ drag.itemPos \in Nat /\ drag.sourcePos \in Nat
         /\ did \subseteq did' => Sound
<1>1. drag.on /\ drag.from = from /\ fault = "none"
  BY DEF Finishes, LeftUp, Running
<1>2. QED
  BY <1>1 DEF TypeInv, DragType, Sound

LEMMA PageAddField ==
  ASSUME TypeInv, PageInv, NEW where, AddField(where)
  PROVE  PageInv'
<1>1. CASE ~Sound'
  BY <1>1, PageLost
<1>2. CASE Sound'
  <2> DEFINE p == drag.itemPos
             f == drag.item
             x == [name |-> f, data |-> GetItemData(source, p)]
  <2>1. /\ Finishes(where, "source", {"dest"}) /\ source' = DeleteItem(source, p)
        /\ drag' = DragEnds /\ tables' = tables /\ did' = did
    BY DEF AddField, diagramVars
  <2>2. PICK pos \in DropPositions(where, dest) :
          /\ dest' = InsertItem(dest, pos, x)
          /\ all' = Without(all, f)
          /\ groups' = Insert(groups, pos, f)
          /\ clause' = IF "damaged" \in did THEN clause ELSE groups'
    BY DEF AddField
  <2>3. drag.on /\ drag.from = "source" /\ f \in Fields /\ p \in Nat /\ Sound
    BY <1>2, <2>1, Dropping
  <2>4. p < Len(source) /\ source[p + 1].name = f
    BY <2>3 DEF PageInv, DragInv
  <2>5. /\ Named(source, all) /\ Named(dest, groups) /\ IsInjective(all) /\ IsInjective(groups)
        /\ ToSet(all) \cap ToSet(groups) = {} /\ ToSet(all) \cup ToSet(groups) = InDiagram
    BY <2>3, SoundLists DEF Named
  <2>6. x = source[p + 1] /\ x \in Item
    <3>1. source[p + 1] = [name |-> source[p + 1].name, data |-> source[p + 1].data]
          /\ source[p + 1] \in Item
      BY <2>3, <2>4, ItemAt DEF TypeInv
    <3>2. GetItemData(source, p) = source[p + 1].data
      BY <2>4 DEF GetItemData
    <3>3. QED
      BY <2>4, <3>1, <3>2
  <2>7. x.name = f
    OBVIOUS
  <2>8. source \in Seq(Item) /\ dest \in Seq(Item) /\ Len(dest) \in Nat
    BY DEF TypeInv
  <2>9. pos \in Nat /\ pos <= Len(dest)
    BY <2>8, DropType
  <2>0. HasAt(source, p, f)
    BY <2>4 DEF HasAt
  <2> HIDE DEF p, f, x
  <2>10. /\ Map(DeleteItem(source, p), Name) = Omit(all, {f})
         /\ f \in ToSet(all) /\ ToSet(Omit(all, {f})) = ToSet(all) \ {f}
         /\ IsInjective(Omit(all, {f}))
         /\ source[p + 1] \in ToSet(source)
         /\ ToSet(DeleteItem(source, p)) \subseteq ToSet(source)
    <3>1. p \in Nat /\ source \in Seq(Item) /\ Named(source, all) /\ IsInjective(all)
      BY <2>3, <2>5, <2>8
    <3>2. QED
      BY <2>0, <3>1, MoveOut
  <2>11. x.name \notin ToSet(groups)
    BY <2>5, <2>7, <2>10
  <2>12. /\ Map(InsertItem(dest, pos, x), Name) = Insert(groups, pos, x.name)
         /\ ToSet(Insert(groups, pos, x.name)) = ToSet(groups) \cup {x.name}
         /\ IsInjective(Insert(groups, pos, x.name))
         /\ ToSet(InsertItem(dest, pos, x)) = ToSet(dest) \cup {x}
    BY <2>5, <2>6, <2>8, <2>9, <2>11, MoveIn
  <2>13. all' = Omit(all, {f}) /\ groups' = Insert(groups, pos, x.name)
    BY <2>2, <2>7 DEF Without
  <2>14. Map(source', Name) = all' /\ Map(dest', Name) = groups'
    BY <2>1, <2>2, <2>10, <2>12, <2>13
  <2>15. IsInjective(all') /\ IsInjective(groups')
    BY <2>10, <2>12, <2>13
  <2>16. ToSet(all') = ToSet(all) \ {f} /\ ToSet(groups') = ToSet(groups) \cup {f}
    BY <2>7, <2>10, <2>12, <2>13
  <2>17. InDiagram' = InDiagram
    BY <2>1 DEF InDiagram
  <2>18. ListsInv'
    BY <2>5, <2>10, <2>14, <2>15, <2>16, <2>17 DEF ListsInv
  <2>19. ClauseInv'
    BY <2>1, <2>2 DEF ClauseInv
  <2>20. DragInv'
    BY <2>1, DragEndsType DEF DragInv
  <2>21. ToSet(source') \cup ToSet(dest') \subseteq ToSet(source) \cup ToSet(dest)
    BY <2>1, <2>2, <2>6, <2>10, <2>12
  <2>22. PlaceInv'
    BY <2>1, <2>3, <2>21 DEF PageInv, PlaceInv, AtPlace, Sound
  <2>23. QED
    BY <2>18, <2>19, <2>20, <2>22 DEF PageInv
<1>3. QED
  BY <1>1, <1>2

LEMMA PageRemoveField ==
  ASSUME TypeInv, PageInv, NEW where, RemoveField(where)
  PROVE  PageInv'
<1>1. CASE ~Sound'
  BY <1>1, PageLost
<1>2. CASE Sound'
  <2> DEFINE p == drag.sourcePos
             f == drag.item
             d == drag.itemPos
             x == [name |-> f, data |-> d]
  <2>1. /\ Finishes(where, "dest", {"source", "none"}) /\ dest' = DeleteItem(dest, p)
        /\ source' = InsertItem(source, GetItemData(dest, p),
                       [name |-> f, data |-> GetItemData(dest, p)])
        /\ DeleteGroupByField(f, GetItemData(dest, p))
        /\ clause' = IF groups' = <<>> \/ "damaged" \in did THEN clause ELSE groups'
        /\ drag' = DragEnds /\ tables' = tables /\ did' = did
    BY DEF RemoveField, diagramVars
  <2>2. drag.on /\ drag.from = "dest" /\ f \in Fields /\ p \in Nat /\ d \in Nat /\ Sound
    BY <1>2, <2>1, Dropping
  <2>3. p < Len(dest) /\ dest[p + 1] = x
    BY <2>2 DEF PageInv, DragInv
  <2>4. x.name = f /\ x.data = d
    OBVIOUS
  <2>5. GetItemData(dest, p) = d
    BY <2>3, <2>4 DEF GetItemData
  <2>6. x \in Item
    BY <2>2 DEF Item
  <2>7. source' = InsertItem(source, d, x) /\ DeleteGroupByField(f, d)
    BY <2>1, <2>5
  <2>8. /\ Named(source, all) /\ Named(dest, groups) /\ IsInjective(all) /\ IsInjective(groups)
        /\ ToSet(all) \cap ToSet(groups) = {} /\ ToSet(all) \cup ToSet(groups) = InDiagram
        /\ Len(source) = Len(all)
    BY <2>2, SoundLists DEF Named
  <2>9. source \in Seq(Item) /\ dest \in Seq(Item)
    BY DEF TypeInv
  <2> HIDE DEF p, f, d, x
  <2>10. /\ groups' = Omit(groups, {f}) /\ all' = Insert(all, d, f) /\ Fits(all, d)
    BY <1>2, <2>7 DEF DeleteGroupByField, Without, Sound
  <2>11. d <= Len(source)
    BY <2>8, <2>10 DEF Fits
  <2>12. HasAt(dest, p, f)
    BY <2>3, <2>4 DEF HasAt
  <2>13. /\ Map(DeleteItem(dest, p), Name) = Omit(groups, {f})
         /\ f \in ToSet(groups) /\ ToSet(Omit(groups, {f})) = ToSet(groups) \ {f}
         /\ IsInjective(Omit(groups, {f})) /\ Len(groups) = Len(Omit(groups, {f})) + 1
         /\ dest[p + 1] \in ToSet(dest)
         /\ ToSet(DeleteItem(dest, p)) \subseteq ToSet(dest)
    BY <2>2, <2>8, <2>9, <2>12, MoveOut
  <2>14. x.name \notin ToSet(all)
    BY <2>4, <2>8, <2>13
  <2>15. /\ Map(InsertItem(source, d, x), Name) = Insert(all, d, x.name)
         /\ ToSet(Insert(all, d, x.name)) = ToSet(all) \cup {x.name}
         /\ IsInjective(Insert(all, d, x.name))
         /\ ToSet(InsertItem(source, d, x)) = ToSet(source) \cup {x}
    BY <2>2, <2>6, <2>8, <2>9, <2>11, <2>14, MoveIn
  <2>16. Map(source', Name) = all' /\ Map(dest', Name) = groups'
    BY <2>1, <2>4, <2>7, <2>10, <2>13, <2>15
  <2>17. IsInjective(all') /\ IsInjective(groups')
    BY <2>4, <2>10, <2>13, <2>15
  <2>18. ToSet(all') = ToSet(all) \cup {f} /\ ToSet(groups') = ToSet(groups) \ {f}
    BY <2>4, <2>10, <2>13, <2>15
  <2>19. InDiagram' = InDiagram
    BY <2>1 DEF InDiagram
  <2>20. ListsInv'
    BY <2>8, <2>13, <2>16, <2>17, <2>18, <2>19 DEF ListsInv
  <2>21. ClauseInv'
    <3> SUFFICES ASSUME "damaged" \notin did, clause' # groups'
                 PROVE  groups' = <<>> /\ Len(clause') = 1
      BY <2>1 DEF ClauseInv
    <3>1. groups' = <<>> /\ clause' = clause
      BY <2>1
    <3>2. Len(groups) = 1 /\ groups # <<>>
      BY <2>10, <2>13, <3>1
    <3>3. clause = groups
      BY <2>2, <3>2 DEF PageInv, ClauseInv
    <3>4. QED
      BY <3>1, <3>2, <3>3
  <2>22. DragInv'
    BY <2>1, DragEndsType DEF DragInv
  <2>23. ToSet(source') \cup ToSet(dest') \subseteq ToSet(source) \cup ToSet(dest)
    BY <2>1, <2>3, <2>7, <2>13, <2>15
  <2>24. PlaceInv'
    BY <2>1, <2>2, <2>23 DEF PageInv, PlaceInv, AtPlace, Sound
  <2>25. QED
    BY <2>20, <2>21, <2>22, <2>24 DEF PageInv
<1>3. QED
  BY <1>1, <1>2

LEMMA PageChangeField ==
  ASSUME TypeInv, PageInv, NEW where, ChangeField(where)
  PROVE  PageInv'
<1>1. CASE ~Sound'
  BY <1>1, PageLost
<1>2. CASE Sound'
  <2> DEFINE p == drag.itemPos
             f == drag.item
             x == [name |-> f, data |-> GetItemData(source, p)]
             rest == DeleteItem(dest, p)
             others == Omit(groups, {f})
  <2>1. /\ Finishes(where, "dest", {"dest"}) /\ drag' = DragEnds
        /\ tables' = tables /\ source' = source /\ all' = all
        /\ did' = did \cup {"damaged"}
                      \cup (IF drag.itemPos = drag.sourcePos THEN {} ELSE {"lost"})
    BY DEF ChangeField, diagramVars
  <2>2. PICK pos \in DropPositions(where, rest) :
          dest' = InsertItem(rest, pos, x) /\ groups' = Insert(others, pos, f)
    BY DEF ChangeField, Without
  <2>3. drag.on /\ drag.from = "dest" /\ f \in Fields /\ p \in Nat /\ Sound
    BY <1>2, <2>1, Dropping
  <2>4. drag.sourcePos = p
    BY <1>2, <2>1 DEF Sound
  <2>5. HasAt(dest, p, f)
    <3>1. p < Len(dest) /\ dest[p + 1] = [name |-> f, data |-> p]
      BY <2>3, <2>4 DEF PageInv, DragInv
    <3>2. QED
      BY <3>1 DEF HasAt
  <2>6. source \in Seq(Item) /\ dest \in Seq(Item)
    BY DEF TypeInv
  <2>7. x \in Item /\ x.name = f
    BY <2>3, <2>6, ItemDataType DEF Item
  <2>8. /\ Map(source, Name) = all /\ Named(dest, groups)
        /\ IsInjective(all) /\ IsInjective(groups)
        /\ ToSet(all) \cap ToSet(groups) = {} /\ ToSet(all) \cup ToSet(groups) = InDiagram
    BY <2>3, SoundLists DEF Named
  <2>9. rest \in Seq(Item)
    BY <2>3, <2>6, DeleteItemType
  <2>10. Len(rest) \in Nat
    BY <2>9
  <2>11. pos \in Nat /\ pos <= Len(rest)
    BY <2>10, DropType
  <2> HIDE DEF p, f, x
  <2>12. /\ Named(rest, others)
         /\ f \in ToSet(groups) /\ ToSet(others) = ToSet(groups) \ {f}
         /\ IsInjective(others)
    BY <2>3, <2>5, <2>6, <2>8, MoveOut DEF Named
  <2> HIDE DEF rest, others
  <2>13. x.name \notin ToSet(others)
    BY <2>7, <2>12
  <2>14. /\ Map(InsertItem(rest, pos, x), Name) = Insert(others, pos, x.name)
         /\ ToSet(Insert(others, pos, x.name)) = ToSet(others) \cup {x.name}
         /\ IsInjective(Insert(others, pos, x.name))
    BY <2>7, <2>9, <2>11, <2>12, <2>13, MoveIn
  <2>15. Map(dest', Name) = groups' /\ IsInjective(groups') /\ ToSet(groups') = ToSet(groups)
    BY <2>2, <2>7, <2>12, <2>14
  <2>16. InDiagram' = InDiagram
    BY <2>1 DEF InDiagram
  <2>17. ListsInv'
    BY <2>1, <2>8, <2>15, <2>16 DEF ListsInv
  <2>18. "damaged" \in did'
    BY <2>1
  <2>19. ClauseInv' /\ PlaceInv'
    BY <2>18 DEF ClauseInv, PlaceInv
  <2>20. DragInv'
    BY <2>1, DragEndsType DEF DragInv
  <2>21. QED
    BY <2>17, <2>19, <2>20 DEF PageInv
<1>3. QED
  BY <1>1, <1>2

LEMMA PageNext ==
  ASSUME TypeInv, DiagramInv, PageInv, [Next]_vars
  PROVE  PageInv'
<1>1. CASE SelectTables
  BY <1>1, SomeSelected, PageSelects
<1>2. CASE SelectTablesFreed \/ LeftUpFirst
  <2>1. fault' # "none"
    BY <1>2 DEF SelectTablesFreed, LeftUpFirst
  <2>2. QED
    BY <2>1, PageLost DEF Sound
<1>3. CASE OnCloseTable
  <2>1. fault' # "none" \/ "closed" \in did'
    BY <1>3, Closing DEF Closes, CloseFails
  <2>2. QED
    BY <2>1, PageLost DEF Sound
<1>4. ASSUME NEW fs, Adds(fs) \/ Removes(fs)
      PROVE  PageInv'
  BY <1>4, PageSame DEF Adds, Removes
<1>5. ASSUME NEW f \in ToSet(Displayed), OnLeftDown(f) PROVE PageInv'
  BY <1>4, <1>5, Clicks
<1>6. CASE ShowHideTablePart \/ OnLeftDownBeside \/ (\E f \in ToSet(Displayed) : OnRightDown(f))
  BY <1>6, SomeFade, PageSame DEF Fades, Fade
<1>7. ASSUME NEW l \in Lists, NEW pos \in 0..Len(source) + Len(dest), OnBeginDrag(l, pos)
      PROVE  PageInv'
  <2>1. pos \in Nat
    OBVIOUS
  <2>2. QED
    BY <1>7, <2>1, PageBeginDrag
<1>8. ASSUME NEW where \in Lists \cup {"outside"}, LeftUpNothing(where)
      PROVE  PageInv'
  <2>1. /\ drag' = [drag EXCEPT !.onto = Onto(where), !.captured = FALSE]
        /\ UNCHANGED <<diagramVars, pageVars, docVars, did, fault>>
    BY <1>8 DEF LeftUpNothing
  <2>2. /\ drag'.on = drag.on /\ drag'.from = drag.from /\ drag'.item = drag.item
        /\ drag'.itemPos = drag.itemPos /\ drag'.sourcePos = drag.sourcePos
    BY <2>1 DEF TypeInv, DragType
  <2>3. QED
    BY <2>1, <2>2, PageSame DEF diagramVars
<1>9. ASSUME NEW where \in Lists \cup {"outside"},
             AddField(where) \/ RemoveField(where) \/ ChangeField(where)
      PROVE  PageInv'
  BY <1>9, PageAddField, PageRemoveField, PageChangeField
<1>10. CASE UNCHANGED vars
  BY <1>10, PageSame DEF vars, diagramVars
<1>11. QED
  BY <1>1, <1>2, <1>3, <1>5, <1>6, <1>7, <1>8, <1>9, <1>10 DEF Next

-----------------------------------------------------------------------------
(* The document inserts beyond the end of a vector. *)

LEMMA Stopped ==
  ASSUME [Next]_vars, fault # "none"
  PROVE  UNCHANGED vars
BY DEF Next, SelectTables, SelectTablesFreed, OnCloseTable, OnLeftDown, OnRightDown, ShowHideTablePart,
       OnLeftDownBeside, Fade, OnBeginDrag, LeftUpFirst, LeftUpNothing, AddField, RemoveField, ChangeField,
       Finishes, LeftUp, Ready, Running

(* A longer sequence without repetition has an element that is not in s.     *)
LEMMA Pigeonhole ==
  ASSUME NEW s \in Seq(Fields), NEW r \in Seq(Fields), IsInjective(r),
         NEW n \in Nat, n <= Len(r), n > Len(s)
  PROVE  \E j \in 1..n : r[j] \notin ToSet(s)
<1> SUFFICES ASSUME \A j \in 1..n : r[j] \in ToSet(s) PROVE FALSE
  OBVIOUS
<1> DEFINE m == Len(s)
           h == [j \in 1..n |-> CHOOSE i \in 1..m : s[i] = r[j]]
<1>1. m \in Nat /\ DOMAIN s = 1..m /\ DOMAIN r = 1..Len(r)
  OBVIOUS
<1>2. \A j \in 1..n : \E i \in 1..m : s[i] = r[j]
  BY <1>1 DEF ToSet
<1>3. \A j \in 1..n : h[j] \in 1..m /\ s[h[j]] = r[j]
  BY <1>2
<1>4. h \in [1..n -> 1..m]
  BY <1>3
<1> HIDE DEF h, m
<1>5. ASSUME NEW k \in Nat PROVE IsFiniteSet(1..k) /\ Cardinality(1..k) = k
  <2>1. 1 \in Int /\ k \in Int
    OBVIOUS
  <2>2. IsFiniteSet(1..k) /\ Cardinality(1..k) = IF 1 > k THEN 0 ELSE k - 1 + 1
    BY <2>1, FS_Interval
  <2>3. QED
    BY <2>2
<1>6. Cardinality(1..m) < Cardinality(1..n)
  BY <1>1, <1>5 DEF m
<1>7. PICK i \in 1..n, j \in 1..n : i # j /\ h[i] = h[j]
  BY <1>1, <1>4, <1>5, <1>6, FS_PigeonHole
<1>8. r[i] = r[j] /\ i \in DOMAIN r /\ j \in DOMAIN r
  BY <1>1, <1>3, <1>7
<1>9. QED
  BY <1>7, <1>8 DEF IsInjective

(* Of the columns fs one is in neither list, and an earlier one grouped by.   *)
Earlier(fs, as, gs) ==
  LET Place(f) == SelectInSeq(fs, LAMBDA g : g = f)
      returned == ToSet(fs) \ (ToSet(as) \cup ToSet(gs))
  IN \E f \in returned, g \in ToSet(gs) : Place(g) < Place(f)

OverrunInv == fault = "overrun" /\ did \subseteq {"faded"} => Earlier(FieldsOf(tables), all, groups)

LEMMA OverrunEarlier == OverrunInv <=> OverrunOnlyOutOfOrder
BY DEF OverrunInv, OverrunOnlyOutOfOrder, Earlier

LEMMA EarlierAt ==
  ASSUME NEW fs \in Seq(Fields), IsInjective(fs), NEW as, NEW gs,
         NEW i \in 1..Len(fs), NEW j \in 1..Len(fs), j < i,
         fs[i] \in ToSet(fs) \ (ToSet(as) \cup ToSet(gs)), fs[j] \in ToSet(gs)
  PROVE  Earlier(fs, as, gs)
<1>1. SelectInSeq(fs, LAMBDA g : g = fs[i]) = i
  BY PlaceOf
<1>2. SelectInSeq(fs, LAMBDA g : g = fs[j]) = j
  BY PlaceOf
<1>3. QED
  BY <1>1, <1>2 DEF Earlier

(* One of the columns before the one that goes back is grouped by.           *)
LEMMA EarlierGrouped ==
  ASSUME TypeInv, DiagramInv, PageInv, NEW where, RemoveField(where),
         fault' = "overrun", did' \subseteq {"faded"}
  PROVE  Earlier(FieldsOf(tables'), all', groups')
<1> DEFINE r == FieldsOf(tables)
           p == drag.sourcePos
           f == drag.item
           d == drag.itemPos
           x == [name |-> f, data |-> d]
<1>1. /\ Finishes(where, "dest", {"source", "none"})
      /\ DeleteGroupByField(f, GetItemData(dest, p))
      /\ tables' = tables /\ did' = did
  BY DEF RemoveField, diagramVars
<1>2. /\ drag.on /\ drag.from = "dest" /\ fault = "none" /\ Sound
  BY <1>1 DEF Finishes, LeftUp, Running, Sound
<1>3. f \in Fields /\ p \in Nat /\ d \in Nat
  BY <1>2 DEF TypeInv, DragType
<1>4. p < Len(dest) /\ dest[p + 1] = x
  BY <1>2 DEF PageInv, DragInv
<1>5. x.name = f /\ x.data = d
  OBVIOUS
<1>6. GetItemData(dest, p) = d
  BY <1>4, <1>5 DEF GetItemData
<1>7. /\ Named(dest, groups) /\ IsInjective(groups)
      /\ ToSet(all) \cap ToSet(groups) = {} /\ ToSet(all) \cup ToSet(groups) = InDiagram
  BY <1>2, SoundLists DEF Named
<1>8. dest \in Seq(Item) /\ all \in Seq(Fields)
  BY DEF TypeInv
<1>9. r \in Seq(Fields) /\ IsInjective(r)
  BY FieldsOfProperties DEF TypeInv, DiagramInv
<1> HIDE DEF x, d, f, p
<1>10. HasAt(dest, p, f)
  BY <1>4, <1>5 DEF HasAt
<1>11. /\ f \in ToSet(groups) /\ ToSet(Omit(groups, {f})) = ToSet(groups) \ {f}
       /\ dest[p + 1] \in ToSet(dest)
  <2>1. dest \in Seq(Item) /\ Named(dest, groups) /\ IsInjective(groups) /\ p \in Nat
    BY <1>3, <1>7, <1>8
  <2>2. QED
    BY <1>10, <2>1, MoveOut
<1>12. d < Len(r) /\ r[d + 1] = f
  <2>1. AtPlace(x)
    BY <1>1, <1>2, <1>4, <1>11 DEF PageInv, PlaceInv
  <2>2. QED
    BY <1>5, <2>1 DEF AtPlace
<1>13. /\ groups' = Omit(groups, {f}) /\ ~Fits(all, d) /\ all' = all
  BY <1>1, <1>2, <1>6 DEF DeleteGroupByField, Without, Insert
<1>14. d <= Len(r) /\ d > Len(all)
  <2>1. Len(r) \in Nat /\ Len(all) \in Nat
    BY <1>8, <1>9
  <2>2. ~(d <= Len(all))
    BY <1>13 DEF Fits
  <2>3. QED
    BY <1>3, <1>12, <2>1, <2>2
<1>15. ToSet(r) = InDiagram
  BY DEF InDiagram
<1>16. \A j \in 1..Len(r) : r[j] \in ToSet(r)
  BY <1>9 DEF ToSet
<1> HIDE DEF r
<1>17. PICK j \in 1..d : r[j] \notin ToSet(all)
  BY <1>3, <1>8, <1>9, <1>14, Pigeonhole
<1>18. j \in 1..Len(r) /\ d + 1 \in 1..Len(r) /\ j # d + 1 /\ j < d + 1
  BY <1>3, <1>9, <1>12, <1>14
<1>19. r[j] # f
  BY <1>9, <1>12, <1>18 DEF IsInjective
<1>20. r[j] \in ToSet(groups')
  BY <1>7, <1>11, <1>13, <1>15, <1>16, <1>17, <1>18, <1>19
<1>21. f \in ToSet(r) \ (ToSet(all') \cup ToSet(groups'))
  BY <1>7, <1>11, <1>13, <1>15
<1>22. Earlier(r, all', groups')
  BY <1>9, <1>12, <1>18, <1>20, <1>21, EarlierAt
<1>23. QED
  BY <1>1, <1>22 DEF r

LEMMA OverrunNext ==
  ASSUME TypeInv, DiagramInv, PageInv, OverrunInv, [Next]_vars
  PROVE  OverrunInv'
<1>1. CASE fault # "none"
  <2>1. UNCHANGED vars
    BY <1>1, Stopped
  <2>2. QED
    BY <2>1 DEF OverrunInv, vars, diagramVars, docVars
<1>2. CASE fault = "none" /\ fault' = "overrun" /\ did' \subseteq {"faded"}
  <2>1. PICK where \in Lists \cup {"outside"} :
          AddField(where) \/ RemoveField(where) \/ ChangeField(where)
    BY <1>2 DEF Next, SelectTables, SelectTablesFreed, OnCloseTable, DropTableFromQeury,
                OnLeftDown, OnRightDown, ShowHideTablePart, OnLeftDownBeside, Fade, OnBeginDrag, LeftUpFirst, LeftUpNothing, vars
  <2>2. ~ChangeField(where)
    BY <1>2 DEF ChangeField
  <2>3. ~AddField(where)
    <3> SUFFICES ASSUME AddField(where) PROVE FALSE
      OBVIOUS
    <3>1. PICK pos \in DropPositions(where, dest) : ~Fits(groups, pos)
      BY <1>2 DEF AddField
    <3>2. Sound
      BY <1>2 DEF AddField, Sound
    <3>3. Len(dest) = Len(groups) /\ Len(dest) \in Nat
      BY <3>2, SoundLists DEF TypeInv
    <3>4. pos <= Len(dest)
      BY <3>3, DropType
    <3>5. QED
      BY <3>1, <3>3, <3>4 DEF Fits
  <2>4. RemoveField(where)
    BY <2>1, <2>2, <2>3
  <2>5. QED
    BY <1>2, <2>4, EarlierGrouped DEF OverrunInv
<1>3. CASE ~(fault' = "overrun" /\ did' \subseteq {"faded"})
  BY <1>3 DEF OverrunInv
<1>4. QED
  BY <1>1, <1>2, <1>3

-----------------------------------------------------------------------------
(* The theorems. *)

WindowInv ==
  TypeInv /\ DiagramInv /\ PageInv

(* The inductive invariant: the types; the diagram holds what is queried and *)
(* sorted by (databasecanvas.cpp:342); the lists of the page and of the      *)
(* document hold the same columns, the item of a drag is where it was when   *)
(* the drag began, and item data are original positions                     *)
(* (sortgroupbypage.cpp:316, 385).                                           *)
THEOREM WindowInvariance == Spec => []WindowInv
<1>1. Init => WindowInv
  BY TypeInit, DiagramInit, PageInit DEF WindowInv
<1>2. WindowInv /\ [Next]_vars => WindowInv'
  BY TypeNext, DiagramNext, PageNext DEF WindowInv
<1>3. QED
  BY <1>1, <1>2, PTL DEF Spec

LEMMA ItemsType ==
  ASSUME NEW list \in Seq(Item)
  PROVE  IsItems(list)
<1>1. \A i \in DOMAIN list : list[i] \in Item
  OBVIOUS
<1>2. QED
  BY <1>1 DEF IsItems, Item

(* Whatever is clicked, dragged, selected or closed, the variables keep their *)
(* types, the mouse is captured only for a drag, and a drag is of a column of *)
(* a list (sortgroupbypage.cpp:316).                                         *)
THEOREM TypeCorrect == Spec => []TypeOK
<1>1. WindowInv => TypeOK
  <2> SUFFICES ASSUME WindowInv PROVE TypeOK
    OBVIOUS
  <2>1. TypeInv
    BY DEF WindowInv
  <2>2. /\ ToSet(tables) \subseteq Tables /\ ToSet(query) \subseteq Fields
        /\ ToSet(all) \cup ToSet(groups) \cup ToSet(clause) \subseteq Fields
    BY <2>1, ToSetType DEF TypeInv
  <2>3. IsItems(source) /\ IsItems(dest)
    BY <2>1, ItemsType DEF TypeInv
  <2>4. QED
    BY <2>1, <2>2, <2>3 DEF TypeInv, DragType, TypeOK
<1>2. QED
  BY <1>1, WindowInvariance, PTL

(* The page, the document and the text tell the same story after any sequence *)
(* of drags, though the page inserts by the length of a list and the document *)
(* by that of a vector (sortgroupbypage.cpp:392, databasedoc.cpp:218, 275;   *)
(* databaseview.cpp:1579).                                                   *)
THEOREM Agreement == Spec => []PageAndDocumentAgree
<1>1. WindowInv => PageAndDocumentAgree
  BY DEF WindowInv, PageInv, ListsInv, ClauseInv, PageAndDocumentAgree
<1>2. QED
  BY <1>1, WindowInvariance, PTL

(* A drag moves a column: no column is lost, none is there twice             *)
(* (sortgroupbypage.cpp:385).                                                *)
THEOREM Conservation == Spec => []ColumnsConserved
<1>1. WindowInv => ColumnsConserved
  <2> SUFFICES ASSUME WindowInv, Sound
               PROVE  /\ IsInjective(Map(source \o dest, Name))
                      /\ ToSet(Map(source \o dest, Name)) = ToSet(FieldsOf(tables))
    BY DEF ColumnsConserved
  <2>1. TypeInv /\ PageInv
    BY DEF WindowInv
  <2>2. /\ source \in Seq(Item) /\ dest \in Seq(Item)
        /\ all \in Seq(Fields) /\ groups \in Seq(Fields)
    BY <2>1 DEF TypeInv
  <2>3. /\ Map(source, Name) = all /\ Map(dest, Name) = groups
        /\ IsInjective(all) /\ IsInjective(groups)
        /\ ToSet(all) \cap ToSet(groups) = {}
        /\ ToSet(all) \cup ToSet(groups) = InDiagram
    BY <2>1, SoundLists
  <2>4. Map(source \o dest, Name) = all \o groups
    <3>1. Mapped(source \o dest, nameOf) = Mapped(source, nameOf) \o Mapped(dest, nameOf)
      BY <2>2, NameOf, MappedConcat
    <3>2. source \o dest \in Seq(Item)
      BY <2>2, ConcatProperties
    <3>3. QED
      BY <2>2, <2>3, <3>1, <3>2, NamesMapped
  <2>5. IsInjective(all \o groups)
    BY <2>2, <2>3, InjectiveConcat
  <2>6. ToSet(all \o groups) = ToSet(all) \cup ToSet(groups)
    BY <2>2, ToSetConcat
  <2>7. QED
    BY <2>3, <2>4, <2>5, <2>6 DEF InDiagram
<1>2. QED
  BY <1>1, WindowInvariance, PTL

(* The document inserts beyond the end of a vector only where a column goes  *)
(* back while one from before it is still grouped by (databasedoc.cpp:275).  *)
THEOREM Overruns == Spec => []OverrunOnlyOutOfOrder
<1>1. Init => OverrunInv
  BY DEF Init, OverrunInv
<1>2. WindowInv /\ OverrunInv /\ [Next]_vars => OverrunInv'
  BY OverrunNext DEF WindowInv
<1>3. OverrunInv => OverrunOnlyOutOfOrder
  BY OverrunEarlier
<1>4. QED
  BY <1>1, <1>2, <1>3, WindowInvariance, PTL DEF Spec

(* What is highlighted in the diagram is in the query; and as long as no      *)
(* highlighting was lost, nothing else is, and nothing twice                 *)
(* (databasecanvas.cpp:342, 553, 1066; databasedoc.cpp:185).                 *)
THEOREM QueriesSelected == Spec => []QueryFollowsDiagram
<1>1. Init => QueryFollowsDiagram
  <2> SUFFICES ASSUME Init PROVE QueryFollowsDiagram
    OBVIOUS
  <2>1. query = <<>> /\ selected = {}
    BY DEF Init
  <2>2. QED
    BY <2>1, ToSetEmpty DEF QueryFollowsDiagram, IsInjective
<1>2. WindowInv /\ QueryFollowsDiagram /\ [Next]_vars => QueryFollowsDiagram'
  BY QueryNext DEF WindowInv
<1>3. QED
  BY <1>1, <1>2, WindowInvariance, PTL DEF Spec

(* The columns whose name no other table has can be sorted by exactly if they *)
(* are queried, and in that order (databasedoc.cpp:185, 190).                *)
THEOREM SortsQueried == Spec => []SortFollowsQuery
<1>1. Init => SortFollowsQuery
  <2> SUFFICES ASSUME Init PROVE SortFollowsQuery
    OBVIOUS
  <2>1. query = <<>> /\ sorts = <<>>
    BY DEF Init
  <2>2. Filter(query, Unique) = <<>> /\ Filter(sorts, {Bare(f) : f \in Unique}) = <<>>
    BY <2>1, FilterEmpty
  <2>3. Map(<<>>, Bare) = <<>>
    BY DEF Map
  <2>4. QED
    BY <2>2, <2>3 DEF SortFollowsQuery
<1>2. WindowInv /\ SortFollowsQuery /\ [Next]_vars => SortFollowsQuery'
  BY SortNext DEF WindowInv
<1>3. QED
  BY <1>1, <1>2, WindowInvariance, PTL DEF Spec

=============================================================================
