----------------------------- MODULE QueryWindow -----------------------------
(***************************************************************************)
(* The query window: the columns of its tables in the diagram              *)
(* (libdbwindow/databasecanvas.cpp), the "Group By" page with its two      *)
(* lists (libpropertypages/sortgroupbypage.cpp), the document that keeps   *)
(* the query (libdbwindow/databasedoc.cpp) and the text shown for it       *)
(* (libdbwindow/databaseview.cpp).                                         *)
(*                                                                         *)
(* The page and the document keep the same two lists, and neither reads    *)
(* the other: each drag changes both, at positions computed apart.  A      *)
(* position is a C++ index; s[p + 1] is the element at position p.         *)
(***************************************************************************)
EXTENDS Sublists

CONSTANTS
  Tables,     (* the tables of the database                                *)
  Columns,    (* the names of the columns of each, in order                *)
  MaxQuery    (* how many columns the query gets (bound)                   *)

ASSUME ColumnsAssumption ==
  /\ IsFiniteSet(Tables)
  /\ \A t \in Tables :
       Columns[t] \in Seq(ToSet(Columns[t])) /\ IsInjective(Columns[t])

ASSUME MaxQueryAssumption == MaxQuery \in Nat

VARIABLES
  tables,     (* m_tables: the tables in the order they were selected      *)
  selected,   (* the selected columns of the diagram                       *)
  query,      (* m_queryFields                                             *)
  sorts,      (* m_sortedFieldsAll: names of columns without their table   *)
  source,     (* the left list of the page: columns, and their item data   *)
  dest,       (* the right list                                            *)
  all,        (* m_groupByFieldsAll                                        *)
  groups,     (* m_groupByFields                                           *)
  clause,     (* the columns that follow GROUP BY in the text              *)
  drag,       (* the members of the page that a drag sets                  *)
  did,        (* what has happened that the program does not recover from  *)
  fault       (* undefined behaviour, or "none"                            *)

diagramVars == <<tables, selected, query, sorts>>
pageVars == <<source, dest>>
docVars == <<all, groups, clause>>
vars == <<diagramVars, pageVars, docVars, drag, did, fault>>

Lists == {"source", "dest"}

(* "again": tables were selected a second time; "closed": the last table was *)
(* closed; "parted": instead of the table that was to be closed a part of it *)
(* was removed; "faded": a column lost its highlighting and stayed in the    *)
(* query; "lost": a drop within a list deleted another item, or none;        *)
(* "damaged": such a drop has cut the words GROUP BY out of the text.       *)
Happenings == {"again", "closed", "parted", "faded", "lost", "damaged"}

-----------------------------------------------------------------------------

(* The columns of a sequence of tables, in order. *)
FieldsOf(ts) ==
  FlattenSeq([i \in DOMAIN ts |->
    [j \in DOMAIN Columns[ts[i]] |-> <<ts[i], Columns[ts[i]][j]>>]])

Bare(f) == f[2]
Map(s, op(_)) == [i \in DOMAIN s |-> op(s[i])]
Name(item) == item.name
Without(s, f) == Omit(s, {f})

(* What is in the diagram: after the last table is closed, nothing. *)
Displayed == IF "closed" \in did THEN <<>> ELSE FieldsOf(tables)

(* A plausible slip: the items are numbered from one. *)
ItemsFromOne(fs) == [i \in DOMAIN fs |-> [name |-> fs[i], data |-> i]]

(* The items of a list and their data: the original positions. *)
Items(fs) == [i \in DOMAIN fs |-> [name |-> fs[i], data |-> i - 1]]

(* std::vector::insert: beyond the end of the vector it is undefined. *)
Fits(s, pos) == pos <= Len(s)
Insert(s, pos, e) == IF Fits(s, pos) THEN InsertAt(s, pos + 1, e) ELSE s

(* InsertItem: a position beyond the end is the end. *)
InsertItem(list, pos, item) ==
  InsertAt(list, (IF pos > Len(list) THEN Len(list) ELSE pos) + 1, item)

(* DeleteItem: the library rejects an index that is not one. *)
DeleteItem(list, pos) == IF pos < Len(list) THEN RemoveAt(list, pos + 1) ELSE list
GetItemData(list, pos) == IF pos < Len(list) THEN list[pos + 1].data ELSE 0

(* Before any drag; of m_item and its positions every drag sets those it uses. *)
NoDrag == [from |-> "none", onto |-> "none", on |-> FALSE, captured |-> FALSE,
           item |-> "none", itemPos |-> 0, sourcePos |-> 0]

Init ==
  /\ tables = <<>> /\ selected = {} /\ query = <<>> /\ sorts = <<>>
  /\ source = <<>> /\ dest = <<>>
  /\ all = <<>> /\ groups = <<>> /\ clause = <<>>
  /\ drag = NoDrag
  /\ did = {}
  /\ fault = "none"

(* The program is still in a state that is followed, and the mouse is free. *)
Running == fault = "none" /\ did \cap {"lost", "parted"} = {}
Ready == Running /\ ~drag.captured

-----------------------------------------------------------------------------
(* The diagram. *)

(* The tables chosen are added to those that are there; the page and the    *)
(* document get the columns of all of them, the old ones once more, and the *)
(* text starts anew.  A column of the query selects the first shape with    *)
(* its name, of whatever table.                                             *)
SelectTables ==
  \E chosen \in SUBSET (Tables \ ToSet(tables)) \ {{}} :
  \E ts \in SetToSeqs(chosen) :
    LET fields == FieldsOf(tables \o ts)
        Same(f) == SelectInSeq(fields, LAMBDA g : Bare(g) = Bare(f))
    IN
    /\ Ready /\ "closed" \notin did
    /\ tables' = tables \o ts
    /\ selected' = selected \cup {fields[Same(f)] : f \in ToSet(query)}
    /\ source' = Items(fields) \o source
    /\ all' = all \o fields
    /\ clause' = <<>>
    /\ did' = (did \ {"damaged"}) \cup (IF tables = <<>> THEN {} ELSE {"again"})
    /\ UNCHANGED <<query, sorts, dest, groups, drag, fault>>

(* The tables of the document include one whose shape was deleted. *)
SelectTablesFreed ==
  /\ Ready /\ "closed" \in did
  /\ Tables # ToSet(tables)
  /\ fault' = "freed"
  /\ UNCHANGED <<diagramVars, pageVars, docVars, drag, did>>

(* DrawingView::AddFieldToQuery, which also tells the sort page. *)
AddFieldToQuery(f) ==
  /\ query' = Append(query, f)
  /\ sorts' = Append(sorts, Bare(f))

(* A plausible slip: the name stays in the list of the sort page. *)
RemoveFieldUnsorted(f) ==
  /\ query' = Without(query, f)
  /\ UNCHANGED sorts

(* A plausible slip: the column is looked for by its name. *)
RemoveFieldNamed(f) ==
  /\ query' = Omit(query, {g \in ToSet(query) : Bare(g) = Bare(f)})
  /\ sorts' = Without(sorts, Bare(f))

(* The column leaves the query, however often it is in it, and every column *)
(* of the same name leaves the list of the sort page.                       *)
RemoveFieldFromQuery(f) ==
  /\ query' = Without(query, f)
  /\ sorts' = Without(sorts, Bare(f))

(* A click on a column. *)
OnLeftDown(f) ==
  /\ Ready
  /\ f \in ToSet(Displayed)
  /\ \/ /\ f \notin selected
        /\ Len(query) < MaxQuery
        /\ selected' = selected \cup {f}
        /\ AddFieldToQuery(f)
     \/ /\ f \in selected
        /\ selected' = selected \ {f}
        /\ RemoveFieldFromQuery(f)
  /\ UNCHANGED <<tables, pageVars, docVars, drag, did, fault>>

(* The highlighting of the columns goes; the query is not told. *)
Fade(fs) ==
  /\ Ready
  /\ fs \cap selected # {}
  /\ selected' = selected \ fs
  /\ did' = did \cup {"faded"}
  /\ UNCHANGED <<tables, query, sorts, pageVars, docVars, drag, fault>>

(* A right click on a column, and its menu is dismissed.  The other commands *)
(* of that menu but Close Table are taken for a choice that nothing handles. *)
OnRightDown(f) == Fade({f})

(* Data types or comments are shown or hidden: every column is drawn anew.  *)
ShowHideTablePart == Fade(selected)

(* A click beside the tables while the sign of a join is selected: the base  *)
(* class deselects everything, and the columns are not selected again.      *)
OnLeftDownBeside == Len(tables) > 1 /\ Fade(selected)

(* What closing the last table empties; the table stays in m_tables, and its *)
(* columns in both lists of all columns.                                    *)
DropTableFromQeury ==
  /\ source' = <<>> /\ dest' = <<>>
  /\ query' = <<>> /\ groups' = <<>> /\ clause' = <<>>
  /\ UNCHANGED <<tables, sorts, all, drag, fault>>

(* Close Table removes the shape under the cursor: the table, or the type or *)
(* the comment of a column (after which nothing is followed), or a column,   *)
(* whose highlighting is then taken from the freed shape.  With another      *)
(* table displayed DeleteQueryFieldForTable erases at the end of the vector, *)
(* and a shape that is no table is used as one.                             *)
OnCloseTable ==
  /\ Ready
  /\ Displayed # <<>>
  /\ \/ /\ Len(tables) = 1
        /\ DropTableFromQeury
        /\ \/ selected' = {} /\ did' = (did \ {"damaged"}) \cup {"closed"}
           \/ UNCHANGED selected /\ did' = (did \ {"damaged"}) \cup {"closed", "parted"}
     \/ /\ fault' \in IF Len(tables) = 1 THEN {"freed"} ELSE {"erased", "null"}
        /\ UNCHANGED <<diagramVars, pageVars, docVars, drag, did>>

-----------------------------------------------------------------------------
(* The "Group By" page. *)

ListNamed(l) == IF l = "source" THEN source ELSE dest

(* The list the last drag ended on, m_dragDest, is left as it was.  Once the *)
(* columns are there twice no further drag is followed (bound).             *)
OnBeginDrag(l, pos) ==
  LET item == ListNamed(l)[pos + 1]
  IN
  /\ Ready
  /\ "again" \notin did
  /\ pos < Len(ListNamed(l))
  /\ drag' = [drag EXCEPT !.from = l, !.item = item.name,
                          !.on = TRUE, !.captured = TRUE,
                          !.itemPos = IF l = "source" THEN pos ELSE item.data,
                          !.sourcePos = IF l = "dest" THEN pos ELSE @]
  /\ UNCHANGED <<diagramVars, pageVars, docVars, did, fault>>

(* A plausible slip: the mouse is not released. *)
DragEndsCaptured == [NoDrag EXCEPT !.from = drag.from, !.captured = drag.captured]

DragEnds == [NoDrag EXCEPT !.from = drag.from]

(* The mouse is released over a list, or outside of both; a page that has not *)
(* captured the mouse only sees the latter.                                 *)
LeftUp(where) == Running /\ (drag.captured \/ where = "outside")
Onto(where) == IF where = "outside" THEN drag.onto ELSE where

(* No drag before: m_dragSource is not initialised. *)
LeftUpFirst ==
  /\ LeftUp("outside") /\ drag.from = "none"
  /\ fault' = "uninitialised"
  /\ UNCHANGED <<diagramVars, pageVars, docVars, drag, did>>

(* Nothing to do, and m_isDragging and m_dragDest are left as they are. *)
EarlyReturn(where) ==
  drag.from = Onto(where) /\ (drag.from = "source" \/ Len(dest) = 1)

LeftUpNothing(where) ==
  /\ LeftUp(where) /\ drag.from # "none"
  /\ EarlyReturn(where)
  /\ drag' = [drag EXCEPT !.onto = Onto(where), !.captured = FALSE]
  /\ UNCHANGED <<diagramVars, pageVars, docVars, did, fault>>

(* FinishDragging; dropping a column of the left list outside does nothing, *)
(* and the page keeps the mouse until it is released over the right list.   *)
Finishes(where, from, onto) ==
  /\ LeftUp(where) /\ drag.on /\ ~EarlyReturn(where)
  /\ drag.from = from /\ Onto(where) \in onto

(* Where a column is dropped on the right list: on an item, or at the end. *)
DropPositions(where, list) ==
  IF where = "dest" THEN 0..Len(list) ELSE {Len(list)}

(* A plausible slip: the column stays in the left list. *)
AddFieldCopies(where) ==
  /\ Finishes(where, "source", {"dest"})
  /\ \E pos \in DropPositions(where, dest) :
       LET data == GetItemData(source, drag.itemPos)
       IN
       /\ dest' = InsertItem(dest, pos, [name |-> drag.item, data |-> data])
       /\ all' = Without(all, drag.item)
       /\ groups' = Insert(groups, pos, drag.item)
       /\ fault' = IF Fits(groups, pos) THEN "none" ELSE "overrun"
       /\ clause' = groups'
  /\ drag' = DragEnds
  /\ UNCHANGED <<diagramVars, source, did>>

(* From left to right: the column is grouped by. *)
AddField(where) ==
  /\ Finishes(where, "source", {"dest"})
  /\ source' = DeleteItem(source, drag.itemPos)
  /\ \E pos \in DropPositions(where, dest) :
       LET data == GetItemData(source, drag.itemPos)
       IN
       /\ dest' = InsertItem(dest, pos, [name |-> drag.item, data |-> data])
       /\ all' = Without(all, drag.item)
       /\ groups' = Insert(groups, pos, drag.item)
       /\ fault' = IF Fits(groups, pos) THEN "none" ELSE "overrun"
       /\ clause' = IF "damaged" \in did THEN clause ELSE groups'
  /\ drag' = DragEnds
  /\ UNCHANGED <<diagramVars, did>>

(* A plausible slip: the document appends the column to those available. *)
DeleteGroupByFieldAppends(name, original) ==
  /\ groups' = Without(groups, name)
  /\ all' = Append(all, name)
  /\ UNCHANGED fault

(* The column returns to its original position among those available, though *)
(* others of them may be away.                                              *)
DeleteGroupByField(name, original) ==
  /\ groups' = Without(groups, name)
  /\ all' = Insert(all, original, name)
  /\ fault' = IF Fits(all, original) THEN fault ELSE "overrun"

(* From right to left, or outside.  The last column leaves the text as it is: *)
(* the part to be replaced is prefixed by a character it never has.         *)
RemoveField(where) ==
  LET data == GetItemData(dest, drag.sourcePos)
  IN
  /\ Finishes(where, "dest", {"source", "none"})
  /\ dest' = DeleteItem(dest, drag.sourcePos)
  /\ source' = InsertItem(source, data, [name |-> drag.item, data |-> data])
  /\ DeleteGroupByField(drag.item, data)
  /\ clause' = IF groups' = <<>> \/ "damaged" \in did THEN clause ELSE groups'
  /\ drag' = DragEnds
  /\ UNCHANGED <<diagramVars, did>>

(* Within the right list.  The item deleted is the one at the original position *)
(* of the column, and the column gets the item data of a column of the left    *)
(* list.  The text loses the words GROUP BY.                                  *)
ChangeField(where) ==
  /\ Finishes(where, "dest", {"dest"})
  /\ LET rest == DeleteItem(dest, drag.itemPos)
         others == Without(groups, drag.item)
     IN
     \E pos \in DropPositions(where, rest) :
       /\ dest' = InsertItem(rest, pos,
            [name |-> drag.item, data |-> GetItemData(source, drag.itemPos)])
       /\ groups' = Insert(others, pos, drag.item)
       /\ fault' = IF Fits(others, pos) THEN "none" ELSE "overrun"
  /\ clause' = <<>>
  /\ did' = did \cup {"damaged"}
                \cup (IF drag.itemPos = drag.sourcePos THEN {} ELSE {"lost"})
  /\ drag' = DragEnds
  /\ UNCHANGED <<diagramVars, source, all>>

Next ==
  \/ SelectTables \/ SelectTablesFreed \/ OnCloseTable
  \/ \E f \in ToSet(Displayed) : OnLeftDown(f) \/ OnRightDown(f)
  \/ ShowHideTablePart \/ OnLeftDownBeside
  \/ \E l \in Lists, pos \in 0..Len(source) + Len(dest) : OnBeginDrag(l, pos)
  \/ LeftUpFirst
  \/ \E where \in Lists \cup {"outside"} :
       LeftUpNothing(where) \/ AddField(where) \/ RemoveField(where) \/ ChangeField(where)

Spec == Init /\ [][Next]_vars

-----------------------------------------------------------------------------
(* Properties. *)

Fields == {<<t, c>> : t \in Tables, c \in UNION {ToSet(Columns[t]) : t \in Tables}}
IsItems(list) == \A i \in DOMAIN list : list[i].name \in Fields /\ list[i].data \in Nat

(* The types of the variables; the mouse is captured only for a drag, and a  *)
(* drag is of a column of a list (sortgroupbypage.cpp:316).                 *)
TypeOK ==
  /\ ToSet(tables) \subseteq Tables
  /\ selected \subseteq Fields /\ ToSet(query) \subseteq Fields
  /\ IsItems(source) /\ IsItems(dest)
  /\ ToSet(all) \cup ToSet(groups) \cup ToSet(clause) \subseteq Fields
  /\ drag.captured => drag.on
  /\ drag.on => drag.from \in Lists /\ drag.item \in Fields
  /\ did \subseteq Happenings
  /\ fault \in {"none", "overrun", "erased", "freed", "null", "uninitialised"}

Sound == fault = "none" /\ did \cap {"again", "closed", "lost"} = {}

(* The page, the document and the text tell the same story after any sequence *)
(* of drags, though the page inserts by the length of a list and the document *)
(* by that of a vector; only a text whose last column was taken away still   *)
(* names that column (sortgroupbypage.cpp:392, databasedoc.cpp:218, 275;     *)
(* databaseview.cpp:1579).                                                  *)
PageAndDocumentAgree ==
  Sound =>
    /\ Map(source, Name) = all
    /\ Map(dest, Name) = groups
    /\ "damaged" \notin did /\ clause # groups => groups = <<>> /\ Len(clause) = 1

(* Drags move columns: each is in one of the two lists, and once, as long as *)
(* tables were selected once and no drop within a list deleted a wrong item *)
(* (sortgroupbypage.cpp:385).                                               *)
ColumnsConserved ==
  Sound =>
    LET names == Map(source \o dest, Name)
    IN IsInjective(names) /\ ToSet(names) = ToSet(FieldsOf(tables))

(* The document inserts beyond the end of a vector only where a column goes  *)
(* back while one from before it is still grouped by: columns taken back in *)
(* their order are safe (databasedoc.cpp:275).                              *)
OverrunOnlyOutOfOrder ==
  fault = "overrun" /\ did \subseteq {"faded"} =>
    LET fields == FieldsOf(tables)
        Place(f) == SelectInSeq(fields, LAMBDA g : g = f)
        returned == ToSet(fields) \ (ToSet(all) \cup ToSet(groups))
    IN \E f \in returned, g \in ToSet(groups) : Place(g) < Place(f)

(* What is highlighted in the diagram is in the query, whatever menu was     *)
(* dismissed and however often the columns were drawn anew; and as long as  *)
(* no highlighting was lost, nothing else is in the query, and nothing twice *)
(* (databasecanvas.cpp:342, 553, 1066; databasedoc.cpp:185).                 *)
QueryFollowsDiagram ==
  did \cap {"again", "parted"} = {} =>
    /\ selected \subseteq ToSet(query)
    /\ "faded" \notin did => ToSet(query) = selected /\ IsInjective(query)

(* The columns whose name no other column has. *)
Unique == {f \in ToSet(FieldsOf(tables)) :
             \A g \in ToSet(FieldsOf(tables)) : Bare(g) = Bare(f) => g = f}

(* What can be sorted by is what is queried, in that order, for every column *)
(* whose name no other table has; a name of two tables may be dropped with   *)
(* either (databasedoc.cpp:185, 190).                                       *)
SortFollowsQuery ==
  "closed" \notin did =>
    Filter(sorts, {Bare(f) : f \in Unique}) = Map(Filter(query, Unique), Bare)
=============================================================================
