------------------------------ MODULE Listing -------------------------------
(***************************************************************************)
(* What the interface's server answers from the table of records           *)
(* (src/ui/query.ts): one page of a view, the size of the view, and the    *)
(* marker by which a page notices that something has changed.  Columns     *)
(* that take part in no view and no order are left out; the order of       *)
(* creation is the order of the keys.                                      *)
(***************************************************************************)
EXTENDS Integers, FiniteSets, Web

CONSTANTS Keys,     \* the records, by order of creation
          PageSize  \* records on a page

ASSUME KeysAssumption == Keys \subseteq Nat /\ IsFiniteSet(Keys) /\ None \notin Keys
ASSUME PageSizeAssumption == PageSize \in Nat \ {0}

(* The four views of the side bar; each is a filter of the list.           *)
Views == {"all", "starred", "folder", "trash"}
Rows == [modified : Nat, deleted : BOOLEAN, starred : BOOLEAN, pinned : BOOLEAN,
         folder : BOOLEAN]

(* buildWhere.                                                             *)
MatchesButTrash(row, view) ==
  CASE view = "starred" -> row.starred
    [] view = "folder"  -> row.folder
    [] OTHER            -> TRUE
Matches(row, view) == (row.deleted <=> view = "trash") /\ MatchesButTrash(row, view)

InView(rows, view) == {k \in Keys : rows[k] # None /\ Matches(rows[k], view)}

(* ORDER BY Pinned DESC, CreateTime DESC, ID DESC.                         *)
Before(rows, a, b) ==
  IF rows[a].pinned = rows[b].pinned THEN a > b ELSE rows[a].pinned

Rank(rows, view, k) ==
  Cardinality({other \in InView(rows, view) \ {k} : Before(rows, other, k)})

(* The two statements of a list: the count, and LIMIT with OFFSET.         *)
Total(rows, view) == Cardinality(InView(rows, view))
Page(rows, view, page) ==
  {[key |-> k, row |-> rows[k]] :
     k \in {k \in InView(rows, view) : Rank(rows, view, k) \div PageSize = page - 1}}

Pages(total) == IF total = 0 THEN 1 ELSE (total + PageSize - 1) \div PageSize

(* readLastModified: MAX(LastModified), 0 for an empty table; of every row, *)
(* that of the trash included.                                              *)
Newest(rows, keys) ==
  LET stamps == {0} \cup {rows[k].modified : k \in keys}
  IN CHOOSE m \in stamps : \A n \in stamps : n <= m
MarkerOfActive(rows) == Newest(rows, {k \in Keys : rows[k] # None /\ ~rows[k].deleted})
Marker(rows) == Newest(rows, {k \in Keys : rows[k] # None})
=============================================================================
