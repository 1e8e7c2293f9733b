---------------------------- MODULE WorkbookLimits ----------------------------
(***************************************************************************)
(* What an uploaded workbook must pass before it is given to the           *)
(* spreadsheet reader: an archive of members that declare a size and have  *)
(* one, and a sheet whose rows and cells may or may not say where they     *)
(* are.  The checks run on one pass over the elements; the reader then     *)
(* makes a grid that spans all cells.                                      *)
(***************************************************************************)
EXTENDS Integers, FiniteSets, Sequences, SequencesExt

CONSTANTS MaxRows, MaxColumns, MaxCells, MaxMembers, MaxMember, MaxTotal, MaxRatio,
          RatioThreshold,  \* smaller members are not checked for MaxRatio
          Members,   \* [declared, actual, packed, expected]: what an archive can have
          Elements,  \* [tag, from, to]: rows, cells and merged ranges; <<0, 0>>: place not stated
          MaxElements

\* Limits are numbers, and so is what a workbook states, which can be anything.
LimitsAssumption ==
    /\ \A limit \in {MaxRows, MaxColumns, MaxCells, MaxMember, MaxTotal, MaxElements} : limit \in Nat
    /\ \A m \in Members : m.actual \in Nat
    /\ Elements \subseteq [tag : {"row", "c", "mergeCell"}, from : Int \X Int, to : Int \X Int]

VARIABLES step, members, elements, reason

limitVars == <<step, members, elements, reason>>

Init == step = "archive" /\ members = <<>> /\ elements = <<>> /\ reason = "none"

\* A workbook is made up, member after member and element after element.
AddMember ==
    /\ step = "archive" /\ Len(members) < MaxMembers + 1
    /\ \E m \in Members : members' = Append(members, m)
    /\ UNCHANGED <<step, elements, reason>>

AddElement ==
    /\ step \in {"archive", "sheet"} /\ Len(elements) < MaxElements
    /\ step' = "sheet"
    /\ \E e \in Elements : elements' = Append(elements, e)
    /\ UNCHANGED <<members, reason>>
-----------------------------------------------------------------------------
(* check_workbook_limits.  Each check answers "none" or the reason to refuse. *)

Sizes(s) == FoldLeft(+, 0, s)

\* _check_declared_zip_bounds, member by member, then their sum.
DeclaredBounds ==
    LET Of(m) == IF m.declared > MaxMember THEN "max_member_size"
                 ELSE IF m.declared > RatioThreshold /\ m.declared > MaxRatio * m.packed
                      THEN "max_compression_ratio" ELSE "none"
        bad == {i \in DOMAIN members : Of(members[i]) # "none"}
    IN  IF Len(members) > MaxMembers THEN "max_zip_members"
        ELSE IF bad # {} THEN Of(members[CHOOSE i \in bad : \A j \in bad : i =< j])
        ELSE IF Sizes([i \in DOMAIN members |-> members[i].declared]) > MaxTotal
             THEN "max_total_uncompressed_size" ELSE "none"

\* _check_member_allowlist.
MemberAllowlist ==
    IF \E i \in DOMAIN members : ~members[i].expected THEN "unexpected_member" ELSE "none"

\* Mutant: what the archive declares is what it has.
DeclaredOnly == "none"

\* _check_actual_decompressed_size: what comes out is counted as it comes.
ActualSize ==
    LET Upto(i) == Sizes([j \in 1 .. i |-> members[j].actual])
        bad == {i \in DOMAIN members : members[i].actual > MaxMember \/ Upto(i) > MaxTotal}
        first == CHOOSE i \in bad : \A j \in bad : i =< j
    IN  IF bad = {} THEN "none"
        ELSE IF members[first].actual > MaxMember THEN "max_member_size"
             ELSE "max_total_uncompressed_size"

\* _check_coordinate.
Coordinate(row, column) ==
    IF row < 1 \/ column < 1 THEN "invalid_workbook"
    ELSE IF row > MaxRows THEN "max_rows"
    ELSE IF column > MaxColumns THEN "max_columns" ELSE "none"

\* The row element: it states its number or is the next; its cells start over.
RowStarted(at, e) == [at EXCEPT !.row = IF e.from[1] = 0 THEN @ + 1 ELSE e.from[1], !.column = 0]

\* Where a cell is: where it states, or in the column after the last one.
CellAt(at, e) == IF e.from # <<0, 0>> THEN e.from ELSE <<at.row, at.column + 1>>

Spanned(e) == (e.to[1] - e.from[1] + 1) * (e.to[2] - e.from[2] + 1)

\* One element of _check_sheet_extents.
Scan(at, e) ==
    IF at.reason # "none" THEN at
    ELSE LET cell == CellAt(at, e)
             next == CASE e.tag = "row" -> RowStarted(at, e)
                       [] e.tag = "c" ->
                            [at EXCEPT !.column = cell[2], !.cells = @ + 1,
                                       !.reason = Coordinate(cell[1], cell[2])]
                       [] e.tag = "mergeCell" ->
                            LET first == Coordinate(e.from[1], e.from[2])
                                last == Coordinate(e.to[1], e.to[2])
                            IN  [at EXCEPT !.reason =
                                    IF first # "none" THEN first
                                    ELSE IF last # "none" THEN last
                                    ELSE IF e.from[1] > e.to[1] \/ e.from[2] > e.to[2]
                                         THEN "invalid_workbook" ELSE "none",
                                 !.cells = @ + Spanned(e)]
         IN  IF next.reason = "none" /\ next.cells > MaxCells
             THEN [next EXCEPT !.reason = "max_cells"] ELSE next

SheetExtents ==
    FoldLeft(Scan, [row |-> 0, column |-> 0, cells |-> 0, reason |-> "none"], elements).reason

\* The first check that refuses gives the reason.
Check ==
    /\ step = "sheet"
    /\ LET answers == <<DeclaredBounds, MemberAllowlist, ActualSize, SheetExtents>>
           refusals == {i \in 1 .. 4 : answers[i] # "none"}
       IN  reason' = IF refusals = {} THEN "none"
                     ELSE answers[CHOOSE i \in refusals : \A j \in refusals : i =< j]
    /\ step' = IF reason' = "none" THEN "read" ELSE "refused"
    /\ UNCHANGED <<members, elements>>

Next == AddMember \/ AddElement \/ Check
Spec == Init /\ [][Next]_limitVars
-----------------------------------------------------------------------------
\* Where the reader puts the cells: what is before a cell in its row, or, for a cell that
\* states its place, that place.
Before(i) == {j \in 1 .. i - 1 : elements[j].tag = "row"}
RowBefore(i) == IF Before(i) = {} THEN 0 ELSE CHOOSE j \in Before(i) : \A k \in Before(i) : k =< j
RowNumber[n \in 0 .. MaxElements] ==
    IF n = 0 THEN 0
    ELSE IF elements[n].from[1] # 0 THEN elements[n].from[1] ELSE RowNumber[RowBefore(n)] + 1
\* How many cells of its row, from the last one that states its place on, are before it.
ReadAt(i) ==
    IF elements[i].from # <<0, 0>> THEN elements[i].from
    ELSE LET start == RowBefore(i)
             cells == {j \in start + 1 .. i : elements[j].tag = "c"}
             stated == {j \in cells : elements[j].from # <<0, 0>>}
             last == CHOOSE j \in stated : \A k \in stated : k =< j
         IN  <<RowNumber[start],
               IF stated = {} THEN Cardinality(cells)
               ELSE elements[last].from[2] + Cardinality({j \in cells : j > last})>>

\* A verdict comes with a reason exactly when it is a refusal.
TypeOK ==
    /\ step \in {"archive", "sheet", "read", "refused"}
    /\ step = "refused" <=> reason # "none"

\* What the reader is given is within the limits, whatever the archive declares and
\* whether its cells say where they are or not: its members and their sum in size, and
\* the grid that it makes, with the cells merged ranges take.
ReadIsBounded ==
    step = "read" =>
        /\ \A i \in DOMAIN members : members[i].actual =< MaxMember /\ members[i].expected
        /\ Sizes([i \in DOMAIN members |-> members[i].actual]) =< MaxTotal
        /\ \A i \in DOMAIN elements : elements[i].tag = "c" =>
              ReadAt(i)[1] \in 1 .. MaxRows /\ ReadAt(i)[2] \in 1 .. MaxColumns
        /\ \A i \in DOMAIN elements : elements[i].tag = "mergeCell" =>
              elements[i].to[1] =< MaxRows /\ elements[i].to[2] =< MaxColumns /\ Spanned(elements[i]) =< MaxCells
=============================================================================
