----------------------------- MODULE FieldMerge -----------------------------
(* The merge of a versioned JSON column of a group, services/field_merge.go.
   A column maps fields to cells; a cell is a value, or Absent, and the version
   (the millisecond of its last local change, 0 for none). *)
EXTENDS Naturals

CONSTANTS Field,     \* the fields of a column
          Value,     \* the values a field may have
          Absent,    \* no value: the field is not in the map
          Render     \* how fmt prints a value, as its place in the string order

ASSUME RenderAssumption == /\ Absent \notin Value
                           /\ Render \in [Value -> Nat]

Cell == [val : Value \cup {Absent}, ver : Nat]
Column == [Field -> Cell]

\* Two values are never printed alike.
RenderInjective == \A v, w \in Value : Render[v] = Render[w] => v = w

Unversioned(col) == \A f \in Field : col[f].ver = 0

\* Mutant: at equal versions what is there already stays.
MergeCell_KeepExisting(e, i) == IF i.ver > e.ver THEN i ELSE e

\* The cell that survives: the newer version, be it a value or a deletion; at equal
\* versions a value beats its absence and of two values the one that prints larger.
MergeCell(e, i) ==
    IF i.ver > e.ver THEN i
    ELSE IF e.ver > i.ver THEN e
    ELSE IF e.val = Absent THEN i
    ELSE IF i.val = Absent THEN e
    ELSE IF Render[i.val] > Render[e.val] THEN i ELSE e

MergeFields(e, i) == [f \in Field |-> MergeCell(e[f], i[f])]

\* A column without any version on either side goes to the side whose record is newer.
MergeColumn(e, i, incomingWins) ==
    IF Unversioned(e) /\ Unversioned(i)
    THEN IF incomingWins THEN i ELSE e
    ELSE MergeFields(e, i)

\* A local write stamps the fields that it changes, deletions too.
Stamp(old, f, v, now) ==
    IF old[f].val = v THEN old ELSE [old EXCEPT ![f] = [val |-> v, ver |-> now]]

\* Of two versions of a machine the fields in Local are never taken from elsewhere.
\* The versions follow the merge all the same.
KeepLocal(col, existing, Local) ==
    [f \in Field |-> IF f \in Local THEN [col[f] EXCEPT !.val = existing[f].val] ELSE col[f]]
=============================================================================
