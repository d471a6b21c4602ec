--------------------------- MODULE MeshSyncProofs ---------------------------
(* The algebra of the field merge, for any fields, values and versions (what nodes end
   with does not depend on who merges whom, in which order and how often), and what it
   means for the nodes of a mesh: the tables of every node stay sound, no deleted key is
   revived, and merging is symmetric (MeshInv is inductive). *)
EXTENDS MeshSync, DataLemmas, TLAPS

USE RenderAssumption

--------------------------------------------------------------------------
(* Cells *)

\* The merge makes up nothing.
LEMMA MergeCellPicks ==
    ASSUME NEW a \in Cell, NEW b \in Cell
    PROVE  MergeCell(a, b) \in {a, b}
  BY DEF MergeCell

\* If no two values print alike, it does not matter which side is the existing one.
LEMMA MergeCellCommutes ==
    ASSUME RenderInjective, NEW a \in Cell, NEW b \in Cell
    PROVE  MergeCell(a, b) = MergeCell(b, a)
<1>1. CASE a.ver # b.ver
  BY <1>1 DEF MergeCell, Cell
<1>2. CASE a.ver = b.ver /\ (a.val = Absent \/ b.val = Absent)
  BY <1>2 DEF MergeCell, Cell
<1>3. CASE a.ver = b.ver /\ a.val # Absent /\ b.val # Absent
  <2>1. a.val \in Value /\ b.val \in Value
    BY <1>3 DEF Cell
  <2>2. CASE Render[a.val] = Render[b.val]
    <3>1. a.val = b.val
      BY <2>1, <2>2 DEF RenderInjective
    <3>2. a = b
      BY <3>1, <1>3 DEF Cell
    <3>. QED  BY <3>2
  <2>3. CASE Render[a.val] # Render[b.val]
    <3>1. Render[a.val] \in Nat /\ Render[b.val] \in Nat
      BY <2>1
    <3>. QED  BY <2>3, <3>1, <1>3 DEF MergeCell, Cell
  <2>. QED  BY <2>2, <2>3
<1>. QED  BY <1>1, <1>2, <1>3

\* Of three cells the same one survives, whichever two meet first.
LEMMA MergeCellAssociates ==
    ASSUME NEW a \in Cell, NEW b \in Cell, NEW c \in Cell
    PROVE  MergeCell(MergeCell(a, b), c) = MergeCell(a, MergeCell(b, c))
<1>. DEFINE R(x) == IF x.val = Absent THEN 0 ELSE Render[x.val] + 1
<1>1. \A x \in Cell : x.ver \in Nat /\ R(x) \in Nat /\ (x.val = Absent <=> R(x) = 0)
  BY DEF Cell
<1>2. ASSUME NEW x \in Cell, NEW y \in Cell
      PROVE  MergeCell(x, y) = IF y.ver > x.ver THEN y
                               ELSE IF x.ver > y.ver THEN x
                               ELSE IF x.val = Absent THEN y
                               ELSE IF R(y) > R(x) THEN y ELSE x
  BY <1>1 DEF MergeCell, Cell
<1>. QED
  BY <1>1, <1>2 DEF Cell

--------------------------------------------------------------------------
(* Columns *)

\* A merged column is a column.
LEMMA MergeFieldsType ==
    ASSUME NEW a \in Column, NEW b \in Column
    PROVE  MergeFields(a, b) \in Column
  BY MergeCellPicks DEF MergeFields, Column

\* mergeJSONFieldsLWW gives both sides of an exchange the same column.
THEOREM MergeFieldsCommutes ==
    ASSUME RenderInjective, NEW a \in Column, NEW b \in Column
    PROVE  MergeFields(a, b) = MergeFields(b, a)
  BY MergeCellCommutes DEF MergeFields, Column

\* Versioned columns that reach a node in any grouping leave the same column.
THEOREM MergeFieldsAssociates ==
    ASSUME NEW a \in Column, NEW b \in Column, NEW c \in Column
    PROVE  MergeFields(MergeFields(a, b), c) = MergeFields(a, MergeFields(b, c))
<1>1. ASSUME NEW f \in Field
      PROVE  MergeFields(MergeFields(a, b), c)[f] = MergeFields(a, MergeFields(b, c))[f]
  <2>1. MergeCell(MergeCell(a[f], b[f]), c[f]) = MergeCell(a[f], MergeCell(b[f], c[f]))
    BY MergeCellAssociates DEF Column
  <2>. QED  BY <2>1 DEF MergeFields
<1>. QED  BY <1>1 DEF MergeFields

\* A column that arrives again changes nothing: not the merged column, nor the first.
THEOREM MergeFieldsIdempotent ==
    ASSUME NEW a \in Column, NEW b \in Column
    PROVE  /\ MergeFields(a, a) = a
           /\ MergeFields(MergeFields(a, b), b) = MergeFields(a, b)
<1>1. \A x \in Cell : MergeCell(x, x) = x
  BY DEF MergeCell
<1>2. MergeFields(a, a) = a
  BY <1>1 DEF MergeFields, Column
<1>3. MergeFields(b, b) = b
  BY <1>1 DEF MergeFields, Column
<1>. QED  BY <1>2, <1>3, MergeFieldsAssociates

\* Column by column, with the fallback to the newer record, two sides that agree on which
\* record is newer agree on the column (mergeGroupJSONColumns).
THEOREM MergeColumnCommutes ==
    ASSUME RenderInjective, NEW a \in Column, NEW b \in Column, NEW wins \in BOOLEAN
    PROVE  MergeColumn(a, b, wins) = MergeColumn(b, a, ~wins)
  BY MergeFieldsCommutes DEF MergeColumn

--------------------------------------------------------------------------
(* The nodes of a mesh *)

\* In every typed state, whatever the number of nodes, groups and fields, two nodes that
\* merge each other's version of a group end with the same shared fields, if no two values
\* print alike (ProcessPayload with mergeGroupJSONColumns).
LEMMA TypedSymmetric ==
    RenderInjective /\ TypeOK => MergeSymmetric
<1>. SUFFICES ASSUME RenderInjective, TypeOK,
                     NEW n \in Node, NEW p \in Node,
                     NEW a \in Live(groups[n]), NEW b \in Live(groups[p]),
                     Eff(a) # Eff(b) \/ ~Unversioned(a.cfg) \/ ~Unversioned(b.cfg)
              PROVE  MergeColumn(a.cfg, b.cfg, Eff(b) > Eff(a))
                       = MergeColumn(b.cfg, a.cfg, Eff(a) > Eff(b))
  BY DEF MergeSymmetric
<1>1. a \in GroupRow /\ b \in GroupRow
  BY DEF TypeOK, Live
<1>2. a.cfg \in Column /\ b.cfg \in Column
  BY <1>1, MeshAssumption DEF GroupRow, Column, Cell, Versions
<1>3. Eff(a) \in Int /\ Eff(b) \in Int
  BY <1>1, MeshAssumption DEF GroupRow, Eff, Times
<1>4. CASE Unversioned(a.cfg) /\ Unversioned(b.cfg)
  BY <1>3, <1>4 DEF MergeColumn
<1>5. CASE ~(Unversioned(a.cfg) /\ Unversioned(b.cfg))
  BY <1>5, <1>2, MergeFieldsCommutes DEF MergeColumn
<1>. QED  BY <1>4, <1>5

HIDE RenderAssumption

--------------------------------------------------------------------------
(* The rows of a payload, one after another *)

MergeGroups(st, T) == InTurn(MergeGroup, st, T)
MergeAliases(st, T) == InTurn(MergeAlias, st, T)
MergeKeys(st, T) == InTurn(MergeKey, st, T)
SnapGroups(st, T) == InTurn(SnapGroup, st, T)
SnapKeys(st, T) == InTurn(SnapKey, st, T)
SnapAliases(st, T) == InTurn(SnapAlias, st, T)

\* The last row is one of them: there is a greatest id.
LEMMA NewestIs ==
  ASSUME NEW T, IsFiniteSet(T), T # {}, \A r \in T : r.id \in Nat
  PROVE  Newest(T) \in T /\ \A s \in T : s.id <= Newest(T).id
<1>. DEFINE Numbers == {r.id : r \in T}
<1>1. Numbers \in SUBSET Nat /\ Numbers # {} /\ IsFiniteSet(Numbers)
  <2>1. Numbers \in SUBSET Nat /\ Numbers # {}
    OBVIOUS
  <2>2. IsFiniteSet(Numbers)
    <3>. DEFINE f == [r \in T |-> r.id]
    <3>1. Numbers = {f[r] : r \in T}
      OBVIOUS
    <3>. HIDE DEF f, Numbers
    <3>. QED  BY <3>1, ImageFinite
  <2>. QED  BY <2>1, <2>2
<1>2. PICK m \in Numbers : \A j \in Numbers : j <= m
  <2>. HIDE DEF Numbers
  <2>. QED  BY <1>1, GreatestExists
<1>3. \E r \in T : \A s \in T : s.id <= r.id
  BY <1>2
<1>. QED  BY <1>3 DEF Newest

\* The fold of F over the rows of each part of T.
RunOf(h, F, st, T) ==
    h = [s \in SUBSET T |-> IF s = {} THEN st ELSE F[<<h[s \ {Newest(s)}], Newest(s)>>]]

\* It exists and stays where its steps stay.
LEMMA InTurnExists ==
  ASSUME NEW T, IsFiniteSet(T), \A r \in T : r.id \in Nat,
         NEW A, NEW st \in A, NEW F, \A a \in A, r \in T : F[<<a, r>>] \in A
  PROVE  \E h : RunOf(h, F, st, T) /\ \A s \in SUBSET T : h[s] \in A
<1>. DEFINE c == [s \in SUBSET T |-> Newest(s)]
<1>1. \A s \in SUBSET T : s # {} => c[s] \in s /\ c[s] = Newest(s)
  BY NewestIs, FS_Subset
<1>. HIDE DEF c
<1>2. PICK h : FoldsOver(h, F, c, st, T)
  BY <1>1, FoldExists
<1>3. h[{}] \in A /\ \A s \in SUBSET T : s # {} /\ h[s \ {c[s]}] \in A => h[s] \in A
  BY <1>1, <1>2 DEF FoldsOver
<1>4. \A s \in SUBSET T : h[s] \in A
  BY <1>1, <1>3, FoldStays
<1>5. RunOf(h, F, st, T)
  BY <1>1, <1>2 DEF FoldsOver, RunOf
<1>. QED  BY <1>4, <1>5

\* Whatever the function, what its steps keep holds at the end.
LEMMA InTurnStays ==
  ASSUME NEW T, IsFiniteSet(T), \A r \in T : r.id \in Nat, NEW A, NEW g, g[{}] \in A,
         \A s \in SUBSET T : s # {} /\ g[s \ {Newest(s)}] \in A => g[s] \in A
  PROVE  g[T] \in A
<1>. DEFINE c == [s \in SUBSET T |-> Newest(s)]
<1>1. \A s \in SUBSET T : s # {} => c[s] \in s /\ c[s] = Newest(s)
  BY NewestIs, FS_Subset
<1>. HIDE DEF c
<1>2. \A s \in SUBSET T : s # {} /\ g[s \ {c[s]}] \in A => g[s] \in A
  BY <1>1
<1>. QED  BY <1>1, <1>2, FoldStays

\* What the merge of each group keeps, that of all keeps.
LEMMA MergeGroupsStay ==
  ASSUME NEW T, IsFiniteSet(T), \A r \in T : r.id \in Nat,
         NEW A, NEW st \in A, \A a \in A, r \in T : MergeGroup(a, r) \in A
  PROVE  MergeGroups(st, T) \in A
<1>. DEFINE F == [x \in A \X T |-> MergeGroup(x[1], x[2])]
            It(h) == h = [s \in SUBSET T |-> IF s = {} THEN st ELSE MergeGroup(h[s \ {Newest(s)}], Newest(s))]
            g == CHOOSE h : It(h)
<1>1. /\ \A a \in A, r \in T : F[<<a, r>>] = MergeGroup(a, r) /\ F[<<a, r>>] \in A
      /\ \A s \in SUBSET T : s # {} => Newest(s) \in T
  BY NewestIs, FS_Subset
<1>. HIDE DEF F
<1>2. It(g)
  <2>1. PICK h : RunOf(h, F, st, T) /\ \A s \in SUBSET T : h[s] \in A
    BY <1>1, InTurnExists
  <2>2. It(h)
    BY <1>1, <2>1 DEF RunOf
  <2>. QED  BY <2>2
<1>. HIDE DEF g
<1>3. g[{}] \in A /\ \A s \in SUBSET T : s # {} /\ g[s \ {Newest(s)}] \in A => g[s] \in A
  BY <1>1, <1>2
<1>4. g[T] \in A
  BY <1>3, InTurnStays
<1>5. MergeGroups(st, T) = g[T]
  BY DEF MergeGroups, InTurn, MapThenFoldSet, g
<1>. QED  BY <1>4, <1>5

\* What the merge of each alias keeps, that of all keeps.
LEMMA MergeAliasesStay ==
  ASSUME NEW T, IsFiniteSet(T), \A r \in T : r.id \in Nat,
         NEW A, NEW st \in A, \A a \in A, r \in T : MergeAlias(a, r) \in A
  PROVE  MergeAliases(st, T) \in A
<1>. DEFINE F == [x \in A \X T |-> MergeAlias(x[1], x[2])]
            It(h) == h = [s \in SUBSET T |-> IF s = {} THEN st ELSE MergeAlias(h[s \ {Newest(s)}], Newest(s))]
            g == CHOOSE h : It(h)
<1>1. /\ \A a \in A, r \in T : F[<<a, r>>] = MergeAlias(a, r) /\ F[<<a, r>>] \in A
      /\ \A s \in SUBSET T : s # {} => Newest(s) \in T
  BY NewestIs, FS_Subset
<1>. HIDE DEF F
<1>2. It(g)
  <2>1. PICK h : RunOf(h, F, st, T) /\ \A s \in SUBSET T : h[s] \in A
    BY <1>1, InTurnExists
  <2>2. It(h)
    BY <1>1, <2>1 DEF RunOf
  <2>. QED  BY <2>2
<1>. HIDE DEF g
<1>3. g[{}] \in A /\ \A s \in SUBSET T : s # {} /\ g[s \ {Newest(s)}] \in A => g[s] \in A
  BY <1>1, <1>2
<1>4. g[T] \in A
  BY <1>3, InTurnStays
<1>5. MergeAliases(st, T) = g[T]
  BY DEF MergeAliases, InTurn, MapThenFoldSet, g
<1>. QED  BY <1>4, <1>5

\* What the merge of each key keeps, that of all keeps.
LEMMA MergeKeysStay ==
  ASSUME NEW T, IsFiniteSet(T), \A r \in T : r.id \in Nat,
         NEW A, NEW st \in A, \A a \in A, r \in T : MergeKey(a, r) \in A
  PROVE  MergeKeys(st, T) \in A
<1>. DEFINE F == [x \in A \X T |-> MergeKey(x[1], x[2])]
            It(h) == h = [s \in SUBSET T |-> IF s = {} THEN st ELSE MergeKey(h[s \ {Newest(s)}], Newest(s))]
            g == CHOOSE h : It(h)
<1>1. /\ \A a \in A, r \in T : F[<<a, r>>] = MergeKey(a, r) /\ F[<<a, r>>] \in A
      /\ \A s \in SUBSET T : s # {} => Newest(s) \in T
  BY NewestIs, FS_Subset
<1>. HIDE DEF F
<1>2. It(g)
  <2>1. PICK h : RunOf(h, F, st, T) /\ \A s \in SUBSET T : h[s] \in A
    BY <1>1, InTurnExists
  <2>2. It(h)
    BY <1>1, <2>1 DEF RunOf
  <2>. QED  BY <2>2
<1>. HIDE DEF g
<1>3. g[{}] \in A /\ \A s \in SUBSET T : s # {} /\ g[s \ {Newest(s)}] \in A => g[s] \in A
  BY <1>1, <1>2
<1>4. g[T] \in A
  BY <1>3, InTurnStays
<1>5. MergeKeys(st, T) = g[T]
  BY DEF MergeKeys, InTurn, MapThenFoldSet, g
<1>. QED  BY <1>4, <1>5

\* What each step brings nearer is reached at the end.
LEMMA InTurnCovers ==
  ASSUME NEW T, IsFiniteSet(T), \A r \in T : r.id \in Nat, NEW J, NEW g, g[{}] \in J[{}],
         \A s \in SUBSET T : s # {} /\ g[s \ {Newest(s)}] \in J[s \ {Newest(s)}] => g[s] \in J[s]
  PROVE  g[T] \in J[T]
<1>. DEFINE A == {s \in SUBSET T : g[s] \in J[s]}
            h == [s \in SUBSET T |-> s]
<1>1. h[{}] \in A
  OBVIOUS
<1>2. ASSUME NEW s \in SUBSET T, s # {}, h[s \ {Newest(s)}] \in A PROVE h[s] \in A
  <2>1. g[s \ {Newest(s)}] \in J[s \ {Newest(s)}]
    BY <1>2
  <2>2. g[s] \in J[s]
    BY <1>2, <2>1
  <2>. QED  BY <2>2
<1>. HIDE DEF A, h
<1>3. h[T] \in A
  BY <1>1, <1>2, InTurnStays
<1>. QED  BY <1>3 DEF A, h

\* The mirroring of groups is a run.
SnapGroupRun(g, st, T) ==
    /\ g[{}] = st /\ g[T] = SnapGroups(st, T)
    /\ \A s \in SUBSET T : s # {} => /\ Newest(s) \in s
                                     /\ g[s] = SnapGroup(g[s \ {Newest(s)}], Newest(s))

LEMMA SnapGroupsRun ==
  ASSUME NEW T, IsFiniteSet(T), \A r \in T : r.id \in Nat,
         NEW A, NEW st \in A, \A a \in A, r \in T : SnapGroup(a, r) \in A
  PROVE  \E g : SnapGroupRun(g, st, T)
<1>. DEFINE F == [x \in A \X T |-> SnapGroup(x[1], x[2])]
            It(h) == h = [s \in SUBSET T |-> IF s = {} THEN st ELSE SnapGroup(h[s \ {Newest(s)}], Newest(s))]
            g == CHOOSE h : It(h)
<1>1. /\ \A a \in A, r \in T : F[<<a, r>>] = SnapGroup(a, r) /\ F[<<a, r>>] \in A
      /\ \A s \in SUBSET T : s # {} => Newest(s) \in s
  BY NewestIs, FS_Subset
<1>. HIDE DEF F
<1>2. It(g)
  <2>1. PICK h : RunOf(h, F, st, T) /\ \A s \in SUBSET T : h[s] \in A
    BY <1>1, InTurnExists
  <2>2. It(h)
    BY <1>1, <2>1 DEF RunOf
  <2>. QED  BY <2>2
<1>3. SnapGroups(st, T) = g[T]
  BY DEF SnapGroups, InTurn, MapThenFoldSet, g
<1>. HIDE DEF g
<1>4. g[{}] = st /\ \A s \in SUBSET T : s # {} => g[s] = SnapGroup(g[s \ {Newest(s)}], Newest(s))
  BY <1>2
<1>. QED  BY <1>1, <1>3, <1>4 DEF SnapGroupRun

\* What the mirroring of each keeps, that of all keeps.
LEMMA SnapGroupsStay ==
  ASSUME NEW T, IsFiniteSet(T), \A r \in T : r.id \in Nat,
         NEW A, NEW st \in A, \A a \in A, r \in T : SnapGroup(a, r) \in A
  PROVE  SnapGroups(st, T) \in A
<1>0. PICK g : SnapGroupRun(g, st, T)
  BY SnapGroupsRun
<1>1. /\ g[{}] = st /\ g[T] = SnapGroups(st, T)
      /\ \A s \in SUBSET T : s # {} => /\ Newest(s) \in s
                                       /\ g[s] = SnapGroup(g[s \ {Newest(s)}], Newest(s))
  BY <1>0 DEF SnapGroupRun
<1>2. \A s \in SUBSET T : s # {} /\ g[s \ {Newest(s)}] \in A => g[s] \in A
  BY <1>1
<1>3. g[T] \in A
  BY <1>1, <1>2, InTurnStays
<1>. QED  BY <1>1, <1>3

\* What grows with each of them has grown to its end with the last.
LEMMA SnapGroupsCover ==
  ASSUME NEW T, IsFiniteSet(T), \A r \in T : r.id \in Nat,
         NEW A, NEW st \in A, \A a \in A, r \in T : SnapGroup(a, r) \in A,
         NEW J, st \in J[{}],
         \A s \in SUBSET T, a \in A, r \in T :
            r \in s /\ a \in J[s \ {r}] => SnapGroup(a, r) \in J[s]
  PROVE  SnapGroups(st, T) \in J[T]
<1>0. PICK g : SnapGroupRun(g, st, T)
  BY SnapGroupsRun
<1>1. /\ g[{}] = st /\ g[T] = SnapGroups(st, T)
      /\ \A s \in SUBSET T : s # {} => /\ Newest(s) \in s
                                       /\ g[s] = SnapGroup(g[s \ {Newest(s)}], Newest(s))
  BY <1>0 DEF SnapGroupRun
<1>. DEFINE Grown == [s \in SUBSET T |-> J[s] \cap A]
<1>2. ASSUME NEW s \in SUBSET T, s # {}, g[s \ {Newest(s)}] \in Grown[s \ {Newest(s)}]
      PROVE  g[s] \in Grown[s]
  <2>1. PICK r \in T : r = Newest(s) /\ r \in s /\ g[s] = SnapGroup(g[s \ {r}], r)
    BY <1>1, <1>2
  <2>2. g[s \ {r}] \in J[s \ {r}] /\ g[s \ {r}] \in A
    BY <1>2, <2>1
  <2>. QED  BY <2>1, <2>2
<1>3. g[{}] \in Grown[{}]
  BY <1>1
<1>. HIDE DEF Grown
<1>4. g[T] \in Grown[T]
  BY <1>2, <1>3, InTurnCovers
<1>. QED  BY <1>1, <1>4 DEF Grown

\* The mirroring of keys is a run.
SnapKeyRun(g, st, T) ==
    /\ g[{}] = st /\ g[T] = SnapKeys(st, T)
    /\ \A s \in SUBSET T : s # {} => /\ Newest(s) \in s
                                     /\ g[s] = SnapKey(g[s \ {Newest(s)}], Newest(s))

LEMMA SnapKeysRun ==
  ASSUME NEW T, IsFiniteSet(T), \A r \in T : r.id \in Nat,
         NEW A, NEW st \in A, \A a \in A, r \in T : SnapKey(a, r) \in A
  PROVE  \E g : SnapKeyRun(g, st, T)
<1>. DEFINE F == [x \in A \X T |-> SnapKey(x[1], x[2])]
            It(h) == h = [s \in SUBSET T |-> IF s = {} THEN st ELSE SnapKey(h[s \ {Newest(s)}], Newest(s))]
            g == CHOOSE h : It(h)
<1>1. /\ \A a \in A, r \in T : F[<<a, r>>] = SnapKey(a, r) /\ F[<<a, r>>] \in A
      /\ \A s \in SUBSET T : s # {} => Newest(s) \in s
  BY NewestIs, FS_Subset
<1>. HIDE DEF F
<1>2. It(g)
  <2>1. PICK h : RunOf(h, F, st, T) /\ \A s \in SUBSET T : h[s] \in A
    BY <1>1, InTurnExists
  <2>2. It(h)
    BY <1>1, <2>1 DEF RunOf
  <2>. QED  BY <2>2
<1>3. SnapKeys(st, T) = g[T]
  BY DEF SnapKeys, InTurn, MapThenFoldSet, g
<1>. HIDE DEF g
<1>4. g[{}] = st /\ \A s \in SUBSET T : s # {} => g[s] = SnapKey(g[s \ {Newest(s)}], Newest(s))
  BY <1>2
<1>. QED  BY <1>1, <1>3, <1>4 DEF SnapKeyRun

\* What the mirroring of each keeps, that of all keeps.
LEMMA SnapKeysStay ==
  ASSUME NEW T, IsFiniteSet(T), \A r \in T : r.id \in Nat,
         NEW A, NEW st \in A, \A a \in A, r \in T : SnapKey(a, r) \in A
  PROVE  SnapKeys(st, T) \in A
<1>0. PICK g : SnapKeyRun(g, st, T)
  BY SnapKeysRun
<1>1. /\ g[{}] = st /\ g[T] = SnapKeys(st, T)
      /\ \A s \in SUBSET T : s # {} => /\ Newest(s) \in s
                                       /\ g[s] = SnapKey(g[s \ {Newest(s)}], Newest(s))
  BY <1>0 DEF SnapKeyRun
<1>2. \A s \in SUBSET T : s # {} /\ g[s \ {Newest(s)}] \in A => g[s] \in A
  BY <1>1
<1>3. g[T] \in A
  BY <1>1, <1>2, InTurnStays
<1>. QED  BY <1>1, <1>3

\* What grows with each of them has grown to its end with the last.
LEMMA SnapKeysCover ==
  ASSUME NEW T, IsFiniteSet(T), \A r \in T : r.id \in Nat,
         NEW A, NEW st \in A, \A a \in A, r \in T : SnapKey(a, r) \in A,
         NEW J, st \in J[{}],
         \A s \in SUBSET T, a \in A, r \in T :
            r \in s /\ a \in J[s \ {r}] => SnapKey(a, r) \in J[s]
  PROVE  SnapKeys(st, T) \in J[T]
<1>0. PICK g : SnapKeyRun(g, st, T)
  BY SnapKeysRun
<1>1. /\ g[{}] = st /\ g[T] = SnapKeys(st, T)
      /\ \A s \in SUBSET T : s # {} => /\ Newest(s) \in s
                                       /\ g[s] = SnapKey(g[s \ {Newest(s)}], Newest(s))
  BY <1>0 DEF SnapKeyRun
<1>. DEFINE Grown == [s \in SUBSET T |-> J[s] \cap A]
<1>2. ASSUME NEW s \in SUBSET T, s # {}, g[s \ {Newest(s)}] \in Grown[s \ {Newest(s)}]
      PROVE  g[s] \in Grown[s]
  <2>1. PICK r \in T : r = Newest(s) /\ r \in s /\ g[s] = SnapKey(g[s \ {r}], r)
    BY <1>1, <1>2
  <2>2. g[s \ {r}] \in J[s \ {r}] /\ g[s \ {r}] \in A
    BY <1>2, <2>1
  <2>. QED  BY <2>1, <2>2
<1>3. g[{}] \in Grown[{}]
  BY <1>1
<1>. HIDE DEF Grown
<1>4. g[T] \in Grown[T]
  BY <1>2, <1>3, InTurnCovers
<1>. QED  BY <1>1, <1>4 DEF Grown

\* The mirroring of aliases is a run.
SnapAliasRun(g, st, T) ==
    /\ g[{}] = st /\ g[T] = SnapAliases(st, T)
    /\ \A s \in SUBSET T : s # {} => /\ Newest(s) \in s
                                     /\ g[s] = SnapAlias(g[s \ {Newest(s)}], Newest(s))

LEMMA SnapAliasesRun ==
  ASSUME NEW T, IsFiniteSet(T), \A r \in T : r.id \in Nat,
         NEW A, NEW st \in A, \A a \in A, r \in T : SnapAlias(a, r) \in A
  PROVE  \E g : SnapAliasRun(g, st, T)
<1>. DEFINE F == [x \in A \X T |-> SnapAlias(x[1], x[2])]
            It(h) == h = [s \in SUBSET T |-> IF s = {} THEN st ELSE SnapAlias(h[s \ {Newest(s)}], Newest(s))]
            g == CHOOSE h : It(h)
<1>1. /\ \A a \in A, r \in T : F[<<a, r>>] = SnapAlias(a, r) /\ F[<<a, r>>] \in A
      /\ \A s \in SUBSET T : s # {} => Newest(s) \in s
  BY NewestIs, FS_Subset
<1>. HIDE DEF F
<1>2. It(g)
  <2>1. PICK h : RunOf(h, F, st, T) /\ \A s \in SUBSET T : h[s] \in A
    BY <1>1, InTurnExists
  <2>2. It(h)
    BY <1>1, <2>1 DEF RunOf
  <2>. QED  BY <2>2
<1>3. SnapAliases(st, T) = g[T]
  BY DEF SnapAliases, InTurn, MapThenFoldSet, g
<1>. HIDE DEF g
<1>4. g[{}] = st /\ \A s \in SUBSET T : s # {} => g[s] = SnapAlias(g[s \ {Newest(s)}], Newest(s))
  BY <1>2
<1>. QED  BY <1>1, <1>3, <1>4 DEF SnapAliasRun

\* What the mirroring of each keeps, that of all keeps.
LEMMA SnapAliasesStay ==
  ASSUME NEW T, IsFiniteSet(T), \A r \in T : r.id \in Nat,
         NEW A, NEW st \in A, \A a \in A, r \in T : SnapAlias(a, r) \in A
  PROVE  SnapAliases(st, T) \in A
<1>0. PICK g : SnapAliasRun(g, st, T)
  BY SnapAliasesRun
<1>1. /\ g[{}] = st /\ g[T] = SnapAliases(st, T)
      /\ \A s \in SUBSET T : s # {} => /\ Newest(s) \in s
                                       /\ g[s] = SnapAlias(g[s \ {Newest(s)}], Newest(s))
  BY <1>0 DEF SnapAliasRun
<1>2. \A s \in SUBSET T : s # {} /\ g[s \ {Newest(s)}] \in A => g[s] \in A
  BY <1>1
<1>3. g[T] \in A
  BY <1>1, <1>2, InTurnStays
<1>. QED  BY <1>1, <1>3

\* What grows with each of them has grown to its end with the last.
LEMMA SnapAliasesCover ==
  ASSUME NEW T, IsFiniteSet(T), \A r \in T : r.id \in Nat,
         NEW A, NEW st \in A, \A a \in A, r \in T : SnapAlias(a, r) \in A,
         NEW J, st \in J[{}],
         \A s \in SUBSET T, a \in A, r \in T :
            r \in s /\ a \in J[s \ {r}] => SnapAlias(a, r) \in J[s]
  PROVE  SnapAliases(st, T) \in J[T]
<1>0. PICK g : SnapAliasRun(g, st, T)
  BY SnapAliasesRun
<1>1. /\ g[{}] = st /\ g[T] = SnapAliases(st, T)
      /\ \A s \in SUBSET T : s # {} => /\ Newest(s) \in s
                                       /\ g[s] = SnapAlias(g[s \ {Newest(s)}], Newest(s))
  BY <1>0 DEF SnapAliasRun
<1>. DEFINE Grown == [s \in SUBSET T |-> J[s] \cap A]
<1>2. ASSUME NEW s \in SUBSET T, s # {}, g[s \ {Newest(s)}] \in Grown[s \ {Newest(s)}]
      PROVE  g[s] \in Grown[s]
  <2>1. PICK r \in T : r = Newest(s) /\ r \in s /\ g[s] = SnapAlias(g[s \ {r}], r)
    BY <1>1, <1>2
  <2>2. g[s \ {r}] \in J[s \ {r}] /\ g[s \ {r}] \in A
    BY <1>2, <2>1
  <2>. QED  BY <2>1, <2>2
<1>3. g[{}] \in Grown[{}]
  BY <1>1
<1>. HIDE DEF Grown
<1>4. g[T] \in Grown[T]
  BY <1>2, <1>3, InTurnCovers
<1>. QED  BY <1>1, <1>4 DEF Grown

--------------------------------------------------------------------------
(* Tables *)

\* A row with the time of its deletion.
Killed(r, t) == [r EXCEPT !.del = t]

\* A deletion row by row.
LEMMA KillIs ==
  ASSUME NEW T, NEW S, NEW t
  PROVE  Kill(T, S, t) = {IF r \in S THEN Killed(r, t) ELSE r : r \in T}
  BY DEF Kill, Killed

\* Every row has an id.
Numbered(Rows) == \A r \in Rows : r.id \in Nat \ {0}

\* A table: ids are not used twice, and the next one is free.
Table(T, Rows) ==
    /\ IsFiniteSet(T) /\ T \subseteq Rows
    /\ UniqueIn(T, "id")
    /\ \A r \in T : r.id <= Cardinality(T)

\* The id tells which row it is.
LEMMA IdIsKey ==
  ASSUME NEW T, UniqueIn(T, "id"), NEW r \in T, NEW s \in T, r.id = s.id
  PROVE  r = s
  BY DEF UniqueIn

\* A row that is written over a row with its id.
LEMMA PutOver ==
  ASSUME NEW Rows, Numbered(Rows), NEW T, Table(T, Rows), NEW r \in Rows, NEW e \in T, e.id = r.id
  PROVE  Table(Put(T, r), Rows)
<1>1. Put(T, r) = (T \ {e}) \cup {r}
  BY DEF Put, Table, UniqueIn
<1>2. r \notin T \ {e}
  BY DEF Table, UniqueIn
<1>3. /\ IsFiniteSet(T \ {e}) /\ Cardinality(T \ {e}) = Cardinality(T) - 1
      /\ Cardinality(T) \in Nat
  BY FS_RemoveElement, FS_CardinalityType DEF Table
<1>4. IsFiniteSet(Put(T, r)) /\ Cardinality(Put(T, r)) = Cardinality(T)
  <2>1. /\ IsFiniteSet((T \ {e}) \cup {r})
        /\ Cardinality((T \ {e}) \cup {r}) = Cardinality(T \ {e}) + 1
    BY <1>2, <1>3, FS_AddElement
  <2>. QED  BY <1>1, <1>3, <2>1
<1>5. UniqueIn(Put(T, r), "id")
  BY DEF Put, Table, UniqueIn
<1>6. Put(T, r) \subseteq Rows /\ \A s \in Put(T, r) : s.id <= Cardinality(T)
  BY DEF Put, Table
<1>. QED  BY <1>4, <1>5, <1>6 DEF Table

\* A new row.
LEMMA PutNext ==
  ASSUME NEW Rows, Numbered(Rows), NEW T, Table(T, Rows), NEW r \in Rows, r.id = NextId(T)
  PROVE  /\ Table(Put(T, r), Rows)
         /\ Put(T, r) = T \cup {r}
         /\ \A s \in T : s.id # r.id
<1>1. Cardinality(T) \in Nat
  BY FS_CardinalityType DEF Table
<1>2. \A s \in T : s.id # r.id /\ s.id <= Cardinality(T) + 1
  BY <1>1 DEF Table, NextId, Numbered
<1>3. Put(T, r) = T \cup {r} /\ r \notin T
  BY <1>2 DEF Put
<1>4. IsFiniteSet(Put(T, r)) /\ Cardinality(Put(T, r)) = Cardinality(T) + 1
  BY <1>3, FS_AddElement DEF Table
<1>5. UniqueIn(Put(T, r), "id")
  BY <1>2, <1>3 DEF Table, UniqueIn
<1>6. Put(T, r) \subseteq Rows /\ \A s \in Put(T, r) : s.id <= Cardinality(T) + 1
  BY <1>1, <1>2, <1>3 DEF Table, NextId
<1>. QED  BY <1>2, <1>3, <1>4, <1>5, <1>6 DEF Table

\* A write keeps the table and its ids.
LEMMA PutKeeps ==
  ASSUME NEW Rows, Numbered(Rows), NEW T, Table(T, Rows), NEW r \in Rows,
         r.id = NextId(T) \/ \E e \in T : e.id = r.id
  PROVE  /\ Table(Put(T, r), Rows)
         /\ \A s \in T : \E q \in Put(T, r) : q.id = s.id
<1>1. Table(Put(T, r), Rows)
  BY PutOver, PutNext
<1>2. \A s \in T : \E q \in Put(T, r) : q.id = s.id
  BY DEF Put
<1>. QED  BY <1>1, <1>2

\* A deletion keeps the table and its ids.
LEMMA KillKeeps ==
  ASSUME NEW Rows, NEW T, Table(T, Rows), NEW S \in SUBSET T, NEW t,
         \A r \in S : Killed(r, t) \in Rows /\ Killed(r, t).id = r.id
  PROVE  /\ Table(Kill(T, S, t), Rows)
         /\ \A s \in T : \E q \in Kill(T, S, t) : q.id = s.id
<1>. DEFINE f == [r \in T |-> IF r \in S THEN Killed(r, t) ELSE r]
<1>1. Kill(T, S, t) = {f[r] : r \in T}
  BY KillIs
<1>2. \A r \in T : f[r] \in Rows /\ f[r].id = r.id
  BY DEF Table
<1>. HIDE DEF f
<1>3. \A r, s \in T : f[r] = f[s] => r = s
  BY <1>2, IdIsKey DEF Table
<1>4. IsFiniteSet(Kill(T, S, t)) /\ Cardinality(Kill(T, S, t)) = Cardinality(T)
  <2>1. IsFiniteSet(T)
    BY DEF Table
  <2>2. IsFiniteSet({f[r] : r \in T}) /\ Cardinality({f[r] : r \in T}) = Cardinality(T)
    BY <1>3, <2>1, ImageFinite
  <2>. QED  BY <1>1, <2>2
<1>5. UniqueIn(Kill(T, S, t), "id")
  BY <1>1, <1>2 DEF UniqueIn, Table
<1>6. /\ Kill(T, S, t) \subseteq Rows
      /\ \A q \in Kill(T, S, t) : q.id <= Cardinality(T)
      /\ \A s \in T : \E q \in Kill(T, S, t) : q.id = s.id
  BY <1>1, <1>2 DEF Table
<1>. QED  BY <1>4, <1>5, <1>6 DEF Table

\* Which rows live after a write and after a deletion.
LEMMA LiveAfterPut ==
  ASSUME NEW T, NEW r
  PROVE  /\ Live(Put(T, r)) = {s \in Live(T) : s.id # r.id} \cup {s \in {r} : s.del = 0}
         /\ Dead(Put(T, r)) = {s \in Dead(T) : s.id # r.id} \cup {s \in {r} : s.del # 0}
  BY DEF Live, Dead, Put

KilledOf(S, t) == {Killed(r, t) : r \in S}

LEMMA LiveAfterKill ==
  ASSUME NEW T, NEW S \in SUBSET T, NEW t, t # 0, \A r \in S : Killed(r, t).del = t
  PROVE  /\ Live(Kill(T, S, t)) = Live(T) \ S
         /\ Dead(Kill(T, S, t)) \subseteq Dead(T) \cup KilledOf(S, t)
<1>. DEFINE f == [r \in S |-> Killed(r, t)]
<1>1. \A r \in S : f[r] = Killed(r, t) /\ f[r].del = t
  OBVIOUS
<1>2. \A q \in Kill(T, S, t) : q \in T \ S \/ \E r \in S : q = f[r]
  BY <1>1, KillIs
<1>3. T \ S \subseteq Kill(T, S, t)
  BY KillIs
<1>4. \A d \in Dead(Kill(T, S, t)) : d \in Dead(T) \/ \E r \in S : d = f[r]
  <2>. HIDE DEF f
  <2>. QED  BY <1>2, <1>3 DEF Live, Dead
<1>5. Live(Kill(T, S, t)) = Live(T) \ S
  <2>. HIDE DEF f
  <2>1. \A r \in S : f[r].del # 0
    BY <1>1
  <2>. QED  BY <1>2, <1>3, <2>1 DEF Live
<1>. QED  BY <1>1, <1>4, <1>5 DEF KilledOf

\* A column stays unique among living rows if a new row does not repeat a value.
LEMMA UniqueAfterPut ==
  ASSUME NEW c, NEW T, UniqueIn(Live(T), c), NEW r,
         r.del = 0 => \A s \in Live(T) : s.id # r.id => s[c] # r[c]
  PROVE  UniqueIn(Live(Put(T, r)), c)
  BY LiveAfterPut DEF UniqueIn

\* A deletion repeats no value.
LEMMA UniqueAfterKill ==
  ASSUME NEW c, NEW T, UniqueIn(Live(T), c), NEW S \in SUBSET T, NEW t, t # 0,
         \A r \in S : Killed(r, t).del = t
  PROVE  UniqueIn(Live(Kill(T, S, t)), c)
<1>1. Live(Kill(T, S, t)) = Live(T) \ S
  BY LiveAfterKill
<1>. QED  BY <1>1 DEF UniqueIn

--------------------------------------------------------------------------
(* The three tables of a node *)

\* Keys: a row is never written after now, nor after its deletion.
KeyRow(t) == {r \in ChildRow : r.upd <= t /\ (r.del # 0 => r.upd <= r.del)}

GroupTable(T) == Table(T, GroupRow) /\ UniqueIn(Live(T), "name")
KeyTable(T, t) == Table(T, KeyRow(t)) /\ UniqueIn(Live(T), "gid")
AliasTable(T) == Table(T, ChildRow) /\ UniqueIn(Live(T), "gid")

\* No living key is older than a deletion of its credential.
Fresh(T) == \A k \in Live(T), d \in Dead(T) : k.gid = d.gid => Eff(d) <= Eff(k)

LEMMA RowsNumbered ==
  ASSUME NEW t
  PROVE  Numbered(GroupRow) /\ Numbered(ChildRow) /\ Numbered(KeyRow(t))
  BY DEF Numbered, GroupRow, ChildRow, KeyRow, Ids

\* A deleted row is a row.
LEMMA GroupKilled ==
  ASSUME NEW t \in Times, NEW r \in GroupRow
  PROVE  Killed(r, t) \in GroupRow /\ Killed(r, t).id = r.id /\ Killed(r, t).del = t
  BY MeshAssumption DEF GroupRow, Times, Killed

LEMMA ChildKilled ==
  ASSUME NEW t \in Times, NEW r \in ChildRow
  PROVE  /\ Killed(r, t) \in ChildRow /\ Killed(r, t).id = r.id
         /\ Killed(r, t).del = t /\ Killed(r, t).gid = r.gid
         /\ r \in KeyRow(t) => Killed(r, t) \in KeyRow(t)
  BY MeshAssumption DEF ChildRow, Times, KeyRow, Killed

\* A deletion keeps a table sound and its ids.
LEMMA GroupsKill ==
  ASSUME NEW t \in Times, NEW T, GroupTable(T), NEW S \in SUBSET T
  PROVE  /\ GroupTable(Kill(T, S, t))
         /\ \A s \in T : \E q \in Kill(T, S, t) : q.id = s.id
<1>1. t # 0 /\ \A r \in S : Killed(r, t) \in GroupRow /\ Killed(r, t).id = r.id
                            /\ Killed(r, t).del = t
  BY GroupKilled DEF GroupTable, Table, Times
<1>. QED  BY <1>1, KillKeeps, UniqueAfterKill DEF GroupTable

\* Deleting keys keeps them fresh if no key with the same credential stays.
LEMMA KeysKill ==
  ASSUME NEW t \in Times, NEW T, KeyTable(T, t), NEW S \in SUBSET T
  PROVE  /\ KeyTable(Kill(T, S, t), t)
         /\ (Fresh(T) /\ \A k \in Live(T) \ S, s \in S : k.gid # s.gid) => Fresh(Kill(T, S, t))
<1>1. t # 0 /\ \A r \in S : /\ Killed(r, t) \in KeyRow(t) /\ Killed(r, t).id = r.id
                            /\ Killed(r, t).del = t /\ Killed(r, t).gid = r.gid
  BY ChildKilled DEF KeyTable, Table, KeyRow, Times
<1>2. KeyTable(Kill(T, S, t), t)
  BY <1>1, KillKeeps, UniqueAfterKill DEF KeyTable
<1>3. /\ Live(Kill(T, S, t)) = Live(T) \ S
      /\ Dead(Kill(T, S, t)) \subseteq Dead(T) \cup KilledOf(S, t)
  <2>1. t # 0 /\ \A r \in S : Killed(r, t).del = t
    BY <1>1
  <2>. QED  BY <2>1, LiveAfterKill
<1>4. ASSUME Fresh(T), \A k \in Live(T) \ S, s \in S : k.gid # s.gid,
             NEW k \in Live(Kill(T, S, t)), NEW d \in Dead(Kill(T, S, t)), k.gid = d.gid
      PROVE  Eff(d) <= Eff(k)
  <2>1. d \in Dead(T) \/ \E r \in S : d = Killed(r, t)
    BY <1>3 DEF KilledOf
  <2>. QED  BY <1>1, <1>3, <1>4, <2>1 DEF Fresh
<1>. QED  BY <1>2, <1>4 DEF Fresh

LEMMA AliasesKill ==
  ASSUME NEW t \in Times, NEW T, AliasTable(T), NEW S \in SUBSET T
  PROVE  AliasTable(Kill(T, S, t))
<1>1. t # 0 /\ \A r \in S : Killed(r, t) \in ChildRow /\ Killed(r, t).id = r.id
                            /\ Killed(r, t).del = t
  BY ChildKilled DEF AliasTable, Table, Times
<1>. QED  BY <1>1, KillKeeps, UniqueAfterKill DEF AliasTable

\* A row fits a table if its id is that of a row, or the next one.
Fits(r, T) == r.id = NextId(T) \/ \E e \in T : e.id = r.id

\* A row that fits and repeats no name of a living group keeps the table sound.
LEMMA GroupsPut ==
  ASSUME NEW T, GroupTable(T), NEW r \in GroupRow, Fits(r, T),
         r.del = 0 => \A s \in Live(T) : s.id # r.id => s.name # r.name
  PROVE  /\ GroupTable(Put(T, r))
         /\ \A s \in T : \E q \in Put(T, r) : q.id = s.id
<1>1. Table(Put(T, r), GroupRow) /\ \A s \in T : \E q \in Put(T, r) : q.id = s.id
  BY RowsNumbered, PutKeeps DEF GroupTable, Fits
<1>2. UniqueIn(Live(Put(T, r)), "name")
  BY UniqueAfterPut DEF GroupTable
<1>. QED  BY <1>1, <1>2 DEF GroupTable

LEMMA AliasesPut ==
  ASSUME NEW T, AliasTable(T), NEW r \in ChildRow, Fits(r, T),
         r.del = 0 => \A s \in Live(T) : s.id # r.id => s.gid # r.gid
  PROVE  AliasTable(Put(T, r))
<1>1. Table(Put(T, r), ChildRow)
  BY RowsNumbered, PutKeeps DEF AliasTable, Fits
<1>2. UniqueIn(Live(Put(T, r)), "gid")
  BY UniqueAfterPut DEF AliasTable
<1>. QED  BY <1>1, <1>2 DEF AliasTable

\* A living key that is written must not be older than a deletion of its credential.
LEMMA KeysPut ==
  ASSUME NEW t, NEW T, KeyTable(T, t), NEW r \in KeyRow(t), Fits(r, T),
         \A s \in Live(T) : s.id # r.id => s.gid # r.gid
  PROVE  /\ KeyTable(Put(T, r), t)
         /\ Fresh(T) /\ (r.del = 0 => \A d \in Dead(T) : d.gid = r.gid => Eff(d) <= Eff(r))
              => Fresh(Put(T, r))
<1>1. Table(Put(T, r), KeyRow(t))
  BY RowsNumbered, PutKeeps DEF KeyTable, Fits
<1>2. UniqueIn(Live(Put(T, r)), "gid")
  BY UniqueAfterPut DEF KeyTable
<1>3. ASSUME Fresh(T), r.del = 0 => \A d \in Dead(T) : d.gid = r.gid => Eff(d) <= Eff(r)
      PROVE  Fresh(Put(T, r))
  BY <1>3, LiveAfterPut DEF Fresh
<1>. QED  BY <1>1, <1>2, <1>3 DEF KeyTable

\* The row that a new id is given to is added.
LEMMA PutAdds ==
  ASSUME NEW t, NEW Rows \in {GroupRow, ChildRow, KeyRow(t)}, NEW T, Table(T, Rows),
         NEW r \in Rows, r.id = NextId(T)
  PROVE  Put(T, r) = T \cup {r} /\ Fits(r, T)
  BY PutNext, RowsNumbered DEF Fits

\* Of some rows of a table there is an oldest and a newest.
LEMMA EndsExist ==
  ASSUME NEW T, IsFiniteSet(T), \A r \in T : r.id \in Nat, NEW S \in SUBSET T, S # {}
  PROVE  Oldest(S) \in S /\ Newest(S) \in S
<1>1. Newest(S) \in S
  BY NewestIs, FS_Subset
<1>2. Oldest(S) \in S
  <2>. DEFINE Numbers == {r.id : r \in S}
  <2>1. Numbers \subseteq Nat /\ Numbers # {}
    OBVIOUS
  <2>2. PICK m \in Numbers : \A j \in Numbers : m <= j
    <3>. HIDE DEF Numbers
    <3>. QED  BY <2>1, LeastNumber
  <2>3. \E r \in S : \A s \in S : r.id <= s.id
    BY <2>2
  <2>. QED  BY <2>3 DEF Oldest
<1>. QED  BY <1>1, <1>2

--------------------------------------------------------------------------
(* What a merge and a mirroring keep *)

Columns == [Field -> [val : Value \cup {Absent}, ver : Versions]]

\* Merging makes columns of columns.
LEMMA ColumnsKept ==
  ASSUME NEW a \in Columns, NEW b \in Columns, NEW wins
  PROVE  /\ MergeColumn(a, b, wins) \in Columns /\ KeepLocal(a, b, Local) \in Columns
         /\ Blank \in Columns
<1>1. \A f \in Field : MergeCell(a[f], b[f]) \in {a[f], b[f]}
  BY DEF MergeCell
<1>2. MergeFields(a, b) \in Columns
  BY <1>1 DEF MergeFields, Columns
<1>3. KeepLocal(a, b, Local) \in Columns
  BY DEF KeepLocal, Columns
<1>4. Blank \in Columns
  BY MeshAssumption DEF Blank, Columns, Versions
<1>. QED  BY <1>2, <1>3, <1>4 DEF MergeColumn

\* From ids of the sender to ids here.
Maps == UNION {[D -> Ids] : D \in SUBSET Ids}

LEMMA MapsAre ==
  /\ <<>> \in Maps
  /\ \A m \in Maps : \A i \in DOMAIN m : m[i] \in Ids
  /\ \A m \in Maps, i, v \in Ids : [j \in DOMAIN m \cup {i} |-> IF j = i THEN v ELSE m[j]] \in Maps
<1>1. <<>> \in [{} -> Ids]
  OBVIOUS
<1>2. <<>> \in Maps
  BY <1>1 DEF Maps
<1>3. ASSUME NEW m \in Maps PROVE DOMAIN m \in SUBSET Ids /\ m \in [DOMAIN m -> Ids]
  BY DEF Maps
<1>4. ASSUME NEW m \in Maps, NEW i \in Ids, NEW v \in Ids
      PROVE  [j \in DOMAIN m \cup {i} |-> IF j = i THEN v ELSE m[j]] \in Maps
  <2>1. DOMAIN m \cup {i} \in SUBSET Ids
    BY <1>3
  <2>2. [j \in DOMAIN m \cup {i} |-> IF j = i THEN v ELSE m[j]] \in [DOMAIN m \cup {i} -> Ids]
    BY <1>3
  <2>. QED  BY <2>1, <2>2 DEF Maps
<1>. QED  BY <1>2, <1>3, <1>4

IdsOf(T) == {r.id : r \in T}

\* What is built up while the rows of a payload are merged: sound tables, with the groups of
\* the ids in J still there, and no key revived if that was so before (w).
Accumulator(J, w, t) ==
    {st \in [groups : SUBSET GroupRow, keys : SUBSET ChildRow, aliases : SUBSET ChildRow,
             map : Maps, ok : BOOLEAN] :
        /\ GroupTable(st.groups) /\ J \subseteq IdsOf(st.groups)
        /\ KeyTable(st.keys, t) /\ (w => Fresh(st.keys))
        /\ AliasTable(st.aliases)}

LEMMA AccumulatorIs ==
  ASSUME NEW J, NEW w, NEW t, NEW st \in Accumulator(J, w, t)
  PROVE  /\ GroupTable(st.groups) /\ J \subseteq IdsOf(st.groups)
         /\ KeyTable(st.keys, t) /\ (w => Fresh(st.keys))
         /\ AliasTable(st.aliases)
         /\ st.map \in Maps /\ st.ok \in BOOLEAN
         /\ st = [groups |-> st.groups, keys |-> st.keys, aliases |-> st.aliases,
                  map |-> st.map, ok |-> st.ok]
  BY DEF Accumulator

LEMMA AccumulatorMade ==
  ASSUME NEW J, NEW w, NEW t, NEW G, NEW K, NEW L, NEW m \in Maps, NEW b \in BOOLEAN,
         GroupTable(G), J \subseteq IdsOf(G), KeyTable(K, t), w => Fresh(K), AliasTable(L)
  PROVE  [groups |-> G, keys |-> K, aliases |-> L, map |-> m, ok |-> b] \in Accumulator(J, w, t)
  BY DEF Accumulator, GroupTable, KeyTable, AliasTable, Table, KeyRow

\* Ids are kept when each row has one with its id.
LEMMA IdsKept ==
  ASSUME NEW J, NEW T, NEW U, J \subseteq IdsOf(T), \A s \in T : \E q \in U : q.id = s.id
  PROVE  J \subseteq IdsOf(U)
  BY DEF IdsOf

\* One group of a payload: a new row, or the row with its name.
LEMMA MergeGroupKeeps ==
  ASSUME now \in Times, NEW J, NEW w \in BOOLEAN, NEW st \in Accumulator(J, w, now), NEW in \in GroupRow
  PROVE  MergeGroup(st, in) \in Accumulator(J, w, now)
<1>. DEFINE same == {r \in st.groups : r.name = in.name}
            e == IF Live(same) # {} THEN Newest(Live(same)) ELSE Newest(same)
            wins == Eff(in) > Eff(e)
            base == [(IF wins THEN in ELSE e) EXCEPT
                       !.id = e.id,
                       !.cfg = KeepLocal(MergeColumn(e.cfg, in.cfg, wins), e.cfg, Local)]
            mapped(id) == [i \in DOMAIN st.map \cup {in.id} |-> IF i = in.id THEN id ELSE st.map[i]]
            new == [in EXCEPT !.id = NextId(st.groups), !.cfg = KeepLocal(in.cfg, Blank, Local)]
            gone == {k \in Live(st.keys) : k.gid = e.id}
<1>1. /\ GroupTable(st.groups) /\ J \subseteq IdsOf(st.groups)
      /\ KeyTable(st.keys, now) /\ (w => Fresh(st.keys))
      /\ AliasTable(st.aliases)
      /\ st.map \in Maps /\ st.ok \in BOOLEAN
      /\ st = [groups |-> st.groups, keys |-> st.keys, aliases |-> st.aliases,
               map |-> st.map, ok |-> st.ok]
  BY AccumulatorIs
<1>2. in.id \in Ids /\ in.cfg \in Columns
  BY DEF GroupRow, Columns
<1>3. \A id \in Ids : mapped(id) \in Maps
  BY <1>1, <1>2, MapsAre
<1>4. CASE same = {}
  <2>0. NextId(st.groups) \in Ids
    BY <1>1, FS_CardinalityType DEF GroupTable, Table, NextId, Ids
  <2>1. new \in GroupRow /\ new.id = NextId(st.groups) /\ new.name = in.name
    <3>1. KeepLocal(in.cfg, Blank, Local) \in Columns
      BY <1>2, ColumnsKept
    <3>. QED  BY <2>0, <3>1 DEF GroupRow, Columns
  <2>. HIDE DEF new
  <2>2. Put(st.groups, new) = st.groups \cup {new} /\ Fits(new, st.groups)
    BY <1>1, <2>1, PutAdds DEF GroupTable
  <2>3. \A s \in Live(st.groups) : s.name # new.name
    BY <1>4, <2>1 DEF Live
  <2>4. GroupTable(st.groups \cup {new}) /\ J \subseteq IdsOf(st.groups \cup {new})
    <3>1. GroupTable(Put(st.groups, new)) /\ \A s \in st.groups : \E q \in Put(st.groups, new) : q.id = s.id
      BY <1>1, <2>1, <2>2, <2>3, GroupsPut
    <3>2. J \subseteq IdsOf(Put(st.groups, new))
      BY <1>1, <3>1, IdsKept
    <3>. QED  BY <2>2, <3>1, <3>2
  <2>5. [groups |-> st.groups \cup {new}, keys |-> st.keys, aliases |-> st.aliases,
         map |-> mapped(NextId(st.groups)), ok |-> st.ok] \in Accumulator(J, w, now)
    <3>. HIDE DEF mapped
    <3>. QED  BY <1>1, <1>3, <2>0, <2>4, AccumulatorMade
  <2>6. MergeGroup(st, in) = [st EXCEPT !.groups = @ \cup {new}, !.map = mapped(NextId(st.groups))]
    BY <1>4 DEF MergeGroup, new
  <2>7. MergeGroup(st, in) = [groups |-> st.groups \cup {new}, keys |-> st.keys, aliases |-> st.aliases,
                              map |-> mapped(NextId(st.groups)), ok |-> st.ok]
    <3>. HIDE DEF mapped
    <3>. QED  BY <1>1, <2>6
  <2>. QED  BY <2>5, <2>7
<1>5. CASE same # {}
  <2>1. e \in same /\ (Live(same) # {} => e \in Live(same))
    <3>1. IsFiniteSet(st.groups) /\ \A r \in st.groups : r.id \in Nat
      BY <1>1, RowsNumbered DEF GroupTable, Table, Numbered
    <3>2. same \in SUBSET st.groups /\ Live(same) \in SUBSET st.groups /\ Live(same) \subseteq same
      BY DEF Live
    <3>. QED  BY <1>5, <3>1, <3>2, EndsExist
  <2>2. e \in st.groups /\ e \in GroupRow /\ e.name = in.name /\ e.id \in Ids
    BY <1>1, <2>1 DEF GroupTable, Table, GroupRow
  <2>3. \A s \in Live(st.groups) : s.id # e.id => s.name # in.name
    <3>1. SUFFICES ASSUME NEW s \in Live(st.groups), s.name = in.name PROVE s = e
      OBVIOUS
    <3>2. s \in Live(same)
      BY <3>1 DEF Live
    <3>3. e \in Live(st.groups)
      BY <3>2, <2>1 DEF Live
    <3>. QED  BY <1>1, <2>2, <3>1, <3>3 DEF GroupTable, UniqueIn
  <2>. HIDE DEF e
  <2>4. base \in GroupRow /\ base.id = e.id /\ base.name = in.name
    <3>1. e.cfg \in Columns
      BY <2>2 DEF GroupRow, Columns
    <3>2. KeepLocal(MergeColumn(e.cfg, in.cfg, wins), e.cfg, Local) \in Columns
      BY <1>2, <3>1, ColumnsKept
    <3>3. (IF wins THEN in ELSE e) \in GroupRow /\ (IF wins THEN in ELSE e).name = in.name
      BY <2>2
    <3>. QED  BY <2>2, <3>2, <3>3 DEF GroupRow, Columns
  <2>. HIDE DEF base
  <2>. DEFINE G == IF wins \/ base.cfg # e.cfg THEN Put(st.groups, base) ELSE st.groups
              K == IF base.del = 0 THEN st.keys ELSE Kill(st.keys, gone, now)
  <2>5. GroupTable(G) /\ J \subseteq IdsOf(G)
    <3>1. Fits(base, st.groups)
      BY <2>2, <2>4 DEF Fits
    <3>2. GroupTable(Put(st.groups, base)) /\ J \subseteq IdsOf(Put(st.groups, base))
      BY <1>1, <2>3, <2>4, <3>1, GroupsPut, IdsKept
    <3>. QED  BY <1>1, <3>2
  <2>6. KeyTable(K, now) /\ (w => Fresh(K))
    <3>1. gone \in SUBSET st.keys /\ \A k \in Live(st.keys) \ gone, s \in gone : k.gid # s.gid
      BY DEF Live
    <3>. HIDE DEF gone
    <3>2. KeyTable(Kill(st.keys, gone, now), now) /\ (w => Fresh(Kill(st.keys, gone, now)))
      BY <1>1, <3>1, KeysKill
    <3>. QED  BY <1>1, <3>2
  <2>. HIDE DEF G, K
  <2>7. [groups |-> G, keys |-> K, aliases |-> st.aliases, map |-> mapped(e.id), ok |-> st.ok]
           \in Accumulator(J, w, now)
    <3>. HIDE DEF mapped
    <3>. QED  BY <1>1, <1>3, <2>2, <2>5, <2>6, AccumulatorMade
  <2>8. MergeGroup(st, in) = [st EXCEPT !.groups = G, !.keys = K, !.map = mapped(e.id)]
    BY <1>5 DEF MergeGroup, G, K, e, base
  <2>9. MergeGroup(st, in) = [groups |-> G, keys |-> K, aliases |-> st.aliases, map |-> mapped(e.id), ok |-> st.ok]
    <3>. HIDE DEF mapped
    <3>. QED  BY <1>1, <2>8
  <2>. QED  BY <2>7, <2>9
<1>. QED  BY <1>4, <1>5

LEMMA LocalIds ==
  ASSUME NEW J, NEW w, NEW t, NEW st \in Accumulator(J, w, t), NEW gid \in Ids
  PROVE  LocalId(st, gid) \in Ids
  BY AccumulatorIs, MapsAre DEF LocalId

\* The next id is an id.
LEMMA NextIdIs ==
  ASSUME NEW Rows, NEW T, Table(T, Rows)
  PROVE  NextId(T) \in Ids
  BY FS_CardinalityType DEF Table, NextId, Ids

\* New tables in the accumulator.
LEMMA NewAliases ==
  ASSUME NEW J, NEW w, NEW t, NEW st \in Accumulator(J, w, t), NEW L, AliasTable(L)
  PROVE  [st EXCEPT !.aliases = L] \in Accumulator(J, w, t)
<1>1. /\ GroupTable(st.groups) /\ J \subseteq IdsOf(st.groups)
      /\ KeyTable(st.keys, t) /\ (w => Fresh(st.keys))
      /\ st.map \in Maps /\ st.ok \in BOOLEAN
      /\ st = [groups |-> st.groups, keys |-> st.keys, aliases |-> st.aliases,
               map |-> st.map, ok |-> st.ok]
  BY AccumulatorIs
<1>2. [st EXCEPT !.aliases = L]
        = [groups |-> st.groups, keys |-> st.keys, aliases |-> L, map |-> st.map, ok |-> st.ok]
  BY <1>1
<1>3. [groups |-> st.groups, keys |-> st.keys, aliases |-> L, map |-> st.map, ok |-> st.ok]
        \in Accumulator(J, w, t)
  BY <1>1, AccumulatorMade
<1>. QED  BY <1>2, <1>3

LEMMA NewKeys ==
  ASSUME NEW J, NEW w, NEW t, NEW st \in Accumulator(J, w, t), NEW K, KeyTable(K, t), w => Fresh(K)
  PROVE  [st EXCEPT !.keys = K] \in Accumulator(J, w, t)
<1>1. /\ GroupTable(st.groups) /\ J \subseteq IdsOf(st.groups) /\ AliasTable(st.aliases)
      /\ st.map \in Maps /\ st.ok \in BOOLEAN
      /\ st = [groups |-> st.groups, keys |-> st.keys, aliases |-> st.aliases,
               map |-> st.map, ok |-> st.ok]
  BY AccumulatorIs
<1>2. [st EXCEPT !.keys = K]
        = [groups |-> st.groups, keys |-> K, aliases |-> st.aliases, map |-> st.map, ok |-> st.ok]
  BY <1>1
<1>3. [groups |-> st.groups, keys |-> K, aliases |-> st.aliases, map |-> st.map, ok |-> st.ok]
        \in Accumulator(J, w, t)
  BY <1>1, AccumulatorMade
<1>. QED  BY <1>2, <1>3

\* One alias of a payload: a second living row is refused, the transaction with it.
LEMMA MergeAliasKeeps ==
  ASSUME NEW J, NEW w, NEW t, NEW st \in Accumulator(J, w, t), NEW in \in ChildRow
  PROVE  MergeAlias(st, in) \in Accumulator(J, w, t)
<1>. DEFINE row == [in EXCEPT !.gid = LocalId(st, in.gid)]
            same == {a \in st.aliases : a.gid = row.gid}
            e == Oldest(same)
            clash == row.del = 0 /\ \E a \in Live(same) : a.id # e.id
            next == [row EXCEPT !.id = NextId(st.aliases)]
            over == [row EXCEPT !.id = e.id]
<1>1. AliasTable(st.aliases) /\ Table(st.aliases, ChildRow)
  BY AccumulatorIs DEF AliasTable
<1>2. LocalId(st, in.gid) \in Ids /\ NextId(st.aliases) \in Ids
  BY <1>1, LocalIds, NextIdIs DEF ChildRow
<1>3. row.gid = LocalId(st, in.gid)
  BY <1>2 DEF ChildRow
<1>4. CASE same = {}
  <2>1. next \in ChildRow /\ next.id = NextId(st.aliases) /\ next.gid = row.gid
    BY <1>2, <1>3 DEF ChildRow
  <2>. HIDE DEF next
  <2>2. Put(st.aliases, next) = st.aliases \cup {next} /\ Fits(next, st.aliases)
    BY <1>1, <2>1, PutAdds
  <2>3. \A s \in Live(st.aliases) : s.gid # next.gid
    BY <1>4, <2>1 DEF Live
  <2>4. AliasTable(st.aliases \cup {next})
    BY <1>1, <2>1, <2>2, <2>3, AliasesPut
  <2>5. MergeAlias(st, in) = [st EXCEPT !.aliases = st.aliases \cup {next}]
    BY <1>4 DEF MergeAlias, next
  <2>. QED  BY <2>4, <2>5, NewAliases
<1>5. CASE same # {} /\ ~(Eff(row) <= Eff(e)) /\ ~clash
  <2>1. e \in same
    <3>1. IsFiniteSet(st.aliases) /\ \A r \in st.aliases : r.id \in Nat
      BY <1>1, RowsNumbered DEF Table, Numbered
    <3>2. same \in SUBSET st.aliases
      OBVIOUS
    <3>. QED  BY <1>5, <3>1, <3>2, EndsExist
  <2>2. e \in st.aliases /\ e.id \in Ids
    BY <1>1, <2>1 DEF Table, ChildRow
  <2>3. \A s \in Live(st.aliases) : row.del = 0 /\ s.id # e.id => s.gid # row.gid
    BY <1>5 DEF Live
  <2>. HIDE DEF e
  <2>4. over \in ChildRow /\ over.id = e.id /\ over.gid = row.gid /\ over.del = row.del
    BY <1>2, <1>3, <2>2 DEF ChildRow
  <2>. HIDE DEF over
  <2>5. AliasTable(Put(st.aliases, over))
    BY <1>1, <2>2, <2>3, <2>4, AliasesPut DEF Fits
  <2>6. MergeAlias(st, in) = [st EXCEPT !.aliases = Put(st.aliases, over)]
    BY <1>5 DEF MergeAlias, over, e
  <2>. QED  BY <2>5, <2>6, NewAliases
<1>6. CASE same # {} /\ (Eff(row) <= Eff(e) \/ clash)
  <2>1. MergeAlias(st, in) \in {st, [st EXCEPT !.ok = FALSE]}
    BY <1>6 DEF MergeAlias
  <2>2. [st EXCEPT !.ok = FALSE] \in Accumulator(J, w, t)
    BY DEF Accumulator
  <2>. QED  BY <2>1, <2>2
<1>. QED  BY <1>4, <1>5, <1>6

\* Of the deleted rows there is one that was deleted last.
LEMMA LastDeletion ==
  ASSUME NEW T, IsFiniteSet(T), T # {}, \A r \in T : r.del \in Nat
  PROVE  LET tomb == CHOOSE k \in T : \A j \in T : j.del <= k.del
         IN  tomb \in T /\ \A j \in T : j.del <= tomb.del
<1>. DEFINE f == [r \in T |-> r.del]
            Numbers == {f[r] : r \in T}
<1>1. Numbers \subseteq Nat /\ Numbers # {} /\ \A r \in T : f[r] = r.del
  OBVIOUS
<1>2. IsFiniteSet(Numbers)
  <2>. HIDE DEF f
  <2>. QED  BY ImageFinite
<1>3. PICK m \in Numbers : \A j \in Numbers : j <= m
  <2>. HIDE DEF Numbers
  <2>. QED  BY <1>1, <1>2, GreatestExists
<1>4. \E r \in T : \A s \in T : s.del <= r.del
  BY <1>1, <1>3
<1>. QED  BY <1>4

\* The time of a key's last change.
LEMMA KeyTimes ==
  ASSUME NEW t, NEW k \in KeyRow(t)
  PROVE  /\ Eff(k) \in Nat /\ k.del \in Nat /\ k.upd \in Nat
         /\ Eff(k) = IF k.del = 0 THEN k.upd ELSE k.del
  BY MeshAssumption DEF KeyRow, ChildRow, Times, Eff

\* One key of a payload: it replaces an older living row, or is new and later than every deletion of
\* its credential.
LEMMA MergeKeyKeeps ==
  ASSUME NEW J, NEW w \in BOOLEAN, NEW t, NEW st \in Accumulator(J, w, t), NEW in \in KeyRow(t)
  PROVE  MergeKey(st, in) \in Accumulator(J, w, t)
<1>. DEFINE row == [in EXCEPT !.gid = LocalId(st, in.gid)]
            same == {k \in st.keys : k.gid = row.gid}
            live == Live(same)
            newer == \A k \in live : Eff(row) > Eff(k)
            tomb == CHOOSE k \in Dead(same) : \A j \in Dead(same) : j.del <= k.del
            over == [row EXCEPT !.id = Oldest(live).id]
            next == [row EXCEPT !.id = NextId(st.keys)]
            new == row.del = 0 /\ (Dead(same) = {} \/ Eff(tomb) <= Eff(row))
<1>1. KeyTable(st.keys, t) /\ Table(st.keys, KeyRow(t)) /\ (w => Fresh(st.keys))
  BY AccumulatorIs DEF KeyTable
<1>2. in \in ChildRow /\ LocalId(st, in.gid) \in Ids /\ NextId(st.keys) \in Ids
  <2>1. in \in ChildRow
    BY DEF KeyRow
  <2>. QED  BY <1>1, <2>1, LocalIds, NextIdIs DEF ChildRow
<1>3. row \in KeyRow(t) /\ row.gid = LocalId(st, in.gid)
  BY <1>2 DEF ChildRow, KeyRow
<1>. HIDE DEF row
<1>4. /\ IsFiniteSet(st.keys) /\ \A k \in st.keys : k.id \in Ids /\ k.id \in Nat /\ k \in KeyRow(t)
      /\ live \subseteq Live(st.keys) /\ Dead(same) \subseteq Dead(st.keys)
      /\ \A k \in Live(st.keys) : k.gid = row.gid => k \in live
      /\ \A k \in Dead(st.keys) : k.gid = row.gid => k \in Dead(same)
      /\ Live(st.keys) \subseteq st.keys /\ Dead(st.keys) \subseteq st.keys
      /\ \A k \in live : k.gid = row.gid
  BY <1>1, RowsNumbered DEF Table, Numbered, Live, Dead, KeyRow, ChildRow
<1>5. CASE live # {} /\ newer
  <2>. DEFINE e == Oldest(live)
  <2>1. e \in live
    BY <1>4, <1>5, EndsExist
  <2>. HIDE DEF e
  <2>2. e \in st.keys /\ e.id \in Ids /\ e.gid = row.gid /\ e \in Live(st.keys)
    BY <1>4, <2>1
  <2>3. over \in KeyRow(t) /\ over.id = e.id /\ over.gid = row.gid /\ over.del = row.del /\ over.upd = row.upd
    BY <1>3, <2>2 DEF ChildRow, KeyRow, e
  <2>. HIDE DEF over
  <2>4. \A s \in Live(st.keys) : s.id # over.id => s.gid # over.gid
    BY <1>1, <2>2, <2>3 DEF KeyTable, UniqueIn
  <2>5. Fits(over, st.keys)
    BY <2>2, <2>3 DEF Fits
  <2>6. ASSUME Fresh(st.keys), over.del = 0, NEW d \in Dead(st.keys), d.gid = over.gid
        PROVE  Eff(d) <= Eff(over)
    <3>1. Eff(d) <= Eff(e)
      BY <2>2, <2>3, <2>6 DEF Fresh
    <3>2. Eff(row) > Eff(e) /\ Eff(row) = Eff(over)
      BY <1>5, <2>1, <2>3 DEF Eff
    <3>3. Eff(d) \in Nat /\ Eff(e) \in Nat /\ Eff(row) \in Nat
      BY <1>3, <1>4, <2>2, KeyTimes
    <3>. QED  BY <3>1, <3>2, <3>3
  <2>7. KeyTable(Put(st.keys, over), t) /\ (w => Fresh(Put(st.keys, over)))
    BY <1>1, <2>3, <2>4, <2>5, <2>6, KeysPut
  <2>8. MergeKey(st, in) = [st EXCEPT !.keys = Put(st.keys, over)]
    BY <1>5 DEF MergeKey, over, row
  <2>. QED  BY <2>7, <2>8, NewKeys
<1>6. CASE live = {} /\ new
  <2>1. next \in KeyRow(t) /\ next.id = NextId(st.keys) /\ next.gid = row.gid /\ next.del = row.del /\ next.upd = row.upd
    BY <1>2, <1>3 DEF ChildRow, KeyRow
  <2>. HIDE DEF next
  <2>2. Put(st.keys, next) = st.keys \cup {next} /\ Fits(next, st.keys)
    BY <1>1, <2>1, PutAdds
  <2>3. \A s \in Live(st.keys) : s.id # next.id => s.gid # next.gid
    BY <1>4, <1>6, <2>1
  <2>4. ASSUME NEW d \in Dead(st.keys), d.gid = next.gid PROVE Eff(d) <= Eff(next)
    <3>1. d \in Dead(same)
      BY <1>4, <2>1, <2>4
    <3>2. tomb \in Dead(same) /\ d.del <= tomb.del
      <4>1. IsFiniteSet(Dead(same))
        BY <1>4, FS_Subset
      <4>2. \A r \in Dead(same) : r.del \in Nat
        BY <1>4, KeyTimes
      <4>. QED  BY <3>1, <4>1, <4>2, LastDeletion
    <3>. HIDE DEF tomb
    <3>3. Eff(tomb) <= Eff(row) /\ Eff(row) = Eff(next)
      BY <1>6, <2>1, <3>1 DEF Eff
    <3>4. d.del # 0 /\ tomb.del # 0 /\ d \in KeyRow(t) /\ tomb \in KeyRow(t)
      BY <1>4, <3>2 DEF Dead, Live
    <3>5. Eff(d) = d.del /\ Eff(tomb) = tomb.del /\ d.del \in Nat /\ tomb.del \in Nat
      BY <3>4, KeyTimes
    <3>6. Eff(row) \in Nat
      BY <1>3, KeyTimes
    <3>. QED  BY <3>2, <3>3, <3>5, <3>6
  <2>5. KeyTable(Put(st.keys, next), t) /\ (w => Fresh(Put(st.keys, next)))
    BY <1>1, <2>1, <2>2, <2>3, <2>4, KeysPut
  <2>. DEFINE K == st.keys \cup {next}
  <2>6. MergeKey(st, in) = [st EXCEPT !.keys = K]
    BY <1>6 DEF MergeKey, next, row
  <2>7. KeyTable(K, t) /\ (w => Fresh(K))
    BY <2>2, <2>5
  <2>. HIDE DEF K
  <2>. QED  BY <2>6, <2>7, NewKeys
<1>7. CASE ~(live # {} /\ newer) /\ ~(live = {} /\ new)
  BY <1>7 DEF MergeKey, row
<1>. QED  BY <1>5, <1>6, <1>7

\* Two rows of a group that differ in their id and in fields of the machine only.
SameGroup(g, r) ==
    g.name = r.name /\ g.upd = r.upd /\ g.del = r.del /\ g.by = r.by /\ Shared(g.cfg) = Shared(r.cfg)

LEMMA SharedKept ==
  ASSUME NEW a \in Columns, NEW b \in Columns
  PROVE  Shared(KeepLocal(a, b, Local)) = Shared(a)
  BY DEF Shared, KeepLocal, Columns

\* A row that fits and replaces the living row with its value in a column, if there is one.
Replaces(row, T, c) == Fits(row, T) /\ \A s \in Live(T) : s.id = row.id <=> s[c] = row[c]

\* No row has the next id.
LEMMA NextIsFree ==
  ASSUME NEW Rows, Numbered(Rows), NEW T, Table(T, Rows)
  PROVE  \A s \in T : s.id # NextId(T)
<1>1. Cardinality(T) \in Nat
  BY FS_CardinalityType DEF Table
<1>. QED  BY <1>1 DEF Table, Numbered, NextId

\* One group of a snapshot: the living row with its name, or a new row.
LEMMA SnapGroupIs ==
  ASSUME NEW J, NEW w, NEW t, NEW st \in Accumulator(J, w, t), NEW in \in GroupRow
  PROVE  \E row \in GroupRow :
            /\ SnapGroup(st, in) = [groups |-> Put(st.groups, row), keys |-> st.keys,
                                    aliases |-> st.aliases, ok |-> st.ok,
                                    map |-> [i \in DOMAIN st.map \cup {in.id} |->
                                               IF i = in.id THEN row.id ELSE st.map[i]]]
            /\ SameGroup(row, in) /\ Replaces(row, st.groups, "name")
<1>. DEFINE same == {r \in Live(st.groups) : r.name = in.name}
            e == Oldest(same)
            id == IF same = {} THEN NextId(st.groups) ELSE e.id
            mine == IF same = {} THEN Blank ELSE e.cfg
            cfg == KeepLocal(in.cfg, mine, Local)
            row == [in EXCEPT !.id = id, !.cfg = cfg]
            mapped == [i \in DOMAIN st.map \cup {in.id} |-> IF i = in.id THEN id ELSE st.map[i]]
            G == Put(st.groups, row)
<1>1. /\ GroupTable(st.groups) /\ Table(st.groups, GroupRow)
      /\ st = [groups |-> st.groups, keys |-> st.keys, aliases |-> st.aliases,
               map |-> st.map, ok |-> st.ok]
  BY AccumulatorIs DEF GroupTable
<1>2. in.id \in Ids /\ in.cfg \in Columns /\ NextId(st.groups) \in Ids
  BY <1>1, NextIdIs DEF GroupRow, Columns
<1>3. same # {} => e \in same
  <2>1. IsFiniteSet(st.groups) /\ \A r \in st.groups : r.id \in Nat
    BY <1>1, RowsNumbered DEF Table, Numbered
  <2>2. same \in SUBSET st.groups
    BY DEF Live
  <2>. QED  BY <2>1, <2>2, EndsExist
<1>4. same # {} => e \in st.groups /\ e \in GroupRow /\ e.id \in Ids /\ e.cfg \in Columns
                   /\ e.name = in.name /\ e \in Live(st.groups)
  BY <1>1, <1>3 DEF Table, Live, GroupRow, Columns
<1>5. \A s \in Live(st.groups) : s.name = in.name => same # {} /\ s = e
  <2>. HIDE DEF e
  <2>. QED  BY <1>1, <1>4 DEF GroupTable, UniqueIn
<1>. HIDE DEF e
<1>6. id \in Ids /\ mine \in Columns /\ cfg \in Columns
  BY <1>2, <1>4, ColumnsKept
<1>7. Shared(cfg) = Shared(in.cfg)
  <2>. HIDE DEF mine
  <2>. QED  BY <1>2, <1>6, SharedKept
<1>. HIDE DEF mine, cfg
<1>8. row \in GroupRow /\ row.id = id /\ row.name = in.name /\ SameGroup(row, in)
  <2>. HIDE DEF id
  <2>1. row \in GroupRow /\ row.id = id /\ row.cfg = cfg
        /\ row.name = in.name /\ row.upd = in.upd /\ row.del = in.del /\ row.by = in.by
    BY <1>6 DEF GroupRow, Columns
  <2>. HIDE DEF row
  <2>. QED  BY <1>7, <2>1 DEF SameGroup
<1>9. Fits(row, st.groups)
  BY <1>4, <1>8 DEF Fits
<1>10. \A s \in Live(st.groups) : s.id = row.id <=> s.name = row.name
  <2>1. ASSUME NEW s \in Live(st.groups), s.name = row.name PROVE s.id = row.id
    BY <1>5, <1>8, <2>1
  <2>2. ASSUME NEW s \in Live(st.groups), s.id = row.id PROVE s.name = row.name
    <3>0. \A q \in st.groups : q.id # NextId(st.groups)
      BY <1>1, RowsNumbered, NextIsFree
    <3>1. s \in st.groups
      BY DEF Live
    <3>2. same # {}
      BY <1>8, <2>2, <3>0, <3>1
    <3>3. s = e
      BY <1>1, <1>4, <1>8, <2>2, <3>1, <3>2 DEF Table, UniqueIn
    <3>. QED  BY <1>4, <1>8, <3>2, <3>3
  <2>. QED  BY <2>1, <2>2
<1>11. SnapGroup(st, in) = [st EXCEPT !.groups = G, !.map = mapped]
  BY DEF SnapGroup, id, mine, cfg, e
<1>12. mapped = [i \in DOMAIN st.map \cup {in.id} |-> IF i = in.id THEN row.id ELSE st.map[i]]
  BY <1>8
<1>. HIDE DEF id, row, G, mapped
<1>13. SnapGroup(st, in) = [groups |-> G, keys |-> st.keys, aliases |-> st.aliases, ok |-> st.ok,
                            map |-> mapped]
  BY <1>1, <1>11
<1>14. Replaces(row, st.groups, "name")
  BY <1>9, <1>10 DEF Replaces
<1>. QED  BY <1>8, <1>12, <1>13, <1>14 DEF G

LEMMA SnapGroupKeeps ==
  ASSUME NEW J, NEW w, NEW t, NEW st \in Accumulator(J, w, t), NEW in \in GroupRow
  PROVE  SnapGroup(st, in) \in Accumulator(J, w, t)
<1>. DEFINE Mapped(i) == [j \in DOMAIN st.map \cup {in.id} |-> IF j = in.id THEN i ELSE st.map[j]]
            Made(G, m) == [groups |-> G, keys |-> st.keys, aliases |-> st.aliases, ok |-> st.ok, map |-> m]
<1>1. PICK row \in GroupRow :
            /\ SnapGroup(st, in) = Made(Put(st.groups, row), Mapped(row.id))
            /\ SameGroup(row, in) /\ Replaces(row, st.groups, "name")
  BY SnapGroupIs
<1>2. /\ GroupTable(st.groups) /\ J \subseteq IdsOf(st.groups)
      /\ KeyTable(st.keys, t) /\ (w => Fresh(st.keys))
      /\ AliasTable(st.aliases)
      /\ st.map \in Maps /\ st.ok \in BOOLEAN
  BY AccumulatorIs
<1>. DEFINE G == Put(st.groups, row)
            m == Mapped(row.id)
<1>3. GroupTable(G) /\ \A s \in st.groups : \E q \in G : q.id = s.id
  BY <1>1, <1>2, GroupsPut DEF Replaces
<1>4. J \subseteq IdsOf(G)
  BY <1>2, <1>3, IdsKept
<1>5. m \in Maps
  <2>1. in.id \in Ids /\ row.id \in Ids
    BY DEF GroupRow
  <2>. QED  BY <1>2, <2>1, MapsAre
<1>. HIDE DEF G, m
<1>6. [groups |-> G, keys |-> st.keys, aliases |-> st.aliases, map |-> m, ok |-> st.ok]
          \in Accumulator(J, w, t)
  BY <1>2, <1>3, <1>4, <1>5, AccumulatorMade
<1>7. Made(G, m) = [groups |-> G, keys |-> st.keys, aliases |-> st.aliases, map |-> m, ok |-> st.ok]
  OBVIOUS
<1>. QED  BY <1>1, <1>6, <1>7 DEF G, m

\* The copy of a key or an alias in the group that its own is mapped to.
SameChild(row, in, gid) == row.gid = gid /\ row.upd = in.upd /\ row.del = in.del

\* On a follower keys follow the master, whatever was deleted here.
LEMMA SnapKeyIs ==
  ASSUME NEW J, NEW w, NEW t, NEW st \in Accumulator(J, w, t), NEW in \in KeyRow(t), in.gid \in DOMAIN st.map
  PROVE  \E row \in KeyRow(t) :
            /\ SnapKey(st, in) = [st EXCEPT !.keys = Put(st.keys, row)]
            /\ SameChild(row, in, st.map[in.gid]) /\ Replaces(row, st.keys, "gid")
<1>. DEFINE gid == st.map[in.gid]
            live == {k \in Live(st.keys) : k.gid = gid}
            e == Oldest(live)
            id == IF live = {} THEN NextId(st.keys) ELSE e.id
            row == [in EXCEPT !.gid = gid, !.id = id]
            K == Put(st.keys, row)
<1>1. KeyTable(st.keys, t) /\ Table(st.keys, KeyRow(t)) /\ gid \in Ids
  BY AccumulatorIs, MapsAre DEF KeyTable
<1>2. live # {} => e \in live
  <2>1. IsFiniteSet(st.keys) /\ \A r \in st.keys : r.id \in Nat
    BY <1>1, RowsNumbered DEF Table, Numbered
  <2>2. live \in SUBSET st.keys
    BY DEF Live
  <2>. QED  BY <2>1, <2>2, EndsExist
<1>3. live # {} => e \in st.keys /\ e.id \in Ids /\ e.gid = gid /\ e \in Live(st.keys)
  BY <1>1, <1>2 DEF Table, Live, KeyRow, ChildRow
<1>4. \A s \in Live(st.keys) : s.gid = gid => live # {} /\ s = e
  <2>. HIDE DEF e
  <2>. QED  BY <1>1, <1>3 DEF KeyTable, UniqueIn
<1>. HIDE DEF e
<1>5. id \in Ids
  BY <1>1, <1>3, NextIdIs
<1>6. row \in KeyRow(t) /\ row.id = id /\ SameChild(row, in, gid)
  <2>. HIDE DEF id, gid
  <2>. QED  BY <1>1, <1>5 DEF KeyRow, ChildRow, SameChild
<1>7. row.gid = gid /\ Fits(row, st.keys)
  BY <1>3, <1>6 DEF Fits, SameChild
<1>8. ASSUME NEW s \in Live(st.keys), s.id = row.id PROVE s.gid = gid
  <2>1. s \in st.keys
    BY DEF Live
  <2>2. \A q \in st.keys : q.id # NextId(st.keys)
    BY <1>1, RowsNumbered, NextIsFree
  <2>3. live # {}
    BY <1>6, <1>8, <2>1, <2>2
  <2>4. s = e
    BY <1>1, <1>3, <1>6, <1>8, <2>1, <2>3 DEF Table, UniqueIn
  <2>. QED  BY <1>3, <2>3, <2>4
<1>9. ASSUME NEW s \in Live(st.keys), s.gid = gid PROVE s.id = row.id
  BY <1>4, <1>6, <1>9
<1>10. SnapKey(st, in) = [st EXCEPT !.keys = K]
  BY DEF SnapKey, e
<1>. HIDE DEF row
<1>11. Replaces(row, st.keys, "gid")
  BY <1>7, <1>8, <1>9 DEF Replaces
<1>. QED  BY <1>6, <1>10, <1>11

LEMMA SnapKeyKeeps ==
  ASSUME NEW J, NEW w \in BOOLEAN, ~w, NEW t, NEW st \in Accumulator(J, w, t), NEW in \in KeyRow(t)
  PROVE  SnapKey(st, in) \in Accumulator(J, w, t)
<1>1. CASE in.gid \notin DOMAIN st.map
  BY <1>1 DEF SnapKey
<1>2. CASE in.gid \in DOMAIN st.map
  <2>1. PICK row \in KeyRow(t) :
            /\ SnapKey(st, in) = [st EXCEPT !.keys = Put(st.keys, row)] /\ Replaces(row, st.keys, "gid")
    BY <1>2, SnapKeyIs
  <2>2. KeyTable(st.keys, t)
    BY AccumulatorIs
  <2>3. KeyTable(Put(st.keys, row), t)
    BY <2>1, <2>2, KeysPut DEF Replaces
  <2>. QED  BY <2>1, <2>3, NewKeys
<1>. QED  BY <1>1, <1>2

\* One alias of a snapshot: the living row, the oldest deleted one, or a new one.
LEMMA SnapAliasIs ==
  ASSUME NEW J, NEW w, NEW t, NEW st \in Accumulator(J, w, t), NEW in \in ChildRow, in.gid \in DOMAIN st.map
  PROVE  \E row \in ChildRow :
            /\ SnapAlias(st, in) = [st EXCEPT !.aliases = Put(st.aliases, row)]
            /\ SameChild(row, in, st.map[in.gid]) /\ Replaces(row, st.aliases, "gid")
<1>. DEFINE gid == st.map[in.gid]
            same == {a \in st.aliases : a.gid = gid}
            e == IF Live(same) # {} THEN Oldest(Live(same)) ELSE Oldest(same)
            id == IF same = {} THEN NextId(st.aliases) ELSE e.id
            row == [in EXCEPT !.gid = gid, !.id = id]
            L == Put(st.aliases, row)
<1>1. AliasTable(st.aliases) /\ Table(st.aliases, ChildRow) /\ gid \in Ids
  BY AccumulatorIs, MapsAre DEF AliasTable
<1>2. same # {} => e \in same /\ (Live(same) # {} => e \in Live(same))
  <2>1. IsFiniteSet(st.aliases) /\ \A r \in st.aliases : r.id \in Nat
    BY <1>1, RowsNumbered DEF Table, Numbered
  <2>2. same \in SUBSET st.aliases /\ Live(same) \in SUBSET st.aliases /\ Live(same) \subseteq same
    BY DEF Live
  <2>. QED  BY <2>1, <2>2, EndsExist
<1>3. same # {} => e \in st.aliases /\ e.id \in Ids /\ e.gid = gid
  BY <1>1, <1>2 DEF Table, ChildRow
<1>4. \A s \in Live(st.aliases) : s.gid = gid => same # {} /\ s = e
  <2>1. SUFFICES ASSUME NEW s \in Live(st.aliases), s.gid = gid PROVE same # {} /\ s = e
    OBVIOUS
  <2>2. s \in Live(same) /\ same # {}
    BY <2>1 DEF Live
  <2>3. e \in Live(st.aliases) /\ e.gid = gid
    BY <2>2, <1>2 DEF Live
  <2>. HIDE DEF e
  <2>. QED  BY <1>1, <2>1, <2>2, <2>3 DEF AliasTable, UniqueIn
<1>5. Live(same) # {} => same # {}
  BY DEF Live
<1>6. SnapAlias(st, in) = [st EXCEPT !.aliases = L]
  BY <1>5 DEF SnapAlias
<1>. HIDE DEF e
<1>7. id \in Ids
  BY <1>1, <1>3, NextIdIs
<1>8. row \in ChildRow /\ row.id = id /\ SameChild(row, in, gid)
  <2>. HIDE DEF id, gid
  <2>. QED  BY <1>1, <1>7 DEF ChildRow, SameChild
<1>9. row.gid = gid /\ Fits(row, st.aliases)
  BY <1>3, <1>8 DEF Fits, SameChild
<1>10. ASSUME NEW s \in Live(st.aliases), s.id = row.id PROVE s.gid = gid
  <2>1. s \in st.aliases
    BY DEF Live
  <2>2. \A q \in st.aliases : q.id # NextId(st.aliases)
    BY <1>1, RowsNumbered, NextIsFree
  <2>3. same # {}
    BY <1>8, <1>10, <2>1, <2>2
  <2>4. s = e
    BY <1>1, <1>3, <1>8, <1>10, <2>1, <2>3 DEF Table, UniqueIn
  <2>. QED  BY <1>3, <2>3, <2>4
<1>11. ASSUME NEW s \in Live(st.aliases), s.gid = gid PROVE s.id = row.id
  BY <1>4, <1>8, <1>11
<1>. HIDE DEF row
<1>12. Replaces(row, st.aliases, "gid")
  BY <1>9, <1>10, <1>11 DEF Replaces
<1>. QED  BY <1>6, <1>8, <1>12

LEMMA SnapAliasKeeps ==
  ASSUME NEW J, NEW w, NEW t, NEW st \in Accumulator(J, w, t), NEW in \in ChildRow
  PROVE  SnapAlias(st, in) \in Accumulator(J, w, t)
<1>1. CASE in.gid \notin DOMAIN st.map
  BY <1>1 DEF SnapAlias
<1>2. CASE in.gid \in DOMAIN st.map
  <2>1. PICK row \in ChildRow :
            /\ SnapAlias(st, in) = [st EXCEPT !.aliases = Put(st.aliases, row)] /\ Replaces(row, st.aliases, "gid")
    BY <1>2, SnapAliasIs
  <2>2. AliasTable(st.aliases)
    BY AccumulatorIs
  <2>3. AliasTable(Put(st.aliases, row))
    BY <2>1, <2>2, AliasesPut DEF Replaces
  <2>. QED  BY <2>1, <2>3, NewAliases
<1>. QED  BY <1>1, <1>2

--------------------------------------------------------------------------
(* Payloads and whole transactions *)

\* What travels.
Sent(body, t) ==
    /\ IsFiniteSet(body.groups) /\ body.groups \subseteq GroupRow
    /\ IsFiniteSet(body.keys) /\ body.keys \subseteq KeyRow(t)
    /\ IsFiniteSet(body.aliases) /\ body.aliases \subseteq ChildRow

LEMMA SentIs ==
  ASSUME NEW t, NEW p, Sent(p, t)
  PROVE  /\ IsFiniteSet(p.groups) /\ \A r \in p.groups : r \in GroupRow /\ r.id \in Nat
         /\ IsFiniteSet(p.keys) /\ \A r \in p.keys : r \in KeyRow(t) /\ r.id \in Nat
         /\ IsFiniteSet(p.aliases) /\ \A r \in p.aliases : r \in ChildRow /\ r.id \in Nat
  BY RowsNumbered DEF Sent, Numbered

\* A whole merge, or nothing of it.
LEMMA MergeKeeps ==
  ASSUME now \in Times, NEW J, NEW w \in BOOLEAN, NEW n, Start(n) \in Accumulator(J, w, now),
         NEW p, Sent(p, now)
  PROVE  Merge(n, p) \in Accumulator(J, w, now)
<1>. DEFINE A == Accumulator(J, w, now)
            st1 == MergeGroups(Start(n), p.groups)
            st2 == MergeAliases(st1, p.aliases)
            st3 == MergeKeys(st2, p.keys)
<1>1. /\ IsFiniteSet(p.groups) /\ \A r \in p.groups : r \in GroupRow /\ r.id \in Nat
      /\ IsFiniteSet(p.keys) /\ \A r \in p.keys : r \in KeyRow(now) /\ r.id \in Nat
      /\ IsFiniteSet(p.aliases) /\ \A r \in p.aliases : r \in ChildRow /\ r.id \in Nat
  BY SentIs
<1>2. /\ \A a \in A, r \in p.groups : MergeGroup(a, r) \in A
      /\ \A a \in A, r \in p.aliases : MergeAlias(a, r) \in A
      /\ \A a \in A, r \in p.keys : MergeKey(a, r) \in A
  BY <1>1, MergeGroupKeeps, MergeAliasKeeps, MergeKeyKeeps
<1>3. Merge(n, p) = IF st3.ok THEN st3 ELSE Start(n)
  BY DEF Merge, MergeGroups, MergeAliases, MergeKeys, InTurn, MapThenFoldSet
<1>. HIDE DEF A
<1>4. Start(n) \in A
  BY DEF A
<1>5. st1 \in A
  BY <1>1, <1>2, <1>4, MergeGroupsStay
<1>. HIDE DEF st1
<1>6. st2 \in A
  BY <1>1, <1>2, <1>5, MergeAliasesStay
<1>. HIDE DEF st2
<1>7. st3 \in A
  BY <1>1, <1>2, <1>6, MergeKeysStay
<1>. QED  BY <1>3, <1>4, <1>7 DEF A

\* The stages of a mirroring.
ExtraGroups(st, p) == {g \in Live(st.groups) : \A r \in p.groups : r.name # g.name}
ExtraKeys(st, p) == {k \in Live(st.keys) : \E g \in ExtraGroups(st, p) : k.gid = g.id}
WithoutExtra(st, p) == [st EXCEPT !.groups = Kill(st.groups, ExtraGroups(st, p), now),
                                  !.keys = Kill(st.keys, ExtraKeys(st, p), now)]
Here(m, in) == IF in.gid \in DOMAIN m THEN m[in.gid] ELSE 0
OldKeys(st, p) == {k \in Live(st.keys) : /\ k.gid \in {st.map[i] : i \in DOMAIN st.map}
                                         /\ \A in \in p.keys : Here(st.map, in) # k.gid}
WithoutOld(st, p) == [st EXCEPT !.keys = Kill(st.keys, OldKeys(st, p), now)]
OldAliases(T, m, p) == {a \in Live(T) : \A in \in p.aliases : Here(m, in) # a.gid}

\* st are the five states of the accumulator.
Stages(st, n, p) ==
    /\ st[1] = SnapGroups(Start(n), p.groups)
    /\ st[2] = WithoutExtra(st[1], p)
    /\ st[3] = SnapKeys(st[2], p.keys)
    /\ st[4] = WithoutOld(st[3], p)
    /\ st[5] = SnapAliases(st[4], p.aliases)
    /\ Replace(n, p) = [st[5] EXCEPT !.aliases = Kill(st[5].aliases, OldAliases(st[5].aliases, st[3].map, p), now)]

LEMMA StagesExist ==
  ASSUME NEW n, NEW p
  PROVE  \E st : Stages(st, n, p)
<1>. DEFINE st1 == SnapGroups(Start(n), p.groups)
            st2 == WithoutExtra(st1, p)
            st3 == SnapKeys(st2, p.keys)
            st4 == WithoutOld(st3, p)
            st5 == SnapAliases(st4, p.aliases)
            st == <<st1, st2, st3, st4, st5>>
<1>1. Replace(n, p) = [st5 EXCEPT !.aliases = Kill(@, OldAliases(st5.aliases, st3.map, p), now)]
  BY DEF Replace, SnapGroups, SnapKeys, SnapAliases, InTurn, MapThenFoldSet, WithoutExtra,
         ExtraGroups, ExtraKeys, WithoutOld, OldKeys, OldAliases, Here
<1>2. Replace(n, p) = [st5 EXCEPT !.aliases = Kill(st5.aliases, OldAliases(st5.aliases, st3.map, p), now)]
  BY <1>1
<1>3. st[1] = st1 /\ st[2] = st2 /\ st[3] = st3 /\ st[4] = st4 /\ st[5] = st5
  <2>. HIDE DEF st1, st2, st3, st4, st5
  <2>. QED  OBVIOUS
<1>4. /\ st2 = WithoutExtra(st1, p) /\ st3 = SnapKeys(st2, p.keys) /\ st4 = WithoutOld(st3, p)
      /\ st5 = SnapAliases(st4, p.aliases) /\ st1 = SnapGroups(Start(n), p.groups)
  OBVIOUS
<1>. HIDE DEF st1, st2, st3, st4, st5, st
<1>5. Stages(st, n, p)
  BY <1>2, <1>3, <1>4 DEF Stages
<1>. QED  BY <1>5

LEMMA WithoutExtraKeeps ==
  ASSUME now \in Times, NEW J, NEW w \in BOOLEAN, ~w, NEW st \in Accumulator(J, w, now), NEW p
  PROVE  /\ WithoutExtra(st, p) \in Accumulator(J, w, now)
         /\ WithoutExtra(st, p).map = st.map
         /\ Live(WithoutExtra(st, p).groups) = Live(st.groups) \ ExtraGroups(st, p)
<1>1. /\ GroupTable(st.groups) /\ J \subseteq IdsOf(st.groups)
      /\ KeyTable(st.keys, now) /\ AliasTable(st.aliases)
      /\ st.map \in Maps /\ st.ok \in BOOLEAN
      /\ st = [groups |-> st.groups, keys |-> st.keys, aliases |-> st.aliases,
               map |-> st.map, ok |-> st.ok]
  BY AccumulatorIs
<1>. DEFINE G == Kill(st.groups, ExtraGroups(st, p), now)
            K == Kill(st.keys, ExtraKeys(st, p), now)
<1>2. ExtraGroups(st, p) \in SUBSET st.groups /\ ExtraKeys(st, p) \in SUBSET st.keys
  BY DEF Live, ExtraGroups, ExtraKeys
<1>3. GroupTable(G) /\ \A s \in st.groups : \E q \in G : q.id = s.id
  BY <1>1, <1>2, GroupsKill
<1>4. J \subseteq IdsOf(G)
  BY <1>1, <1>3, IdsKept
<1>5. KeyTable(K, now)
  BY <1>1, <1>2, KeysKill
<1>6. Live(G) = Live(st.groups) \ ExtraGroups(st, p)
  <2>1. \A r \in ExtraGroups(st, p) : r \in GroupRow
    BY <1>1, <1>2 DEF GroupTable, Table
  <2>2. now # 0
    BY DEF Times
  <2>3. \A r \in ExtraGroups(st, p) : Killed(r, now).del = now
    BY <2>1, GroupKilled
  <2>. QED  BY <1>2, <2>2, <2>3, LiveAfterKill
<1>7. WithoutExtra(st, p) = [st EXCEPT !.groups = G, !.keys = K]
  BY DEF WithoutExtra
<1>. HIDE DEF G, K
<1>8. WithoutExtra(st, p) = [groups |-> G, keys |-> K, aliases |-> st.aliases, map |-> st.map, ok |-> st.ok]
  BY <1>1, <1>7
<1>9. [groups |-> G, keys |-> K, aliases |-> st.aliases, map |-> st.map, ok |-> st.ok] \in Accumulator(J, w, now)
  BY <1>1, <1>3, <1>4, <1>5, AccumulatorMade
<1>. QED  BY <1>6, <1>8, <1>9

LEMMA WithoutOldKeeps ==
  ASSUME now \in Times, NEW J, NEW w \in BOOLEAN, ~w, NEW st \in Accumulator(J, w, now), NEW p
  PROVE  /\ WithoutOld(st, p) \in Accumulator(J, w, now)
         /\ WithoutOld(st, p).map = st.map /\ WithoutOld(st, p).groups = st.groups
         /\ Live(WithoutOld(st, p).keys) = Live(st.keys) \ OldKeys(st, p)
<1>1. /\ KeyTable(st.keys, now)
      /\ st = [groups |-> st.groups, keys |-> st.keys, aliases |-> st.aliases,
               map |-> st.map, ok |-> st.ok]
  BY AccumulatorIs
<1>. DEFINE K == Kill(st.keys, OldKeys(st, p), now)
<1>2. OldKeys(st, p) \in SUBSET st.keys
  BY DEF Live, OldKeys
<1>3. KeyTable(K, now)
  BY <1>1, <1>2, KeysKill
<1>4. Live(K) = Live(st.keys) \ OldKeys(st, p)
  <2>1. \A r \in OldKeys(st, p) : r \in ChildRow
    BY <1>1, <1>2 DEF KeyTable, Table, KeyRow
  <2>2. now # 0
    BY DEF Times
  <2>3. \A r \in OldKeys(st, p) : Killed(r, now).del = now
    BY <2>1, ChildKilled
  <2>. QED  BY <1>2, <2>2, <2>3, LiveAfterKill
<1>5. WithoutOld(st, p) = [st EXCEPT !.keys = K]
  BY DEF WithoutOld
<1>. HIDE DEF K
<1>6. /\ WithoutOld(st, p).map = st.map /\ WithoutOld(st, p).groups = st.groups
      /\ WithoutOld(st, p).keys = K
  BY <1>1, <1>5
<1>7. WithoutOld(st, p) \in Accumulator(J, w, now)
  BY <1>3, <1>5, NewKeys
<1>. QED  BY <1>4, <1>6, <1>7

LEMMA StagesKeep ==
  ASSUME now \in Times, NEW J, NEW w \in BOOLEAN, ~w, NEW n, Start(n) \in Accumulator(J, w, now),
         NEW p, Sent(p, now), NEW st, Stages(st, n, p)
  PROVE  \A i \in 1 .. 5 : st[i] \in Accumulator(J, w, now)
<1>. DEFINE A == Accumulator(J, w, now)
<1>1. /\ IsFiniteSet(p.groups) /\ \A r \in p.groups : r \in GroupRow /\ r.id \in Nat
      /\ IsFiniteSet(p.keys) /\ \A r \in p.keys : r \in KeyRow(now) /\ r.id \in Nat
      /\ IsFiniteSet(p.aliases) /\ \A r \in p.aliases : r \in ChildRow /\ r.id \in Nat
  BY SentIs
<1>2. /\ \A a \in A, r \in p.groups : SnapGroup(a, r) \in A
      /\ \A a \in A, r \in p.aliases : SnapAlias(a, r) \in A
      /\ \A a \in A, r \in p.keys : SnapKey(a, r) \in A
  BY <1>1, SnapGroupKeeps, SnapAliasKeeps, SnapKeyKeeps
<1>3. \A a \in A : WithoutExtra(a, p) \in A /\ WithoutOld(a, p) \in A
  BY WithoutExtraKeeps, WithoutOldKeeps
<1>4. Start(n) \in A
  OBVIOUS
<1>. HIDE DEF A
<1>5. st[1] \in A
  BY <1>1, <1>2, <1>4, SnapGroupsStay DEF Stages
<1>6. st[2] \in A
  BY <1>3, <1>5 DEF Stages
<1>7. st[3] \in A
  BY <1>1, <1>2, <1>6, SnapKeysStay DEF Stages
<1>8. st[4] \in A
  BY <1>3, <1>7 DEF Stages
<1>9. st[5] \in A
  BY <1>1, <1>2, <1>8, SnapAliasesStay DEF Stages
<1>. QED  BY <1>5, <1>6, <1>7, <1>8, <1>9 DEF A

\* A whole mirroring, on a node that does not merge.
LEMMA ReplaceKeeps ==
  ASSUME now \in Times, NEW J, NEW w \in BOOLEAN, ~w, NEW n, Start(n) \in Accumulator(J, w, now),
         NEW p, Sent(p, now)
  PROVE  Replace(n, p) \in Accumulator(J, w, now)
<1>1. PICK st : Stages(st, n, p)
  BY StagesExist
<1>. DEFINE lost == OldAliases(st[5].aliases, st[3].map, p)
            L == Kill(st[5].aliases, lost, now)
<1>2. st[5] \in Accumulator(J, w, now)
  BY <1>1, StagesKeep
<1>3. AliasTable(st[5].aliases)
  BY <1>2, AccumulatorIs
<1>4. lost \in SUBSET st[5].aliases
  BY DEF Live, OldAliases
<1>5. Replace(n, p) = [st[5] EXCEPT !.aliases = L]
  BY <1>1 DEF Stages
<1>. HIDE DEF lost
<1>6. AliasTable(L)
  BY <1>3, <1>4, AliasesKill
<1>. HIDE DEF L
<1>. QED  BY <1>2, <1>5, <1>6, NewAliases

--------------------------------------------------------------------------
(* What a mirroring copies *)

\* An answer as a master gives it: what lives there, nothing twice.
Whole(p) ==
    /\ UniqueIn(p.groups, "id") /\ UniqueIn(p.groups, "name") /\ \A r \in p.groups : r.del = 0
    /\ UniqueIn(p.keys, "gid") /\ \A r \in p.keys : r.del = 0
    /\ UniqueIn(p.aliases, "gid") /\ \A r \in p.aliases : r.del = 0

\* Each group of S has a copy that lives here, with the id that its own is mapped to.
GroupsCopied(S, T, m) ==
    /\ DOMAIN m = IdsOf(S)
    /\ \A r \in S : \E g \in Live(T) : g.id = m[r.id] /\ SameGroup(g, r)

LEMMA SnapGroupCopies ==
  ASSUME NEW J, NEW w, NEW t, NEW st \in Accumulator(J, w, t),
         NEW S \in SUBSET GroupRow, UniqueIn(S, "id"), UniqueIn(S, "name"),
         NEW in \in S, in.del = 0, GroupsCopied(S \ {in}, st.groups, st.map)
  PROVE  GroupsCopied(S, SnapGroup(st, in).groups, SnapGroup(st, in).map)
<1>1. PICK row \in GroupRow :
            /\ SnapGroup(st, in) = [groups |-> Put(st.groups, row), keys |-> st.keys,
                                    aliases |-> st.aliases, ok |-> st.ok,
                                    map |-> [i \in DOMAIN st.map \cup {in.id} |->
                                               IF i = in.id THEN row.id ELSE st.map[i]]]
            /\ SameGroup(row, in) /\ Replaces(row, st.groups, "name")
  BY SnapGroupIs
<1>. DEFINE G == Put(st.groups, row)
            m == [i \in DOMAIN st.map \cup {in.id} |-> IF i = in.id THEN row.id ELSE st.map[i]]
<1>2. SnapGroup(st, in).groups = G /\ SnapGroup(st, in).map = m
  BY <1>1
<1>3. row.name = in.name /\ row.del = 0
  BY <1>1 DEF SameGroup
<1>4. /\ \A g \in Live(st.groups) : g.name # in.name => g \in Live(G)
      /\ row \in Live(G)
  BY <1>1, <1>3, LiveAfterPut DEF Replaces
<1>5. DOMAIN st.map = IdsOf(S \ {in})
  BY DEF GroupsCopied
<1>6. ASSUME NEW r \in S \ {in} PROVE \E g \in Live(G) : g.id = m[r.id] /\ SameGroup(g, r)
  <2>1. r.id # in.id /\ r.name # in.name
    BY DEF UniqueIn
  <2>2. PICK g \in Live(st.groups) : g.id = st.map[r.id] /\ SameGroup(g, r)
    BY DEF GroupsCopied
  <2>3. r.id \in DOMAIN st.map
    BY <1>5 DEF IdsOf
  <2>4. m[r.id] = st.map[r.id]
    BY <2>1, <2>3
  <2>5. g \in Live(G)
    BY <1>4, <2>1, <2>2 DEF SameGroup
  <2>. QED  BY <2>2, <2>4, <2>5
<1>7. m[in.id] = row.id
  OBVIOUS
<1>8. DOMAIN m = IdsOf(S)
  BY <1>5 DEF IdsOf
<1>. HIDE DEF G, m
<1>9. GroupsCopied(S, G, m)
  BY <1>1, <1>4, <1>6, <1>7, <1>8 DEF GroupsCopied
<1>. QED  BY <1>2, <1>9

\* Two groups are not mapped to one.
OneToOne(m) == \A i, j \in DOMAIN m : m[i] = m[j] => i = j

LEMMA CopiesOneToOne ==
  ASSUME NEW T, GroupTable(T), NEW S, UniqueIn(S, "name"), NEW m, GroupsCopied(S, T, m)
  PROVE  OneToOne(m)
<1>1. SUFFICES ASSUME NEW i \in DOMAIN m, NEW j \in DOMAIN m, m[i] = m[j] PROVE i = j
  BY DEF OneToOne
<1>2. PICK r \in S, q \in S : r.id = i /\ q.id = j
  BY DEF GroupsCopied, IdsOf
<1>3. PICK g \in Live(T) : g.id = m[r.id] /\ SameGroup(g, r)
  BY DEF GroupsCopied
<1>4. PICK h \in Live(T) : h.id = m[q.id] /\ SameGroup(h, q)
  BY DEF GroupsCopied
<1>5. g = h
  BY <1>1, <1>2, <1>3, <1>4 DEF GroupTable, Table, UniqueIn, Live
<1>6. r.name = q.name
  BY <1>3, <1>4, <1>5 DEF SameGroup
<1>. QED  BY <1>2, <1>6 DEF UniqueIn

\* Each key or alias of S whose group is mapped has a copy that lives here.
ChildrenCopied(S, T, m) ==
    \A r \in S : r.gid \in DOMAIN m => \E q \in Live(T) : q.gid = m[r.gid] /\ q.upd = r.upd

\* Writing the copy of one overwrites no other.
LEMMA ChildCopied ==
  ASSUME NEW T, NEW S, UniqueIn(S, "gid"), NEW in \in S, in.del = 0, NEW m, OneToOne(m),
         in.gid \in DOMAIN m, ChildrenCopied(S \ {in}, T, m),
         NEW row, SameChild(row, in, m[in.gid]), Replaces(row, T, "gid")
  PROVE  ChildrenCopied(S, Put(T, row), m)
<1>1. row.gid = m[in.gid] /\ row.upd = in.upd /\ row.del = 0
  BY DEF SameChild
<1>2. /\ \A q \in Live(T) : q.gid # row.gid => q \in Live(Put(T, row))
      /\ row \in Live(Put(T, row))
  BY <1>1, LiveAfterPut DEF Replaces
<1>3. ASSUME NEW r \in S \ {in}, r.gid \in DOMAIN m
      PROVE  \E q \in Live(Put(T, row)) : q.gid = m[r.gid] /\ q.upd = r.upd
  <2>1. PICK q \in Live(T) : q.gid = m[r.gid] /\ q.upd = r.upd
    BY <1>3 DEF ChildrenCopied
  <2>2. r.gid # in.gid
    BY DEF UniqueIn
  <2>3. m[r.gid] # m[in.gid]
    BY <1>3, <2>2 DEF OneToOne
  <2>. QED  BY <1>1, <1>2, <2>1, <2>3
<1>. QED  BY <1>1, <1>2, <1>3 DEF ChildrenCopied

LEMMA SnapKeyCopies ==
  ASSUME NEW J, NEW w, NEW t, NEW st \in Accumulator(J, w, t),
         NEW S \in SUBSET KeyRow(t), UniqueIn(S, "gid"), NEW in \in S, in.del = 0, OneToOne(st.map),
         ChildrenCopied(S \ {in}, st.keys, st.map)
  PROVE  /\ ChildrenCopied(S, SnapKey(st, in).keys, st.map)
         /\ SnapKey(st, in).groups = st.groups /\ SnapKey(st, in).map = st.map
<1>0. st = [groups |-> st.groups, keys |-> st.keys, aliases |-> st.aliases, map |-> st.map, ok |-> st.ok]
  BY AccumulatorIs
<1>1. CASE in.gid \notin DOMAIN st.map
  <2>1. SnapKey(st, in) = st
    BY <1>1 DEF SnapKey
  <2>. QED  BY <1>1, <2>1 DEF ChildrenCopied
<1>2. CASE in.gid \in DOMAIN st.map
  <2>1. PICK row \in KeyRow(t) :
            /\ SnapKey(st, in) = [st EXCEPT !.keys = Put(st.keys, row)]
            /\ SameChild(row, in, st.map[in.gid]) /\ Replaces(row, st.keys, "gid")
    BY <1>2, SnapKeyIs
  <2>2. ChildrenCopied(S, Put(st.keys, row), st.map)
    BY <1>2, <2>1, ChildCopied
  <2>3. /\ SnapKey(st, in).keys = Put(st.keys, row)
        /\ SnapKey(st, in).groups = st.groups /\ SnapKey(st, in).map = st.map
    BY <1>0, <2>1
  <2>. QED  BY <2>2, <2>3
<1>. QED  BY <1>1, <1>2

LEMMA SnapAliasCopies ==
  ASSUME NEW J, NEW w, NEW t, NEW st \in Accumulator(J, w, t),
         NEW S \in SUBSET ChildRow, UniqueIn(S, "gid"), NEW in \in S, in.del = 0, OneToOne(st.map),
         ChildrenCopied(S \ {in}, st.aliases, st.map)
  PROVE  /\ ChildrenCopied(S, SnapAlias(st, in).aliases, st.map)
         /\ SnapAlias(st, in).groups = st.groups /\ SnapAlias(st, in).map = st.map
         /\ SnapAlias(st, in).keys = st.keys
<1>0. st = [groups |-> st.groups, keys |-> st.keys, aliases |-> st.aliases, map |-> st.map, ok |-> st.ok]
  BY AccumulatorIs
<1>1. CASE in.gid \notin DOMAIN st.map
  <2>1. SnapAlias(st, in) = st
    BY <1>1 DEF SnapAlias
  <2>. QED  BY <1>1, <2>1 DEF ChildrenCopied
<1>2. CASE in.gid \in DOMAIN st.map
  <2>1. PICK row \in ChildRow :
            /\ SnapAlias(st, in) = [st EXCEPT !.aliases = Put(st.aliases, row)]
            /\ SameChild(row, in, st.map[in.gid]) /\ Replaces(row, st.aliases, "gid")
    BY <1>2, SnapAliasIs
  <2>2. ChildrenCopied(S, Put(st.aliases, row), st.map)
    BY <1>2, <2>1, ChildCopied
  <2>3. /\ SnapAlias(st, in).aliases = Put(st.aliases, row)
        /\ SnapAlias(st, in).groups = st.groups /\ SnapAlias(st, in).map = st.map
        /\ SnapAlias(st, in).keys = st.keys
    BY <1>0, <2>1
  <2>. QED  BY <2>2, <2>3
<1>. QED  BY <1>1, <1>2

\* All groups, all keys, all aliases.
LEMMA SnapGroupsCopy ==
  ASSUME NEW J, NEW w, NEW t, NEW st \in Accumulator(J, w, t), st.map = <<>>,
         NEW T \in SUBSET GroupRow, IsFiniteSet(T), UniqueIn(T, "id"), UniqueIn(T, "name"),
         \A r \in T : r.del = 0
  PROVE  GroupsCopied(T, SnapGroups(st, T).groups, SnapGroups(st, T).map)
<1>. DEFINE A == Accumulator(J, w, t)
            Copied == [s \in SUBSET T |-> {a \in A : GroupsCopied(s, a.groups, a.map)}]
<1>1. \A r \in T : r.id \in Nat
  BY RowsNumbered DEF Numbered
<1>2. \A a \in A, r \in T : SnapGroup(a, r) \in A
  BY SnapGroupKeeps
<1>3. st \in Copied[{}]
  BY DEF GroupsCopied, IdsOf
<1>4. ASSUME NEW s \in SUBSET T, NEW a \in A, NEW r \in T, r \in s, a \in Copied[s \ {r}]
      PROVE  SnapGroup(a, r) \in Copied[s]
  <2>1. GroupsCopied(s \ {r}, a.groups, a.map)
    BY <1>4
  <2>2. s \in SUBSET GroupRow /\ UniqueIn(s, "id") /\ UniqueIn(s, "name") /\ r.del = 0
    BY DEF UniqueIn
  <2>3. GroupsCopied(s, SnapGroup(a, r).groups, SnapGroup(a, r).map)
    BY <1>4, <2>1, <2>2, SnapGroupCopies
  <2>. QED  BY <1>2, <2>3
<1>. HIDE DEF A, Copied
<1>5. SnapGroups(st, T) \in Copied[T]
  <2>1. st \in A
    BY DEF A
  <2>. QED  BY <1>1, <1>2, <1>3, <1>4, <2>1, SnapGroupsCover
<1>. QED  BY <1>5 DEF Copied

LEMMA SnapKeysCopy ==
  ASSUME NEW J, NEW w \in BOOLEAN, ~w, NEW t, NEW st \in Accumulator(J, w, t), OneToOne(st.map),
         NEW T \in SUBSET KeyRow(t), IsFiniteSet(T), UniqueIn(T, "gid"), \A r \in T : r.del = 0
  PROVE  /\ ChildrenCopied(T, SnapKeys(st, T).keys, st.map)
         /\ SnapKeys(st, T).groups = st.groups /\ SnapKeys(st, T).map = st.map
<1>. DEFINE A == Accumulator(J, w, t)
            Copied == [s \in SUBSET T |-> {a \in A : /\ a.groups = st.groups /\ a.map = st.map
                                                     /\ ChildrenCopied(s, a.keys, a.map)}]
<1>1. \A r \in T : r.id \in Nat
  BY RowsNumbered DEF Numbered
<1>2. \A a \in A, r \in T : SnapKey(a, r) \in A
  BY SnapKeyKeeps
<1>3. st \in Copied[{}]
  BY DEF ChildrenCopied
<1>4. ASSUME NEW s \in SUBSET T, NEW a \in A, NEW r \in T, r \in s, a \in Copied[s \ {r}]
      PROVE  SnapKey(a, r) \in Copied[s]
  <2>1. a.groups = st.groups /\ a.map = st.map /\ ChildrenCopied(s \ {r}, a.keys, a.map)
    BY <1>4
  <2>2. s \in SUBSET KeyRow(t) /\ UniqueIn(s, "gid") /\ r.del = 0
    BY DEF UniqueIn
  <2>3. /\ ChildrenCopied(s, SnapKey(a, r).keys, a.map)
        /\ SnapKey(a, r).groups = a.groups /\ SnapKey(a, r).map = a.map
    <3>1. OneToOne(a.map) /\ ChildrenCopied(s \ {r}, a.keys, a.map)
      BY <2>1
    <3>. HIDE DEF Copied
    <3>. QED  BY <1>4, <2>2, <3>1, SnapKeyCopies
  <2>. QED  BY <1>2, <2>1, <2>3
<1>. HIDE DEF A, Copied
<1>5. SnapKeys(st, T) \in Copied[T]
  <2>1. st \in A
    BY DEF A
  <2>. QED  BY <1>1, <1>2, <1>3, <1>4, <2>1, SnapKeysCover
<1>. QED  BY <1>5 DEF Copied

LEMMA SnapAliasesCopy ==
  ASSUME NEW J, NEW w, NEW t, NEW st \in Accumulator(J, w, t), OneToOne(st.map),
         NEW T \in SUBSET ChildRow, IsFiniteSet(T), UniqueIn(T, "gid"), \A r \in T : r.del = 0
  PROVE  /\ ChildrenCopied(T, SnapAliases(st, T).aliases, st.map)
         /\ SnapAliases(st, T).groups = st.groups /\ SnapAliases(st, T).map = st.map
         /\ SnapAliases(st, T).keys = st.keys
<1>. DEFINE A == Accumulator(J, w, t)
            Copied == [s \in SUBSET T |-> {a \in A : /\ a.groups = st.groups /\ a.map = st.map
                                                     /\ a.keys = st.keys
                                                     /\ ChildrenCopied(s, a.aliases, a.map)}]
<1>1. \A r \in T : r.id \in Nat
  BY RowsNumbered DEF Numbered
<1>2. \A a \in A, r \in T : SnapAlias(a, r) \in A
  BY SnapAliasKeeps
<1>3. st \in Copied[{}]
  BY DEF ChildrenCopied
<1>4. ASSUME NEW s \in SUBSET T, NEW a \in A, NEW r \in T, r \in s, a \in Copied[s \ {r}]
      PROVE  SnapAlias(a, r) \in Copied[s]
  <2>1. /\ a.groups = st.groups /\ a.map = st.map /\ a.keys = st.keys
        /\ ChildrenCopied(s \ {r}, a.aliases, a.map)
    BY <1>4
  <2>2. s \in SUBSET ChildRow /\ UniqueIn(s, "gid") /\ r.del = 0
    BY DEF UniqueIn
  <2>3. /\ ChildrenCopied(s, SnapAlias(a, r).aliases, a.map)
        /\ SnapAlias(a, r).groups = a.groups /\ SnapAlias(a, r).map = a.map
        /\ SnapAlias(a, r).keys = a.keys
    BY <1>4, <2>1, <2>2, SnapAliasCopies
  <2>. QED  BY <1>2, <2>1, <2>3
<1>. HIDE DEF A, Copied
<1>5. SnapAliases(st, T) \in Copied[T]
  <2>1. st \in A
    BY DEF A
  <2>. QED  BY <1>1, <1>2, <1>3, <1>4, <2>1, SnapAliasesCover
<1>. QED  BY <1>5 DEF Copied

\* Nothing else lives here: every living group is such a copy, and so is every key or alias
\* that lives in a mapped group.
GroupsMirrored(S, T, m) ==
    /\ GroupsCopied(S, T, m)
    /\ \A g \in Live(T) : \E r \in S : g.id = m[r.id] /\ SameGroup(g, r)
ChildrenMirrored(S, T, m) ==
    /\ ChildrenCopied(S, T, m)
    /\ \A q \in Live(T), i \in DOMAIN m :
          q.gid = m[i] => \E r \in S : r.gid = i /\ q.upd = r.upd

\* Then what is shown is the same.
LEMMA InIs ==
  ASSUME NEW gs, NEW rows
  PROVE  \A x : x \in In(gs, rows) <=> \E g \in gs, k \in rows : k.gid = g.id /\ x = <<g.name, k.upd>>
<1>1. ASSUME NEW x \in In(gs, rows) PROVE \E g \in gs, k \in rows : k.gid = g.id /\ x = <<g.name, k.upd>>
  <2>1. PICK p \in gs \X rows : p[2].gid = p[1].id /\ x = <<p[1].name, p[2].upd>>
    BY DEF In
  <2>. QED  BY <2>1
<1>2. ASSUME NEW g \in gs, NEW k \in rows, k.gid = g.id PROVE <<g.name, k.upd>> \in In(gs, rows)
  <2>. DEFINE p == <<g, k>>
  <2>1. p \in gs \X rows /\ p[2].gid = p[1].id /\ <<p[1].name, p[2].upd>> = <<g.name, k.upd>>
    BY <1>2
  <2>. HIDE DEF p
  <2>. QED  BY <2>1 DEF In
<1>. QED  BY <1>1, <1>2

LEMMA ChildrenShown ==
  ASSUME NEW S, NEW T, NEW m, GroupsMirrored(S, T, m), OneToOne(m), NEW Q, NEW U, ChildrenMirrored(Q, U, m)
  PROVE  In(Live(T), Live(U)) = In(S, Q)
<1>1. \A r \in S : r.id \in DOMAIN m
  BY DEF GroupsMirrored, GroupsCopied, IdsOf
<1>2. ASSUME NEW x \in In(Live(T), Live(U)) PROVE x \in In(S, Q)
  <2>1. PICK g \in Live(T), k \in Live(U) : k.gid = g.id /\ x = <<g.name, k.upd>>
    BY <1>2, InIs
  <2>2. PICK r \in S : g.id = m[r.id] /\ g.name = r.name
    BY DEF GroupsMirrored, SameGroup
  <2>3. PICK q \in Q : q.gid = r.id /\ k.upd = q.upd
    BY <1>1, <2>1, <2>2 DEF ChildrenMirrored
  <2>. QED  BY <2>1, <2>2, <2>3, InIs
<1>3. ASSUME NEW x \in In(S, Q) PROVE x \in In(Live(T), Live(U))
  <2>1. PICK r \in S, q \in Q : q.gid = r.id /\ x = <<r.name, q.upd>>
    BY <1>3, InIs
  <2>2. PICK g \in Live(T) : g.id = m[r.id] /\ g.name = r.name
    BY DEF GroupsMirrored, GroupsCopied, SameGroup
  <2>3. PICK k \in Live(U) : k.gid = m[q.gid] /\ k.upd = q.upd
    BY <1>1, <2>1 DEF ChildrenMirrored, ChildrenCopied
  <2>. QED  BY <2>1, <2>2, <2>3, InIs
<1>. QED  BY <1>2, <1>3

LEMMA GroupsShown ==
  ASSUME NEW S, NEW T, NEW m, GroupsMirrored(S, T, m)
  PROVE  {<<g.name, g.upd, g.by, Shared(g.cfg)>> : g \in Live(T)}
           = {<<g.name, g.upd, g.by, Shared(g.cfg)>> : g \in S}
<1>1. \A g \in Live(T) : \E r \in S :
        <<g.name, g.upd, g.by, Shared(g.cfg)>> = <<r.name, r.upd, r.by, Shared(r.cfg)>>
  BY DEF GroupsMirrored, SameGroup
<1>2. \A r \in S : \E g \in Live(T) :
        <<g.name, g.upd, g.by, Shared(g.cfg)>> = <<r.name, r.upd, r.by, Shared(r.cfg)>>
  BY DEF GroupsMirrored, GroupsCopied, SameGroup
<1>. QED  BY <1>1, <1>2

\* A deletion of everything else that lives makes a copy a mirror.
LEMMA GroupsLeft ==
  ASSUME NEW T, GroupTable(T), NEW S, NEW m, GroupsCopied(S, T, m), UniqueIn(S, "name"),
         NEW U, Live(U) = Live(T) \ {g \in Live(T) : \A r \in S : r.name # g.name}
  PROVE  GroupsMirrored(S, U, m)
<1>1. ASSUME NEW r \in S PROVE \E g \in Live(U) : g.id = m[r.id] /\ SameGroup(g, r)
  <2>1. PICK g \in Live(T) : g.id = m[r.id] /\ SameGroup(g, r)
    BY DEF GroupsCopied
  <2>2. g \in Live(U)
    BY <2>1 DEF SameGroup
  <2>. QED  BY <2>1, <2>2
<1>2. ASSUME NEW g \in Live(U) PROVE \E r \in S : g.id = m[r.id] /\ SameGroup(g, r)
  <2>1. g \in Live(T)
    OBVIOUS
  <2>2. PICK r \in S : r.name = g.name
    OBVIOUS
  <2>3. PICK h \in Live(T) : h.id = m[r.id] /\ SameGroup(h, r)
    BY DEF GroupsCopied
  <2>4. h = g
    BY <2>1, <2>2, <2>3 DEF GroupTable, UniqueIn, SameGroup
  <2>. QED  BY <2>3, <2>4
<1>. QED  BY <1>1, <1>2 DEF GroupsMirrored, GroupsCopied

LEMMA ChildrenLeft ==
  ASSUME NEW T, UniqueIn(Live(T), "gid"), NEW S, NEW m, OneToOne(m), ChildrenCopied(S, T, m),
         NEW U, Live(U) \subseteq Live(T),
         \A q \in Live(T), i \in DOMAIN m :
            q.gid = m[i] => (q \in Live(U) <=> \E r \in S : r.gid = i)
  PROVE  ChildrenMirrored(S, U, m)
<1>1. ASSUME NEW r \in S, r.gid \in DOMAIN m PROVE \E q \in Live(U) : q.gid = m[r.gid] /\ q.upd = r.upd
  <2>1. PICK q \in Live(T) : q.gid = m[r.gid] /\ q.upd = r.upd
    BY <1>1 DEF ChildrenCopied
  <2>2. q \in Live(U)
    BY <1>1, <2>1
  <2>. QED  BY <2>1, <2>2
<1>2. ASSUME NEW q \in Live(U), NEW i \in DOMAIN m, q.gid = m[i]
      PROVE  \E r \in S : r.gid = i /\ q.upd = r.upd
  <2>1. q \in Live(T)
    OBVIOUS
  <2>2. PICK r \in S : r.gid = i
    BY <1>2, <2>1
  <2>3. PICK k \in Live(T) : k.gid = m[i] /\ k.upd = r.upd
    BY <2>2 DEF ChildrenCopied
  <2>4. k = q
    BY <1>2, <2>1, <2>3 DEF UniqueIn
  <2>. QED  BY <2>2, <2>3, <2>4
<1>. QED  BY <1>1, <1>2 DEF ChildrenMirrored, ChildrenCopied

\* Where a key or an alias of the answer goes: into the mapped group, or nowhere.
LEMMA HereIs ==
  ASSUME NEW m \in Maps, OneToOne(m), NEW S, NEW q, q.gid \in Ids, NEW i \in DOMAIN m, q.gid = m[i]
  PROVE  (\A r \in S : (IF r.gid \in DOMAIN m THEN m[r.gid] ELSE 0) # q.gid) <=> ~\E r \in S : r.gid = i
<1>1. ASSUME NEW r \in S PROVE (IF r.gid \in DOMAIN m THEN m[r.gid] ELSE 0) = q.gid <=> r.gid = i
  <2>1. CASE r.gid \in DOMAIN m
    BY <2>1 DEF OneToOne
  <2>2. CASE r.gid \notin DOMAIN m
    BY <2>2 DEF Ids
  <2>. QED  BY <2>1, <2>2
<1>. QED  BY <1>1

\* The keys or aliases of a mapped group that are not in the answer are killed, so those left
\* are the answer's.
LEMMA KilledLeft ==
  ASSUME NEW T, T \subseteq ChildRow, UniqueIn(Live(T), "gid"), NEW S, NEW m \in Maps, OneToOne(m),
         ChildrenCopied(S, T, m), NEW U, NEW K, Live(U) = Live(T) \ K,
         \A q \in Live(T), i \in DOMAIN m :
            q.gid = m[i] => (q \in K <=> \A in \in S : Here(m, in) # q.gid)
  PROVE  ChildrenMirrored(S, U, m)
<1>1. ASSUME NEW q \in Live(T), NEW i \in DOMAIN m, q.gid = m[i]
      PROVE  q \in Live(U) <=> \E r \in S : r.gid = i
  <2>1. q.gid \in Ids
    BY DEF Live, ChildRow
  <2>2. (\A r \in S : (IF r.gid \in DOMAIN m THEN m[r.gid] ELSE 0) # q.gid) <=> ~\E r \in S : r.gid = i
    BY <1>1, <2>1, HereIs
  <2>3. (\A r \in S : Here(m, r) # q.gid) <=> ~\E r \in S : r.gid = i
    BY <2>2 DEF Here
  <2>. QED  BY <1>1, <2>3
<1>2. Live(U) \subseteq Live(T)
  OBVIOUS
<1>. QED  BY <1>1, <1>2, ChildrenLeft

\* A whole answer is shown by what replaces the tables of a node that does not merge.
LEMMA ReplaceMirrors ==
  ASSUME now \in Times, NEW J, NEW w \in BOOLEAN, ~w, NEW n, Start(n) \in Accumulator(J, w, now),
         NEW p, Sent(p, now), Whole(p), NEW R, R = Replace(n, p)
  PROVE  View([groups |-> Live(R.groups), keys |-> Live(R.keys), aliases |-> Live(R.aliases)]) = View(p)
<1>1. PICK st : Stages(st, n, p)
  BY StagesExist
<1>. DEFINE A == Accumulator(J, w, now)
            m == st[1].map
            lost == OldAliases(st[5].aliases, st[3].map, p)
            L == Kill(st[5].aliases, lost, now)
<1>2. st[1] \in A /\ st[2] \in A /\ st[3] \in A /\ st[4] \in A /\ st[5] \in A
  BY <1>1, StagesKeep
<1>3. /\ st[1] = SnapGroups(Start(n), p.groups) /\ st[2] = WithoutExtra(st[1], p)
      /\ st[3] = SnapKeys(st[2], p.keys) /\ st[4] = WithoutOld(st[3], p)
      /\ st[5] = SnapAliases(st[4], p.aliases) /\ R = [st[5] EXCEPT !.aliases = L]
  BY <1>1 DEF Stages
<1>4. /\ p.groups \in SUBSET GroupRow /\ IsFiniteSet(p.groups)
      /\ UniqueIn(p.groups, "id") /\ UniqueIn(p.groups, "name") /\ \A r \in p.groups : r.del = 0
      /\ p.keys \in SUBSET KeyRow(now) /\ IsFiniteSet(p.keys)
      /\ UniqueIn(p.keys, "gid") /\ \A r \in p.keys : r.del = 0
      /\ p.aliases \in SUBSET ChildRow /\ IsFiniteSet(p.aliases)
      /\ UniqueIn(p.aliases, "gid") /\ \A r \in p.aliases : r.del = 0
  BY DEF Sent, Whole
<1>. HIDE DEF A
<1>5. GroupsCopied(p.groups, st[1].groups, m)
  <2>1. Start(n).map = <<>>
    BY DEF Start
  <2>. QED  BY <1>3, <1>4, <2>1, SnapGroupsCopy
<1>6. GroupTable(st[1].groups) /\ m \in Maps
  BY <1>2, AccumulatorIs DEF A
<1>. HIDE DEF m
<1>7. OneToOne(m)
  BY <1>4, <1>5, <1>6, CopiesOneToOne
<1>8. st[2].map = m /\ GroupsMirrored(p.groups, st[2].groups, m)
  <2>1. /\ st[2].map = m
        /\ Live(st[2].groups) = Live(st[1].groups) \ ExtraGroups(st[1], p)
    BY <1>2, <1>3, WithoutExtraKeeps DEF A, m
  <2>2. Live(st[2].groups) = Live(st[1].groups) \ {g \in Live(st[1].groups) : \A r \in p.groups : r.name # g.name}
    BY <2>1 DEF ExtraGroups
  <2>. QED  BY <1>4, <1>5, <1>6, <2>1, <2>2, GroupsLeft
<1>9. /\ ChildrenCopied(p.keys, st[3].keys, m)
      /\ st[3].groups = st[2].groups /\ st[3].map = m
  BY <1>2, <1>3, <1>4, <1>7, <1>8, SnapKeysCopy DEF A
<1>10. /\ st[4].map = m /\ st[4].groups = st[2].groups
       /\ ChildrenMirrored(p.keys, st[4].keys, m)
  <2>1. /\ st[4].map = m /\ st[4].groups = st[2].groups
        /\ Live(st[4].keys) = Live(st[3].keys) \ OldKeys(st[3], p)
    BY <1>2, <1>3, <1>9, WithoutOldKeeps DEF A
  <2>2. st[3].keys \subseteq ChildRow /\ UniqueIn(Live(st[3].keys), "gid")
    BY <1>2, AccumulatorIs DEF A, KeyTable, Table, KeyRow
  <2>3. \A q \in Live(st[3].keys), i \in DOMAIN m :
          q.gid = m[i] => (q \in OldKeys(st[3], p) <=> \A in \in p.keys : Here(m, in) # q.gid)
    BY <1>9 DEF OldKeys
  <2>. QED  BY <1>6, <1>7, <1>9, <2>1, <2>2, <2>3, KilledLeft
<1>11. /\ ChildrenCopied(p.aliases, st[5].aliases, m)
       /\ st[5].groups = st[2].groups /\ st[5].keys = st[4].keys
  BY <1>2, <1>3, <1>4, <1>7, <1>10, SnapAliasesCopy DEF A
<1>12. ChildrenMirrored(p.aliases, L, m)
  <2>1. AliasTable(st[5].aliases)
    BY <1>2, AccumulatorIs DEF A
  <2>2. st[5].aliases \subseteq ChildRow /\ UniqueIn(Live(st[5].aliases), "gid")
    BY <2>1 DEF AliasTable, Table
  <2>3. lost \in SUBSET st[5].aliases
    BY DEF OldAliases, Live
  <2>4. \A q \in Live(st[5].aliases), i \in DOMAIN m :
          q.gid = m[i] => (q \in lost <=> \A in \in p.aliases : Here(m, in) # q.gid)
    BY <1>9 DEF OldAliases
  <2>. HIDE DEF lost
  <2>5. now # 0 /\ \A r \in lost : Killed(r, now).del = now
    <3>1. \A r \in lost : r \in ChildRow
      BY <2>2, <2>3
    <3>. QED  BY <3>1, ChildKilled DEF Times
  <2>6. Live(L) = Live(st[5].aliases) \ lost
    BY <2>3, <2>5, LiveAfterKill
  <2>. HIDE DEF L
  <2>. QED  BY <1>6, <1>7, <1>11, <2>2, <2>4, <2>6, KilledLeft
<1>. HIDE DEF L
<1>13. R.groups = st[2].groups /\ R.keys = st[4].keys /\ R.aliases = L
  <2>1. st[5] = [groups |-> st[5].groups, keys |-> st[5].keys, aliases |-> st[5].aliases,
                 map |-> st[5].map, ok |-> st[5].ok]
    BY <1>2, AccumulatorIs DEF A
  <2>. QED  BY <1>3, <1>11, <2>1
<1>. DEFINE G == R.groups
            K == R.keys
<1>14. GroupsMirrored(p.groups, G, m) /\ ChildrenMirrored(p.keys, K, m)
  BY <1>8, <1>10, <1>13
<1>15. R.aliases = L
  BY <1>13
<1>. HIDE DEF G, K
<1>16. In(Live(G), Live(K)) = In(p.groups, p.keys) /\ In(Live(G), Live(L)) = In(p.groups, p.aliases)
  BY <1>7, <1>12, <1>14, ChildrenShown
<1>17. {<<g.name, g.upd, g.by, Shared(g.cfg)>> : g \in Live(G)}
         = {<<g.name, g.upd, g.by, Shared(g.cfg)>> : g \in p.groups}
  BY <1>14, GroupsShown
<1>18. View([groups |-> Live(G), keys |-> Live(K), aliases |-> Live(L)]) = View(p)
  BY <1>16, <1>17 DEF View
<1>. QED  BY <1>15, <1>18 DEF G, K

--------------------------------------------------------------------------
(* The inductive invariant of the mesh *)

\* The tables of every node are sound; on a node that merges no key is revived.
TablesSound ==
    /\ groups = [n \in Node |-> groups[n]] /\ keys = [n \in Node |-> keys[n]]
    /\ aliases = [n \in Node |-> aliases[n]]
    /\ \A n \in Node : /\ GroupTable(groups[n])
                       /\ KeyTable(keys[n], now)
                       /\ AliasTable(aliases[n])
                       /\ n \in env => Fresh(keys[n])

\* An update that has read its group will find the row, deleted or not.
EditsSound ==
    /\ edit = [n \in Node |-> edit[n]]
    /\ \A n \in Node : edit[n] # None => edit[n] \in GroupRow /\ edit[n].id \in IdsOf(groups[n])

NetSound == \A m \in net : m.to \in Node /\ m.via \in {"dialled", "held"} /\ Sent(m.body, now)

PullsSound ==
    /\ pull = [n \in Node |-> [s \in Slots |-> pull[n][s]]]
    /\ \A n \in Node, s \in Slots : Waiting(n, s) =>
         pull[n][s].from \in Peers(n) /\ Sent(pull[n][s].body, now)

RolesSound ==
    /\ env \in Deployments
    /\ slave \in [Node -> {"unset", "true", "false"}]
    /\ parent \in [Node -> SUBSET Node]
    /\ synced \in [Node -> [Node -> 0 .. MaxTime]]

MeshInv == /\ RolesSound /\ TablesSound /\ EditsSound /\ NetSound /\ PullsSound
           /\ now \in Times /\ acts \in 0 .. MaxActs

\* It contains what is to be shown.
LEMMA MeshGoals ==
  ASSUME MeshInv
  PROVE  TypeOK /\ NoStaleRevival
<1>1. \A n \in Node : /\ \A r \in groups[n] : r \in GroupRow
                      /\ \A r \in keys[n] \cup aliases[n] : r \in ChildRow
                      /\ UniqueIn(Live(groups[n]), "name")
                      /\ UniqueIn(Live(keys[n]), "gid")
                      /\ UniqueIn(Live(aliases[n]), "gid")
  BY DEF MeshInv, TablesSound, GroupTable, KeyTable, AliasTable, Table, KeyRow
<1>2. \A n \in Node : edit[n] # None => edit[n] \in GroupRow
  BY DEF MeshInv, EditsSound
<1>3. \A n \in Node, s \in Slots : Waiting(n, s) => pull[n][s].from \in Peers(n)
  BY DEF MeshInv, PullsSound
<1>4. TypeOK
  BY <1>1, <1>2, <1>3 DEF MeshInv, RolesSound, NetSound, TypeOK
<1>5. NoStaleRevival
  <2>1. \A n \in env : n \in Node
    BY MeshAssumption DEF MeshInv, RolesSound
  <2>. QED  BY <2>1 DEF MeshInv, TablesSound, Fresh, NoStaleRevival
<1>. QED  BY <1>4, <1>5

\* What a step at one node has to show.
LEMMA OneNode ==
  ASSUME TablesSound, EditsSound, NEW n \in Node, NEW G, NEW K, NEW L, NEW E,
         groups' = [groups EXCEPT ![n] = G], keys' = [keys EXCEPT ![n] = K],
         aliases' = [aliases EXCEPT ![n] = L], edit' = [edit EXCEPT ![n] = E],
         now' = now, env' = env,
         GroupTable(G), KeyTable(K, now), AliasTable(L), n \in env => Fresh(K),
         E # None => E \in GroupRow /\ E.id \in IdsOf(G)
  PROVE  TablesSound' /\ EditsSound'
<1>1. /\ groups' = [p \in Node |-> groups'[p]] /\ keys' = [p \in Node |-> keys'[p]]
      /\ aliases' = [p \in Node |-> aliases'[p]] /\ edit' = [p \in Node |-> edit'[p]]
  BY DEF TablesSound, EditsSound
<1>2. \A p \in Node : /\ groups'[p] = IF p = n THEN G ELSE groups[p]
                      /\ keys'[p] = IF p = n THEN K ELSE keys[p]
                      /\ aliases'[p] = IF p = n THEN L ELSE aliases[p]
                      /\ edit'[p] = IF p = n THEN E ELSE edit[p]
  BY DEF TablesSound, EditsSound
<1>3. TablesSound'
  BY <1>1, <1>2 DEF TablesSound
<1>4. EditsSound'
  BY <1>1, <1>2 DEF EditsSound
<1>. QED  BY <1>3, <1>4

\* What is unchanged is a change to itself.
LEMMA Itself ==
  ASSUME TablesSound, EditsSound, NEW n \in Node
  PROVE  /\ groups = [groups EXCEPT ![n] = groups[n]] /\ keys = [keys EXCEPT ![n] = keys[n]]
         /\ aliases = [aliases EXCEPT ![n] = aliases[n]] /\ edit = [edit EXCEPT ![n] = edit[n]]
  BY DEF TablesSound, EditsSound

\* What a node has.
LEMMA AtNode ==
  ASSUME MeshInv, NEW n \in Node
  PROVE  /\ GroupTable(groups[n]) /\ KeyTable(keys[n], now) /\ AliasTable(aliases[n])
         /\ n \in env => Fresh(keys[n])
         /\ edit[n] # None => edit[n] \in GroupRow /\ edit[n].id \in IdsOf(groups[n])
         /\ now \in Times /\ TablesSound /\ EditsSound
  BY DEF MeshInv, TablesSound, EditsSound

\* Time alone makes nothing unsound.
LEMMA LaterKeys ==
  ASSUME NEW t \in Nat, NEW u \in Nat, t <= u
  PROVE  /\ KeyRow(t) \subseteq KeyRow(u)
         /\ \A T : KeyTable(T, t) => KeyTable(T, u)
         /\ \A b : Sent(b, t) => Sent(b, u)
<1>1. KeyRow(t) \subseteq KeyRow(u)
  BY MeshAssumption DEF KeyRow, ChildRow, Times
<1>. QED  BY <1>1 DEF KeyTable, Table, Sent

\* What leaves frames, answers and roles alone.
LEMMA OthersKept ==
  ASSUME MeshInv, now' = now, net' = net, pull' = pull, UNCHANGED <<env, slave, parent, synced>>
  PROVE  RolesSound' /\ NetSound' /\ PullsSound' /\ now' \in Times
  BY DEF MeshInv, RolesSound, NetSound, PullsSound, Waiting

LEMMA TablesKept ==
  ASSUME MeshInv, now' = now, env' = env, UNCHANGED data, edit' = edit
  PROVE  TablesSound' /\ EditsSound'
  BY DEF MeshInv, TablesSound, EditsSound, data

LEMMA ActsCounted ==
  ASSUME MeshInv, Act
  PROVE  acts' \in 0 .. MaxActs
  BY MeshAssumption DEF MeshInv, Act

--------------------------------------------------------------------------
(* One lemma per action *)

\* What a transaction starts from.
LEMMA StartSound ==
  ASSUME MeshInv, NEW n \in Node, NEW w \in BOOLEAN, w = (n \in env)
  PROVE  Start(n) \in Accumulator(IdsOf(groups[n]), w, now)
<1>1. /\ GroupTable(groups[n]) /\ KeyTable(keys[n], now) /\ AliasTable(aliases[n])
      /\ w => Fresh(keys[n])
  BY AtNode
<1>2. <<>> \in Maps
  BY MapsAre
<1>. QED  BY <1>1, <1>2, AccumulatorMade DEF Start

\* What is merged or mirrored is installed.
LEMMA Installs ==
  ASSUME MeshInv, NEW n \in Node, NEW w \in BOOLEAN, w = (n \in env),
         NEW st \in Accumulator(IdsOf(groups[n]), w, now),
         Install(n, st), edit' = edit, now' = now, env' = env
  PROVE  TablesSound' /\ EditsSound'
<1>1. /\ GroupTable(st.groups) /\ IdsOf(groups[n]) \subseteq IdsOf(st.groups)
      /\ KeyTable(st.keys, now) /\ (w => Fresh(st.keys)) /\ AliasTable(st.aliases)
  BY AccumulatorIs
<1>2. edit[n] # None => edit[n] \in GroupRow /\ edit[n].id \in IdsOf(st.groups)
  BY <1>1, AtNode
<1>3. TablesSound /\ EditsSound
  BY AtNode
<1>4. edit' = [edit EXCEPT ![n] = edit[n]]
  BY <1>3, Itself
<1>5. /\ groups' = [groups EXCEPT ![n] = st.groups] /\ keys' = [keys EXCEPT ![n] = st.keys]
      /\ aliases' = [aliases EXCEPT ![n] = st.aliases]
  BY DEF Install
<1>. QED  BY <1>1, <1>2, <1>3, <1>4, <1>5, OneNode

\* Nodes start sound.
LEMMA MeshInit ==
  ASSUME Init
  PROVE  MeshInv
<1>1. RolesSound /\ NetSound /\ PullsSound /\ now \in Times /\ acts \in 0 .. MaxActs
  BY MeshAssumption DEF Init, RolesSound, NetSound, PullsSound, Times, Waiting
<1>. DEFINE second == [FirstChild EXCEPT !.id = 2]
            first == [FirstChild EXCEPT !.del = 1]
<1>2. /\ FirstChild \in KeyRow(1) /\ first \in ChildRow /\ second \in ChildRow
      /\ FirstChild.id = 1 /\ FirstChild.del = 0 /\ first.id = 1 /\ second.id = 2
      /\ first.del = 1 /\ second.del = 0 /\ FirstChild \in ChildRow
  BY MeshAssumption DEF FirstChild, KeyRow, ChildRow, Ids, Times
<1>. HIDE DEF first, second
<1>3. KeyTable({FirstChild}, 1) /\ Fresh({FirstChild})
  <2>1. IsFiniteSet({FirstChild}) /\ Cardinality({FirstChild}) = 1
    BY FS_Singleton
  <2>2. \A x, y \in {FirstChild} : x = y /\ x = FirstChild
    OBVIOUS
  <2>3. Table({FirstChild}, KeyRow(1))
    BY <1>2, <2>1, <2>2 DEF Table, UniqueIn
  <2>4. UniqueIn(Live({FirstChild}), "gid") /\ Fresh({FirstChild})
    BY <1>2 DEF UniqueIn, Live, Dead, Fresh
  <2>. QED  BY <2>3, <2>4 DEF KeyTable
<1>4. AliasTable({first, second})
  <2>1. IsFiniteSet({first}) /\ Cardinality({first}) = 1 /\ second \notin {first}
    <3>1. IsFiniteSet({first}) /\ Cardinality({first}) = 1
      BY FS_Singleton
    <3>. QED  BY <1>2, <3>1
  <2>2. IsFiniteSet({first} \cup {second}) /\ Cardinality({first} \cup {second}) = 2
    BY <2>1, FS_AddElement
  <2>3. {first, second} = {first} \cup {second}
    OBVIOUS
  <2>4. UniqueIn({first, second}, "id") /\ UniqueIn(Live({first, second}), "gid")
    BY <1>2 DEF UniqueIn, Live
  <2>. QED  BY <1>2, <2>2, <2>3, <2>4 DEF AliasTable, Table
<1>5. ASSUME NEW n \in Node PROVE GroupTable({FirstGroup})
  <2>1. Blank \in Columns
    BY MeshAssumption DEF Blank, Columns, Versions
  <2>2. PICK p \in Node : p = CHOOSE q \in Node : TRUE
    OBVIOUS
  <2>3. PICK g \in Name : g = CHOOSE h \in Name : TRUE
    BY MeshAssumption
  <2>4. FirstGroup = [id |-> 1, name |-> g, upd |-> 1, del |-> 0, by |-> p, cfg |-> Blank]
    BY <2>2, <2>3 DEF FirstGroup
  <2>5. FirstGroup \in GroupRow /\ FirstGroup.id = 1
    BY <2>1, <2>4, MeshAssumption DEF GroupRow, Columns, Ids, Times
  <2>6. IsFiniteSet({FirstGroup}) /\ Cardinality({FirstGroup}) = 1
    BY FS_Singleton
  <2>7. \A x, y \in {FirstGroup} : x = y /\ x = FirstGroup
    OBVIOUS
  <2>8. Table({FirstGroup}, GroupRow) /\ UniqueIn(Live({FirstGroup}), "name")
    BY <2>5, <2>6, <2>7 DEF Table, UniqueIn, Live
  <2>. QED  BY <2>8 DEF GroupTable
<1>6. TablesSound
  <2>1. now = 1 /\ groups = [n \in Node |-> {FirstGroup}] /\ keys = [n \in Node |-> {FirstChild}]
        /\ aliases = [n \in Node |-> {first, second}]
    BY DEF Init, first, second
  <2>. QED  BY <1>3, <1>4, <1>5, <2>1 DEF TablesSound
<1>7. EditsSound
  BY DEF Init, EditsSound
<1>. QED  BY <1>1, <1>6, <1>7 DEF MeshInv

\* Time alone makes nothing unsound.
LEMMA TickKeeps ==
  ASSUME MeshInv, Tick
  PROVE  MeshInv'
<1>1. now \in Nat /\ now' \in Times /\ now' \in Nat /\ now <= now'
  BY MeshAssumption DEF MeshInv, Tick, Times
<1>2. /\ \A T : KeyTable(T, now) => KeyTable(T, now')
      /\ \A b : Sent(b, now) => Sent(b, now')
  BY <1>1, LaterKeys
<1>3. UNCHANGED <<data, roles, synced, edit, net, pull, acts>>
  BY DEF Tick
<1>4. TablesSound' /\ EditsSound'
  BY <1>2, <1>3 DEF MeshInv, TablesSound, EditsSound, data, roles
<1>5. NetSound' /\ PullsSound' /\ RolesSound'
  BY <1>2, <1>3 DEF MeshInv, NetSound, PullsSound, RolesSound, roles, Waiting
<1>. QED  BY <1>1, <1>3, <1>4, <1>5 DEF MeshInv

\* An edit stamps a version that is a time.
LEMMA StampKept ==
  ASSUME now \in Times, NEW c \in Columns, NEW f \in Field, NEW v \in Value \cup {Absent}
  PROVE  Stamp(c, f, v, now) \in Columns
  BY MeshAssumption DEF Stamp, Columns, Versions, Times

\* What every edit leaves alone.
LEMMA EditFrame ==
  ASSUME MeshInv, NEW n, Edit(n), UNCHANGED <<roles, synced, net, pull, now>>
  PROVE  /\ RolesSound' /\ NetSound' /\ PullsSound' /\ now' \in Times /\ acts' \in 0 .. MaxActs
         /\ now' = now /\ env' = env
         /\ now \in Times /\ TablesSound /\ EditsSound
<1>1. now' = now /\ net' = net /\ pull' = pull /\ UNCHANGED <<env, slave, parent, synced>>
  BY DEF roles
<1>2. RolesSound' /\ NetSound' /\ PullsSound' /\ now' \in Times
  BY <1>1, OthersKept
<1>. QED  BY <1>1, <1>2, ActsCounted DEF MeshInv, Edit

\* A created group gets the next id and a name that no living group has.
LEMMA CreateGroupKeeps ==
  ASSUME MeshInv, NEW n \in Node, NEW g \in Name, NEW f \in Field, NEW v \in Value,
         CreateGroup(n, g, f, v)
  PROVE  MeshInv'
<1>. DEFINE col == [Blank EXCEPT ![f].val = v]
            row == [id |-> NextId(groups[n]), name |-> g, upd |-> now, del |-> 0, by |-> n, cfg |-> col]
            G == groups[n] \cup {row}
<1>1. Edit(n) /\ UNCHANGED <<roles, synced, net, pull, now>> /\ UNCHANGED <<keys, aliases, edit>>
      /\ \A r \in Live(groups[n]) : r.name # g
  BY DEF CreateGroup, EditsOnly
<1>2. /\ RolesSound' /\ NetSound' /\ PullsSound' /\ now' \in Times /\ acts' \in 0 .. MaxActs
      /\ now' = now /\ env' = env
      /\ now \in Times /\ TablesSound /\ EditsSound
  BY <1>1, EditFrame
<1>3. /\ GroupTable(groups[n]) /\ KeyTable(keys[n], now) /\ AliasTable(aliases[n])
      /\ n \in env => Fresh(keys[n])
      /\ edit[n] # None => edit[n] \in GroupRow /\ edit[n].id \in IdsOf(groups[n])
  BY AtNode
<1>4. groups' = [groups EXCEPT ![n] = G]
  BY DEF CreateGroup
<1>5. col \in Columns
  BY MeshAssumption DEF Blank, Columns, Versions
<1>6. row \in GroupRow /\ row.id = NextId(groups[n]) /\ row.name = g
  <2>1. PICK id \in Ids : id = NextId(groups[n])
    BY <1>3, NextIdIs DEF GroupTable
  <2>. HIDE DEF col
  <2>2. row = [id |-> id, name |-> g, upd |-> now, del |-> 0, by |-> n, cfg |-> col]
    BY <2>1
  <2>. HIDE DEF row
  <2>3. row \in GroupRow
    BY <1>2, <1>5, <2>2, MeshAssumption DEF GroupRow, Columns
  <2>. QED  BY <2>1, <2>2, <2>3
<1>. HIDE DEF row
<1>7. Put(groups[n], row) = G /\ Fits(row, groups[n])
  BY <1>3, <1>6, PutAdds DEF GroupTable
<1>8. GroupTable(G) /\ \A s \in groups[n] : \E q \in G : q.id = s.id
  <2>1. GroupTable(Put(groups[n], row)) /\ \A s \in groups[n] : \E q \in Put(groups[n], row) : q.id = s.id
    BY <1>1, <1>3, <1>6, <1>7, GroupsPut
  <2>. HIDE DEF G
  <2>. QED  BY <1>7, <2>1
<1>9. edit[n] # None => edit[n] \in GroupRow /\ edit[n].id \in IdsOf(G)
  BY <1>3, <1>8 DEF IdsOf
<1>10. /\ keys' = [keys EXCEPT ![n] = keys[n]] /\ aliases' = [aliases EXCEPT ![n] = aliases[n]]
       /\ edit' = [edit EXCEPT ![n] = edit[n]]
  BY <1>1, <1>2, Itself
<1>. HIDE DEF G
<1>11. TablesSound' /\ EditsSound'
  BY <1>2, <1>3, <1>4, <1>8, <1>9, <1>10, OneNode
<1>. QED  BY <1>2, <1>11 DEF MeshInv

\* What UpdateGroup has read is a row that stays, deleted or not, under its id.
LEMMA UpdateGroupKeeps ==
  ASSUME MeshInv, NEW n \in Node, NEW r \in Live(groups[n]), NEW f \in Field,
         NEW v \in Value \cup {Absent}, UpdateGroup(n, r, f, v)
  PROVE  MeshInv'
<1>. DEFINE row == [r EXCEPT !.cfg = Stamp(r.cfg, f, v, now), !.by = n]
<1>1. Edit(n) /\ UNCHANGED <<roles, synced, net, pull, now>> /\ UNCHANGED <<groups, keys, aliases>>
      /\ edit' = [edit EXCEPT ![n] = row]
  BY DEF UpdateGroup, EditsOnly, data
<1>2. /\ RolesSound' /\ NetSound' /\ PullsSound' /\ now' \in Times /\ acts' \in 0 .. MaxActs
      /\ now' = now /\ env' = env
      /\ now \in Times /\ TablesSound /\ EditsSound
  BY <1>1, EditFrame
<1>3. /\ GroupTable(groups[n]) /\ KeyTable(keys[n], now) /\ AliasTable(aliases[n])
      /\ n \in env => Fresh(keys[n])
  BY AtNode
<1>4. row \in GroupRow /\ row.id \in IdsOf(groups[n])
  <2>1. r \in GroupRow /\ r \in groups[n]
    BY <1>3 DEF GroupTable, Table, Live
  <2>2. r.cfg \in Columns
    BY <2>1 DEF GroupRow, Columns
  <2>3. Stamp(r.cfg, f, v, now) \in Columns
    BY <1>2, <2>2, StampKept
  <2>4. PICK c \in Columns : c = Stamp(r.cfg, f, v, now)
    BY <2>3
  <2>5. row = [r EXCEPT !.cfg = c, !.by = n]
    BY <2>4
  <2>. HIDE DEF row
  <2>. QED  BY <2>1, <2>4, <2>5 DEF GroupRow, Columns, IdsOf
<1>. HIDE DEF row
<1>5. /\ groups' = [groups EXCEPT ![n] = groups[n]] /\ keys' = [keys EXCEPT ![n] = keys[n]]
      /\ aliases' = [aliases EXCEPT ![n] = aliases[n]]
  BY <1>1, <1>2, Itself
<1>6. TablesSound' /\ EditsSound'
  BY <1>1, <1>2, <1>3, <1>4, <1>5, OneNode
<1>. QED  BY <1>2, <1>6 DEF MeshInv

\* The save writes over the row with that id, unless a living group has taken the name.
LEMMA SaveGroupKeeps ==
  ASSUME MeshInv, NEW n \in Node, SaveGroup(n)
  PROVE  MeshInv'
<1>. DEFINE row == [edit[n] EXCEPT !.upd = now]
            taken == \E r \in Live(groups[n]) : r.name = edit[n].name /\ r.id # edit[n].id
            G == IF taken THEN groups[n] ELSE Put(groups[n], row)
<1>1. /\ UNCHANGED <<keys, aliases, roles, synced, net, pull, now, acts>>
      /\ edit' = [edit EXCEPT ![n] = None] /\ edit[n] # None
      /\ groups' = [groups EXCEPT ![n] = G]
  BY DEF SaveGroup
<1>2. now' = now /\ net' = net /\ pull' = pull /\ UNCHANGED <<env, slave, parent, synced>> /\ acts' = acts
  BY <1>1 DEF roles
<1>3. RolesSound' /\ NetSound' /\ PullsSound' /\ now' \in Times
  BY <1>2, OthersKept
<1>4. /\ GroupTable(groups[n]) /\ KeyTable(keys[n], now) /\ AliasTable(aliases[n])
      /\ n \in env => Fresh(keys[n])
      /\ edit[n] \in GroupRow /\ edit[n].id \in IdsOf(groups[n])
      /\ now \in Times /\ TablesSound /\ EditsSound
  BY <1>1, AtNode
<1>5. row \in GroupRow /\ row.id = edit[n].id /\ row.name = edit[n].name
  BY <1>4 DEF GroupRow
<1>6. GroupTable(G)
  <2>1. CASE taken
    BY <1>4, <2>1
  <2>2. CASE ~taken
    <3>1. Fits(row, groups[n])
      BY <1>4, <1>5 DEF Fits, IdsOf
    <3>2. \A s \in Live(groups[n]) : s.id # row.id => s.name # row.name
      BY <1>5, <2>2
    <3>. HIDE DEF row
    <3>3. GroupTable(Put(groups[n], row))
      BY <1>4, <1>5, <3>1, <3>2, GroupsPut
    <3>. QED  BY <2>2, <3>3
  <2>. QED  BY <2>1, <2>2
<1>. HIDE DEF G
<1>7. keys' = [keys EXCEPT ![n] = keys[n]] /\ aliases' = [aliases EXCEPT ![n] = aliases[n]]
  BY <1>1, <1>4, Itself
<1>. DEFINE E == None
<1>8. edit' = [edit EXCEPT ![n] = E] /\ (E # None => E \in GroupRow /\ E.id \in IdsOf(G))
  BY <1>1
<1>. HIDE DEF E
<1>9. TablesSound' /\ EditsSound'
  BY <1>1, <1>2, <1>4, <1>6, <1>7, <1>8, OneNode
<1>. QED  BY <1>2, <1>3, <1>9 DEF MeshInv

\* A group is deleted with all its keys.
LEMMA DeleteGroupKeeps ==
  ASSUME MeshInv, NEW n \in Node, NEW r \in Live(groups[n]), DeleteGroup(n, r)
  PROVE  MeshInv'
<1>. DEFINE mine == {k \in Live(keys[n]) : k.gid = r.id}
            G == Kill(groups[n], {r}, now)
            K == Kill(keys[n], mine, now)
<1>1. Edit(n) /\ UNCHANGED <<roles, synced, net, pull, now>> /\ UNCHANGED <<aliases, edit>>
      /\ groups' = [groups EXCEPT ![n] = G] /\ keys' = [keys EXCEPT ![n] = K]
  BY DEF DeleteGroup, EditsOnly
<1>2. /\ RolesSound' /\ NetSound' /\ PullsSound' /\ now' \in Times /\ acts' \in 0 .. MaxActs
      /\ now' = now /\ env' = env
      /\ now \in Times /\ TablesSound /\ EditsSound
  BY <1>1, EditFrame
<1>3. /\ GroupTable(groups[n]) /\ KeyTable(keys[n], now) /\ AliasTable(aliases[n])
      /\ n \in env => Fresh(keys[n])
      /\ edit[n] # None => edit[n] \in GroupRow /\ edit[n].id \in IdsOf(groups[n])
  BY AtNode
<1>4. GroupTable(G) /\ \A s \in groups[n] : \E q \in G : q.id = s.id
  <2>1. PICK S \in SUBSET groups[n] : S = {r}
    BY DEF Live
  <2>2. GroupTable(Kill(groups[n], S, now)) /\ \A s \in groups[n] : \E q \in Kill(groups[n], S, now) : q.id = s.id
    BY <1>2, <1>3, GroupsKill
  <2>. QED  BY <2>1, <2>2
<1>5. KeyTable(K, now) /\ (n \in env => Fresh(K))
  <2>1. mine \in SUBSET keys[n] /\ \A k \in Live(keys[n]) \ mine, s \in mine : k.gid # s.gid
    BY DEF Live
  <2>. HIDE DEF mine
  <2>. QED  BY <1>2, <1>3, <2>1, KeysKill
<1>. HIDE DEF G, K
<1>6. edit[n] # None => edit[n] \in GroupRow /\ edit[n].id \in IdsOf(G)
  BY <1>3, <1>4 DEF IdsOf
<1>7. aliases' = [aliases EXCEPT ![n] = aliases[n]] /\ edit' = [edit EXCEPT ![n] = edit[n]]
  BY <1>1, <1>2, Itself
<1>8. TablesSound' /\ EditsSound'
  BY <1>1, <1>2, <1>3, <1>4, <1>5, <1>6, <1>7, OneNode
<1>. QED  BY <1>2, <1>8 DEF MeshInv

\* A touched row is a write over itself, an added one a write of the next id.
LEMMA TouchIs ==
  ASSUME now \in Times, NEW T, NEW Rows \in {ChildRow, KeyRow(now)}, Table(T, Rows),
         UniqueIn(Live(T), "gid"), NEW r \in Live(T)
  PROVE  \E q \in Rows : /\ Touch(T, r) = Put(T, q) /\ Fits(q, T)
                         /\ q.del = 0 /\ q.gid = r.gid /\ q.upd = now
                         /\ \A s \in Live(T) : s.id # q.id => s.gid # q.gid
<1>. DEFINE q == [r EXCEPT !.upd = now]
<1>1. r \in T /\ r.del = 0 /\ r \in Rows /\ r \in ChildRow
  BY DEF Live, Table, KeyRow
<1>2. q \in ChildRow /\ q.upd = now /\ q.del = 0 /\ q.gid = r.gid /\ q.id = r.id
  BY <1>1 DEF ChildRow
<1>3. Touch(T, r) = Put(T, q)
  BY DEF Touch
<1>. HIDE DEF q
<1>4. q \in Rows
  BY <1>2, MeshAssumption DEF KeyRow, Times
<1>5. \A s \in Live(T) : s.id # q.id => s.gid # q.gid
  BY <1>2 DEF UniqueIn
<1>6. Fits(q, T)
  BY <1>1, <1>2 DEF Fits
<1>. QED  BY <1>2, <1>3, <1>4, <1>5, <1>6

LEMMA AddToIs ==
  ASSUME now \in Times, NEW T, NEW Rows \in {ChildRow, KeyRow(now)}, Table(T, Rows),
         NEW gid \in Ids, \A s \in Live(T) : s.gid # gid
  PROVE  \E q \in Rows : /\ AddTo(T, gid) = Put(T, q) /\ Fits(q, T)
                         /\ q.del = 0 /\ q.gid = gid /\ q.upd = now
<1>1. PICK id \in Ids : id = NextId(T)
  BY NextIdIs
<1>. DEFINE q == [id |-> id, gid |-> gid, upd |-> now, del |-> 0]
<1>2. q \in ChildRow /\ q.upd = now /\ q.del = 0 /\ q.gid = gid /\ q.id = id
  BY MeshAssumption DEF ChildRow
<1>3. q \in Rows
  BY <1>2, MeshAssumption DEF KeyRow, Times
<1>4. AddTo(T, gid) = T \cup {q}
  BY <1>1 DEF AddTo
<1>. HIDE DEF q
<1>5. Put(T, q) = T \cup {q} /\ Fits(q, T)
  BY <1>1, <1>2, <1>3, PutAdds
<1>. QED  BY <1>2, <1>3, <1>4, <1>5

\* An edited key is later than everything the node holds, deletions included.
LEMMA EditKeyKeeps ==
  ASSUME MeshInv, NEW n \in Node, EditKey(n)
  PROVE  MeshInv'
<1>1. Edit(n) /\ UNCHANGED <<roles, synced, net, pull, now>> /\ UNCHANGED <<groups, aliases, edit>>
      /\ \A r \in keys[n] : Eff(r) < now
  BY DEF EditKey, EditsOnly, Edit
<1>2. /\ RolesSound' /\ NetSound' /\ PullsSound' /\ now' \in Times /\ acts' \in 0 .. MaxActs
      /\ now' = now /\ env' = env
      /\ now \in Times /\ TablesSound /\ EditsSound
  BY <1>1, EditFrame
<1>3. /\ GroupTable(groups[n]) /\ KeyTable(keys[n], now) /\ AliasTable(aliases[n])
      /\ n \in env => Fresh(keys[n])
      /\ edit[n] # None => edit[n] \in GroupRow /\ edit[n].id \in IdsOf(groups[n])
  BY AtNode
<1>4. Table(keys[n], KeyRow(now)) /\ UniqueIn(Live(keys[n]), "gid")
  BY <1>3 DEF KeyTable
<1>5. ASSUME NEW q \in KeyRow(now), Fits(q, keys[n]), q.del = 0, q.upd = now,
             \A s \in Live(keys[n]) : s.id # q.id => s.gid # q.gid
      PROVE  KeyTable(Put(keys[n], q), now) /\ (n \in env => Fresh(Put(keys[n], q)))
  <2>1. Eff(q) = now
    BY <1>2, <1>5, MeshAssumption DEF Eff, Times
  <2>2. \A d \in Dead(keys[n]) : Eff(d) <= Eff(q)
    <3>1. \A d \in keys[n] : Eff(d) \in Nat
      BY <1>4, MeshAssumption DEF Table, KeyRow, ChildRow, Eff, Times
    <3>. QED  BY <1>1, <1>2, <2>1, <3>1, MeshAssumption DEF Dead, Times
  <2>. QED  BY <1>3, <1>5, <2>2, KeysPut
<1>6. \E K : /\ keys' = [keys EXCEPT ![n] = K]
             /\ KeyTable(K, now) /\ (n \in env => Fresh(K))
  <2>1. CASE \E g \in Live(groups[n]) : /\ \A k \in Live(keys[n]) : k.gid # g.id
                                        /\ keys' = [keys EXCEPT ![n] = AddTo(@, g.id)]
    <3>1. PICK g \in Live(groups[n]) : /\ \A k \in Live(keys[n]) : k.gid # g.id
                                       /\ keys' = [keys EXCEPT ![n] = AddTo(@, g.id)]
      BY <2>1
    <3>2. g.id \in Ids
      BY <1>3 DEF GroupTable, Table, GroupRow, Live
    <3>3. PICK q \in KeyRow(now) : /\ AddTo(keys[n], g.id) = Put(keys[n], q) /\ Fits(q, keys[n])
                                   /\ q.del = 0 /\ q.gid = g.id /\ q.upd = now
      BY <1>2, <1>4, <3>1, <3>2, AddToIs
    <3>4. keys' = [keys EXCEPT ![n] = Put(keys[n], q)]
      BY <3>1, <3>3
    <3>. QED  BY <1>5, <3>1, <3>3, <3>4
  <2>2. CASE \E k \in Live(keys[n]) : keys' = [keys EXCEPT ![n] = Touch(@, k)]
    <3>1. PICK k \in Live(keys[n]) : keys' = [keys EXCEPT ![n] = Touch(@, k)]
      BY <2>2
    <3>2. PICK q \in KeyRow(now) : /\ Touch(keys[n], k) = Put(keys[n], q) /\ Fits(q, keys[n])
                                   /\ q.del = 0 /\ q.upd = now
                                   /\ \A s \in Live(keys[n]) : s.id # q.id => s.gid # q.gid
      BY <1>2, <1>4, TouchIs
    <3>3. keys' = [keys EXCEPT ![n] = Put(keys[n], q)]
      BY <3>1, <3>2
    <3>. QED  BY <1>5, <3>2, <3>3
  <2>3. CASE \E k \in Live(keys[n]) : keys' = [keys EXCEPT ![n] = Kill(@, {k}, now)]
    <3>1. PICK k \in Live(keys[n]) : keys' = [keys EXCEPT ![n] = Kill(@, {k}, now)]
      BY <2>3
    <3>2. PICK S \in SUBSET keys[n] : S = {k}
      BY <3>1 DEF Live
    <3>3. \A j \in Live(keys[n]) \ S, s \in S : j.gid # s.gid
      BY <1>4, <3>2 DEF UniqueIn
    <3>4. KeyTable(Kill(keys[n], S, now), now) /\ (n \in env => Fresh(Kill(keys[n], S, now)))
      BY <1>2, <1>3, <3>3, KeysKill
    <3>5. keys' = [keys EXCEPT ![n] = Kill(keys[n], S, now)]
      BY <3>1, <3>2
    <3>. QED  BY <3>4, <3>5
  <2>. QED  BY <2>1, <2>2, <2>3 DEF EditKey
<1>7. /\ groups' = [groups EXCEPT ![n] = groups[n]] /\ aliases' = [aliases EXCEPT ![n] = aliases[n]]
      /\ edit' = [edit EXCEPT ![n] = edit[n]]
  BY <1>1, <1>2, Itself
<1>8. TablesSound' /\ EditsSound'
  BY <1>2, <1>3, <1>6, <1>7, OneNode
<1>. QED  BY <1>2, <1>8 DEF MeshInv

\* The same for an alias, whose rows have no order to keep.
LEMMA EditAliasKeeps ==
  ASSUME MeshInv, NEW n \in Node, EditAlias(n)
  PROVE  MeshInv'
<1>1. Edit(n) /\ UNCHANGED <<roles, synced, net, pull, now>> /\ UNCHANGED <<groups, keys, edit>>
  BY DEF EditAlias, EditsOnly
<1>2. /\ RolesSound' /\ NetSound' /\ PullsSound' /\ now' \in Times /\ acts' \in 0 .. MaxActs
      /\ now' = now /\ env' = env
      /\ now \in Times /\ TablesSound /\ EditsSound
  BY <1>1, EditFrame
<1>3. /\ GroupTable(groups[n]) /\ KeyTable(keys[n], now) /\ AliasTable(aliases[n])
      /\ n \in env => Fresh(keys[n])
      /\ edit[n] # None => edit[n] \in GroupRow /\ edit[n].id \in IdsOf(groups[n])
  BY AtNode
<1>4. Table(aliases[n], ChildRow) /\ UniqueIn(Live(aliases[n]), "gid")
  BY <1>3 DEF AliasTable
<1>5. \E L : aliases' = [aliases EXCEPT ![n] = L] /\ AliasTable(L)
  <2>1. CASE \E g \in Live(groups[n]) : /\ \A a \in Live(aliases[n]) : a.gid # g.id
                                        /\ aliases' = [aliases EXCEPT ![n] = AddTo(@, g.id)]
    <3>1. PICK g \in Live(groups[n]) : /\ \A a \in Live(aliases[n]) : a.gid # g.id
                                       /\ aliases' = [aliases EXCEPT ![n] = AddTo(@, g.id)]
      BY <2>1
    <3>2. g.id \in Ids
      BY <1>3 DEF GroupTable, Table, GroupRow, Live
    <3>3. PICK q \in ChildRow : /\ AddTo(aliases[n], g.id) = Put(aliases[n], q) /\ Fits(q, aliases[n])
                                /\ q.del = 0 /\ q.gid = g.id
      BY <1>2, <1>4, <3>1, <3>2, AddToIs
    <3>4. aliases' = [aliases EXCEPT ![n] = Put(aliases[n], q)]
      BY <3>1, <3>3
    <3>5. AliasTable(Put(aliases[n], q))
      BY <1>3, <3>1, <3>3, AliasesPut
    <3>. QED  BY <3>4, <3>5
  <2>2. CASE \E a \in Live(aliases[n]) : aliases' = [aliases EXCEPT ![n] = Touch(@, a)]
    <3>1. PICK a \in Live(aliases[n]) : aliases' = [aliases EXCEPT ![n] = Touch(@, a)]
      BY <2>2
    <3>2. PICK q \in ChildRow : /\ Touch(aliases[n], a) = Put(aliases[n], q) /\ Fits(q, aliases[n])
                                /\ \A s \in Live(aliases[n]) : s.id # q.id => s.gid # q.gid
      BY <1>2, <1>4, TouchIs
    <3>3. aliases' = [aliases EXCEPT ![n] = Put(aliases[n], q)]
      BY <3>1, <3>2
    <3>4. AliasTable(Put(aliases[n], q))
      BY <1>3, <3>2, AliasesPut
    <3>. QED  BY <3>3, <3>4
  <2>3. CASE \E a \in Live(aliases[n]) : aliases' = [aliases EXCEPT ![n] = Kill(@, {a}, now)]
    <3>1. PICK a \in Live(aliases[n]) : aliases' = [aliases EXCEPT ![n] = Kill(@, {a}, now)]
      BY <2>3
    <3>2. PICK S \in SUBSET aliases[n] : S = {a}
      BY <3>1 DEF Live
    <3>3. AliasTable(Kill(aliases[n], S, now))
      BY <1>2, <1>3, AliasesKill
    <3>4. aliases' = [aliases EXCEPT ![n] = Kill(aliases[n], S, now)]
      BY <3>1, <3>2
    <3>. QED  BY <3>3, <3>4
  <2>. QED  BY <2>1, <2>2, <2>3 DEF EditAlias
<1>6. /\ groups' = [groups EXCEPT ![n] = groups[n]] /\ keys' = [keys EXCEPT ![n] = keys[n]]
      /\ edit' = [edit EXCEPT ![n] = edit[n]]
  BY <1>1, <1>2, Itself
<1>7. TablesSound' /\ EditsSound'
  BY <1>2, <1>3, <1>5, <1>6, OneNode
<1>. QED  BY <1>2, <1>7 DEF MeshInv

\* Roles change nothing in the tables.
LEMMA SetRoleKeeps ==
  ASSUME MeshInv, NEW n \in Node, NEW v \in {"true", "false"}, SetRole(n, v)
  PROVE  MeshInv'
<1>1. /\ UNCHANGED <<env, data, synced, edit, net, pull, now>>
      /\ slave' = [slave EXCEPT ![n] = v]
      /\ parent' = IF v = "false" THEN [parent EXCEPT ![n] = {}] ELSE parent
  BY DEF SetRole
<1>2. RolesSound'
  <2>1. slave' \in [Node -> {"unset", "true", "false"}]
    BY <1>1 DEF MeshInv, RolesSound
  <2>2. parent' \in [Node -> SUBSET Node]
    BY <1>1 DEF MeshInv, RolesSound
  <2>. QED  BY <1>1, <2>1, <2>2 DEF MeshInv, RolesSound
<1>3. NetSound' /\ PullsSound' /\ now' \in Times
  BY <1>1 DEF MeshInv, NetSound, PullsSound, Waiting
<1>4. TablesSound' /\ EditsSound'
  BY <1>1, TablesKept
<1>5. acts' \in 0 .. MaxActs
  BY ActsCounted DEF SetRole
<1>. QED  BY <1>2, <1>3, <1>4, <1>5 DEF MeshInv

LEMMA SetPeerMasterKeeps ==
  ASSUME MeshInv, NEW n \in Node, NEW p \in Peers(n), SetPeerMaster(n, p)
  PROVE  MeshInv'
<1>1. /\ UNCHANGED <<env, data, synced, edit, net, pull, now>>
      /\ \/ parent' = [parent EXCEPT ![n] = @ \ {p}] /\ UNCHANGED slave
         \/ parent' = [parent EXCEPT ![n] = {p}] /\ slave' = [slave EXCEPT ![n] = "true"]
  BY DEF SetPeerMaster
<1>2. RolesSound'
  <2>1. slave' \in [Node -> {"unset", "true", "false"}]
    BY <1>1 DEF MeshInv, RolesSound
  <2>2. parent' \in [Node -> SUBSET Node]
    BY <1>1 DEF MeshInv, RolesSound, Peers
  <2>. QED  BY <1>1, <2>1, <2>2 DEF MeshInv, RolesSound
<1>3. NetSound' /\ PullsSound' /\ now' \in Times
  BY <1>1 DEF MeshInv, NetSound, PullsSound, Waiting
<1>4. TablesSound' /\ EditsSound'
  BY <1>1, TablesKept
<1>5. acts' \in 0 .. MaxActs
  BY ActsCounted DEF SetPeerMaster
<1>. QED  BY <1>2, <1>3, <1>4, <1>5 DEF MeshInv

\* Whether a node merges, as a value.
LEMMA Whether ==
  ASSUME NEW n
  PROVE  \E w \in BOOLEAN : w = (n \in env)
<1>. WITNESS (n \in env) \in BOOLEAN
<1>. QED  OBVIOUS

\* A part of the tables may travel.
LEMMA PartSent ==
  ASSUME MeshInv, NEW n \in Node, NEW G \in SUBSET groups[n], NEW K \in SUBSET keys[n],
         NEW L \in SUBSET aliases[n]
  PROVE  Sent([groups |-> G, keys |-> K, aliases |-> L], now)
<1>1. /\ IsFiniteSet(groups[n]) /\ groups[n] \subseteq GroupRow
      /\ IsFiniteSet(keys[n]) /\ keys[n] \subseteq KeyRow(now)
      /\ IsFiniteSet(aliases[n]) /\ aliases[n] \subseteq ChildRow
  BY AtNode DEF GroupTable, KeyTable, AliasTable, Table
<1>2. IsFiniteSet(G) /\ IsFiniteSet(K) /\ IsFiniteSet(L)
  BY <1>1, FS_Subset
<1>. QED  BY <1>1, <1>2 DEF Sent

\* A frame holds a part of the tables.
LEMMA PushKeeps ==
  ASSUME MeshInv, NEW n \in Node, NEW forced \in BOOLEAN,
         NEW D \in SUBSET Peers(n), NEW H \in SUBSET Peers(n), Push(n, D, H, forced)
  PROVE  MeshInv'
<1>. DEFINE body == Payload(n)
            more == {[to |-> p, via |-> "dialled", body |-> body] : p \in D}
                      \cup {[to |-> p, via |-> "held", body |-> body] : p \in H}
<1>1. UNCHANGED <<data, roles, edit, pull, now>>
  BY DEF Push
<1>2. env' = env /\ slave' = slave /\ parent' = parent /\ now' = now /\ pull' = pull /\ edit' = edit
  BY <1>1 DEF roles
<1>3. Sent(body, now)
  <2>1. /\ Changed(groups[n], Since(n)) \in SUBSET groups[n]
        /\ Changed(keys[n], Since(n)) \in SUBSET keys[n]
        /\ Changed(aliases[n], Since(n)) \in SUBSET aliases[n]
    BY DEF Changed
  <2>2. PICK G \in SUBSET groups[n], K \in SUBSET keys[n], L \in SUBSET aliases[n] :
          G = Changed(groups[n], Since(n)) /\ K = Changed(keys[n], Since(n))
          /\ L = Changed(aliases[n], Since(n))
    BY <2>1
  <2>3. body = [groups |-> G, keys |-> K, aliases |-> L]
    BY <2>2 DEF Payload
  <2>. HIDE DEF body
  <2>. QED  BY <2>3, PartSent
<1>. HIDE DEF body
<1>4. NetSound'
  <2>1. net' = net \cup more
    BY DEF Push, body
  <2>2. \A m \in more : m.to \in Node /\ m.via \in {"dialled", "held"} /\ Sent(m.body, now)
    BY <1>3 DEF Peers
  <2>. HIDE DEF more
  <2>. QED  BY <1>2, <2>1, <2>2 DEF MeshInv, NetSound
<1>5. RolesSound'
  <2>1. synced' = [synced EXCEPT ![n] = [p \in Node |-> IF p \in D THEN now ELSE synced[n][p]]]
    BY DEF Push
  <2>2. now \in 0 .. MaxTime
    BY MeshAssumption DEF MeshInv, Times
  <2>3. synced' \in [Node -> [Node -> 0 .. MaxTime]]
    BY <2>1, <2>2 DEF MeshInv, RolesSound
  <2>. QED  BY <1>2, <2>3 DEF MeshInv, RolesSound
<1>6. PullsSound' /\ now' \in Times
  BY <1>2 DEF MeshInv, PullsSound, Waiting
<1>7. TablesSound' /\ EditsSound'
  BY <1>1, <1>2, TablesKept
<1>8. acts' \in 0 .. MaxActs
  <2>1. Act \/ acts' = acts
    BY DEF Push
  <2>. QED  BY <2>1, ActsCounted DEF MeshInv
<1>. QED  BY <1>4, <1>5, <1>6, <1>7, <1>8 DEF MeshInv

\* A frame is merged or dropped.
LEMMA ReceiveKeeps ==
  ASSUME MeshInv, NEW m \in net, Receive(m)
  PROVE  MeshInv'
<1>1. /\ UNCHANGED <<roles, synced, edit, pull, now, acts>> /\ net' = net \ {m}
      /\ Install(m.to, Merge(m.to, m.body)) \/ UNCHANGED data
  BY DEF Receive
<1>2. env' = env /\ slave' = slave /\ parent' = parent /\ synced' = synced
      /\ now' = now /\ pull' = pull /\ edit' = edit
  BY <1>1 DEF roles
<1>3. NetSound' /\ RolesSound' /\ PullsSound' /\ now' \in Times /\ acts' \in 0 .. MaxActs
  BY <1>1, <1>2 DEF MeshInv, NetSound, RolesSound, PullsSound, Waiting
<1>4. TablesSound' /\ EditsSound'
  <2>1. CASE UNCHANGED data
    BY <1>2, <2>1, TablesKept
  <2>2. CASE Install(m.to, Merge(m.to, m.body))
    <3>1. m.to \in Node /\ Sent(m.body, now) /\ now \in Times
      BY DEF MeshInv, NetSound
    <3>2. PICK n, b : n = m.to /\ b = m.body
      OBVIOUS
    <3>3. n \in Node /\ Sent(b, now)
      BY <3>1, <3>2
    <3>4. PICK w \in BOOLEAN : w = (n \in env)
      BY Whether
    <3>5. Start(n) \in Accumulator(IdsOf(groups[n]), w, now)
      BY <3>4, <3>3, StartSound
    <3>6. Merge(n, b) \in Accumulator(IdsOf(groups[n]), w, now)
      BY <3>1, <3>5, <3>3, MergeKeeps
    <3>7. Install(n, Merge(n, b))
      BY <2>2, <3>2
    <3>. QED  BY <1>2, <3>4, <3>3, <3>6, <3>7, Installs
  <2>. QED  BY <1>1, <2>1, <2>2
<1>. QED  BY <1>3, <1>4 DEF MeshInv

LEMMA FrameLostKeeps ==
  ASSUME MeshInv, NEW m \in net, FrameLost(m)
  PROVE  MeshInv'
<1>1. /\ UNCHANGED <<data, roles, synced, edit, pull, now, acts>> /\ net' = net \ {m}
  BY DEF FrameLost
<1>2. env' = env /\ slave' = slave /\ parent' = parent /\ synced' = synced
      /\ now' = now /\ pull' = pull /\ edit' = edit
  BY <1>1 DEF roles
<1>3. NetSound' /\ RolesSound' /\ PullsSound' /\ now' \in Times /\ acts' \in 0 .. MaxActs
  BY <1>1, <1>2 DEF MeshInv, NetSound, RolesSound, PullsSound, Waiting
<1>4. TablesSound' /\ EditsSound'
  BY <1>1, <1>2, TablesKept
<1>. QED  BY <1>3, <1>4 DEF MeshInv

\* A watermark is a time of this run.
LEMMA WatermarkKept ==
  ASSUME MeshInv, NEW n \in Node, NEW p \in Node, synced' = [synced EXCEPT ![n][p] = now],
         UNCHANGED <<env, slave, parent>>
  PROVE  RolesSound'
<1>1. now \in 0 .. MaxTime
  BY MeshAssumption DEF MeshInv, Times
<1>2. synced' \in [Node -> [Node -> 0 .. MaxTime]]
  BY <1>1 DEF MeshInv, RolesSound
<1>. QED  BY <1>2 DEF MeshInv, RolesSound

LEMMA HandshakeKeeps ==
  ASSUME MeshInv, NEW n \in Node, NEW p \in Node, Handshake(n, p)
  PROVE  MeshInv'
<1>1. /\ UNCHANGED <<data, roles, edit, net, pull, now>>
      /\ synced' = [synced EXCEPT ![p][n] = now]
  BY DEF Handshake
<1>2. UNCHANGED <<env, slave, parent>> /\ now' = now /\ pull' = pull /\ edit' = edit /\ net' = net
  BY <1>1 DEF roles
<1>3. RolesSound'
  BY <1>1, <1>2, WatermarkKept
<1>4. NetSound' /\ PullsSound' /\ now' \in Times
  BY <1>2 DEF MeshInv, NetSound, PullsSound, Waiting
<1>5. TablesSound' /\ EditsSound'
  BY <1>1, <1>2, TablesKept
<1>6. acts' \in 0 .. MaxActs
  BY ActsCounted DEF Handshake
<1>. QED  BY <1>3, <1>4, <1>5, <1>6 DEF MeshInv

\* An answer is put down for a node, or taken away.
LEMMA AnswerPut ==
  ASSUME MeshInv, NEW n \in Node, NEW s \in Slots, NEW a, pull' = [pull EXCEPT ![n][s] = a],
         now' = now,
         a \in {None, Applied} \/ (a.from \in Peers(n) /\ Sent(a.body, now))
  PROVE  PullsSound'
<1>1. \A p \in Node, t \in Slots : pull'[p][t] = IF p = n /\ t = s THEN a ELSE pull[p][t]
  BY DEF MeshInv, PullsSound
<1>2. pull' = [p \in Node |-> [t \in Slots |-> pull'[p][t]]]
  BY DEF MeshInv, PullsSound
<1>. QED  BY <1>1, <1>2 DEF MeshInv, PullsSound, Waiting

\* A snapshot is a part of the tables of its master.
LEMMA PullServedKeeps ==
  ASSUME MeshInv, NEW n \in Node, NEW m \in Node, NEW s \in Slots, n # m, PullServed(n, m, s)
  PROVE  MeshInv'
<1>1. /\ UNCHANGED <<data, roles, edit, net, now>>
      /\ synced' = [synced EXCEPT ![m][n] = now]
      /\ pull' = [pull EXCEPT ![n][s] = [from |-> m, body |-> Snapshot(m)]]
  BY DEF PullServed
<1>2. UNCHANGED <<env, slave, parent>> /\ now' = now /\ edit' = edit /\ net' = net
  BY <1>1 DEF roles
<1>3. RolesSound'
  BY <1>1, <1>2, WatermarkKept
<1>4. NetSound' /\ now' \in Times
  BY <1>2 DEF MeshInv, NetSound
<1>5. TablesSound' /\ EditsSound'
  BY <1>1, <1>2, TablesKept
<1>6. acts' \in 0 .. MaxActs
  <2>1. Act \/ acts' = acts
    BY DEF PullServed
  <2>. QED  BY <2>1, ActsCounted DEF MeshInv
<1>7. PullsSound'
  <2>1. PICK G \in SUBSET groups[m], K \in SUBSET keys[m], L \in SUBSET aliases[m] :
          G = Live(groups[m]) /\ K = Live(keys[m]) /\ L = Live(aliases[m])
    BY DEF Live
  <2>2. Snapshot(m) = [groups |-> G, keys |-> K, aliases |-> L]
    BY <2>1 DEF Snapshot
  <2>3. PICK b : b = Snapshot(m) /\ Sent(b, now)
    BY <2>2, PartSent
  <2>. DEFINE a == [from |-> m, body |-> b]
  <2>4. a.from \in Peers(n) /\ Sent(a.body, now) /\ pull' = [pull EXCEPT ![n][s] = a]
    BY <1>1, <2>3 DEF Peers
  <2>. HIDE DEF a
  <2>. QED  BY <1>2, <2>4, AnswerPut
<1>. QED  BY <1>3, <1>4, <1>5, <1>6, <1>7 DEF MeshInv

\* An answer is merged on a node that merges and replaces the tables of another.
LEMMA PullAppliedKeeps ==
  ASSUME MeshInv, NEW n \in Node, NEW s \in Slots, PullApplied(n, s)
  PROVE  MeshInv'
<1>1. /\ UNCHANGED <<roles, edit, net, now, acts>> /\ Waiting(n, s)
      /\ synced' = [synced EXCEPT ![n][pull[n][s].from] = now]
      /\ pull' = [pull EXCEPT ![n][s] = IF s = "loop" THEN Applied ELSE None]
      /\ Install(n, IF n \in env THEN Merge(n, pull[n][s].body) ELSE Replace(n, pull[n][s].body))
  BY DEF PullApplied
<1>2. UNCHANGED <<env, slave, parent>> /\ now' = now /\ edit' = edit /\ net' = net /\ acts' = acts
  BY <1>1 DEF roles
<1>3. PICK p, b : /\ p \in Node /\ p = pull[n][s].from
                  /\ b = pull[n][s].body /\ Sent(b, now)
  BY <1>1 DEF MeshInv, PullsSound, Peers
<1>4. RolesSound'
  <2>1. p \in Node /\ synced' = [synced EXCEPT ![n][p] = now]
    BY <1>1, <1>3
  <2>. QED  BY <1>2, <2>1, WatermarkKept
<1>5. NetSound' /\ now' \in Times /\ acts' \in 0 .. MaxActs
  BY <1>2 DEF MeshInv, NetSound
<1>6. PullsSound'
  <2>1. PICK a \in {None, Applied} : a = IF s = "loop" THEN Applied ELSE None
    OBVIOUS
  <2>2. pull' = [pull EXCEPT ![n][s] = a]
    BY <1>1, <2>1
  <2>. QED  BY <1>2, <2>1, <2>2, AnswerPut
<1>7. TablesSound' /\ EditsSound'
  <2>1. PICK w \in BOOLEAN : w = (n \in env)
    BY Whether
  <2>2. Start(n) \in Accumulator(IdsOf(groups[n]), w, now) /\ now \in Times
    BY <2>1, StartSound DEF MeshInv
  <2>3. PICK st \in Accumulator(IdsOf(groups[n]), w, now) : Install(n, st)
    <3>1. CASE w
      <4>1. Merge(n, b) \in Accumulator(IdsOf(groups[n]), w, now)
        BY <1>3, <2>2, MergeKeeps
      <4>. QED  BY <1>1, <1>3, <2>1, <3>1, <4>1
    <3>2. CASE ~w
      <4>1. Replace(n, b) \in Accumulator(IdsOf(groups[n]), w, now)
        BY <1>3, <2>2, <3>2, ReplaceKeeps
      <4>. QED  BY <1>1, <1>3, <2>1, <3>2, <4>1
    <3>. QED  BY <3>1, <3>2
  <2>. QED  BY <1>2, <2>1, <2>3, Installs
<1>. QED  BY <1>2, <1>4, <1>5, <1>6, <1>7 DEF MeshInv

LEMMA PullLostKeeps ==
  ASSUME MeshInv, NEW n \in Node, NEW s \in Slots, PullLost(n, s)
  PROVE  MeshInv'
<1>1. /\ UNCHANGED <<data, roles, synced, edit, net, now, acts>>
      /\ pull' = [pull EXCEPT ![n][s] = None]
  BY DEF PullLost
<1>2. UNCHANGED <<env, slave, parent, synced>> /\ now' = now /\ edit' = edit /\ net' = net /\ acts' = acts
  BY <1>1 DEF roles
<1>3. RolesSound' /\ NetSound' /\ now' \in Times /\ acts' \in 0 .. MaxActs
  BY <1>2 DEF MeshInv, RolesSound, NetSound
<1>4. PullsSound'
  <2>1. PICK a \in {None, Applied} : a = None
    OBVIOUS
  <2>. QED  BY <1>1, <1>2, <2>1, AnswerPut
<1>5. TablesSound' /\ EditsSound'
  BY <1>1, <1>2, TablesKept
<1>. QED  BY <1>3, <1>4, <1>5 DEF MeshInv

\* All edits.
LEMMA UserEditsKeep ==
  ASSUME MeshInv, NEW n \in Node, UserEdits(n)
  PROVE  MeshInv'
<1>1. ASSUME NEW g \in Name, NEW f \in Field, NEW v \in Value, CreateGroup(n, g, f, v)
      PROVE  MeshInv'
  BY <1>1, CreateGroupKeeps
<1>2. ASSUME NEW r \in Live(groups[n]), NEW f \in Field, NEW v \in Value \cup {Absent},
             UpdateGroup(n, r, f, v)
      PROVE  MeshInv'
  BY <1>2, UpdateGroupKeeps
<1>3. ASSUME NEW r \in Live(groups[n]), DeleteGroup(n, r) PROVE MeshInv'
  BY <1>3, DeleteGroupKeeps
<1>4. ASSUME EditKey(n) \/ EditAlias(n) PROVE MeshInv'
  BY <1>4, EditKeyKeeps, EditAliasKeeps
<1>5. ASSUME NEW v \in {"true", "false"}, SetRole(n, v) PROVE MeshInv'
  BY <1>5, SetRoleKeeps
<1>6. ASSUME NEW p \in Peers(n), SetPeerMaster(n, p) PROVE MeshInv'
  BY <1>6, SetPeerMasterKeeps
<1>. QED  BY <1>1, <1>2, <1>3, <1>4, <1>5, <1>6 DEF UserEdits

\* MeshInv is inductive.
LEMMA MeshStep ==
  ASSUME MeshInv, [Next]_vars
  PROVE  MeshInv'
<1>1. ASSUME UNCHANGED vars PROVE MeshInv'
  <2>1. /\ UNCHANGED data /\ edit' = edit /\ UNCHANGED <<env, slave, parent, synced>>
        /\ net' = net /\ pull' = pull /\ now' = now /\ acts' = acts
    BY <1>1 DEF vars, data
  <2>2. RolesSound' /\ NetSound' /\ PullsSound' /\ now' \in Times
    BY <2>1, OthersKept
  <2>3. TablesSound' /\ EditsSound'
    BY <2>1, TablesKept
  <2>. QED  BY <2>1, <2>2, <2>3 DEF MeshInv
<1>2. ASSUME Tick PROVE MeshInv'
  BY <1>2, TickKeeps
<1>3. ASSUME NEW n \in Node, UserEdits(n) \/ SaveGroup(n) PROVE MeshInv'
  BY <1>3, UserEditsKeep, SaveGroupKeeps
<1>4. ASSUME NEW n \in Node, NEW forced \in BOOLEAN, NEW D \in SUBSET Peers(n),
             NEW H \in SUBSET Peers(n), Push(n, D, H, forced)
      PROVE  MeshInv'
  BY <1>4, PushKeeps
<1>5. ASSUME NEW m \in net, Receive(m) \/ FrameLost(m) PROVE MeshInv'
  BY <1>5, ReceiveKeeps, FrameLostKeeps
<1>6. ASSUME NEW n \in Node, NEW p \in Node, Handshake(n, p) PROVE MeshInv'
  BY <1>6, HandshakeKeeps
<1>7. ASSUME NEW n \in Node, NEW s \in Slots, PullApplied(n, s) \/ PullLost(n, s) PROVE MeshInv'
  BY <1>7, PullAppliedKeeps, PullLostKeeps
<1>8. ASSUME NEW n \in Node, NEW m \in Node, NEW s \in Slots, n # m, PullServed(n, m, s)
      PROVE  MeshInv'
  BY <1>8, PullServedKeeps
<1>. QED  BY <1>1, <1>2, <1>3, <1>4, <1>5, <1>6, <1>7, <1>8 DEF Next

--------------------------------------------------------------------------
(* What an applied answer shows *)

\* An answer is what lived at the master, where unique indexes hold.
AnswersWhole == \A n \in Node, s \in Slots : Waiting(n, s) => Whole(pull[n][s].body)

LEMMA SnapshotWhole ==
  ASSUME MeshInv, NEW m \in Node
  PROVE  Whole(Snapshot(m))
<1>1. GroupTable(groups[m]) /\ KeyTable(keys[m], now) /\ AliasTable(aliases[m])
  BY AtNode
<1>2. UniqueIn(Live(groups[m]), "id")
  BY <1>1 DEF GroupTable, Table, UniqueIn, Live
<1>3. /\ UniqueIn(Live(groups[m]), "name") /\ UniqueIn(Live(keys[m]), "gid")
      /\ UniqueIn(Live(aliases[m]), "gid")
      /\ \A r \in Live(groups[m]) \cup Live(keys[m]) \cup Live(aliases[m]) : r.del = 0
  BY <1>1 DEF GroupTable, KeyTable, AliasTable, Live
<1>. QED  BY <1>2, <1>3 DEF Whole, Snapshot

\* What is put in a slot leaves the other answers as they are.
LEMMA WholePut ==
  ASSUME MeshInv, AnswersWhole, NEW n \in Node, NEW s \in Slots, NEW a, pull' = [pull EXCEPT ![n][s] = a],
         a \in {None, Applied} \/ Whole(a.body)
  PROVE  AnswersWhole'
<1>1. \A p \in Node, t \in Slots : pull'[p][t] = IF p = n /\ t = s THEN a ELSE pull[p][t]
  BY DEF MeshInv, PullsSound
<1>. QED  BY <1>1 DEF AnswersWhole, Waiting

LEMMA AnswersWholeStep ==
  ASSUME MeshInv, AnswersWhole, [Next]_vars
  PROVE  AnswersWhole'
<1>1. ASSUME pull' = pull PROVE AnswersWhole'
  BY <1>1 DEF AnswersWhole, Waiting
<1>2. CASE UNCHANGED vars
  BY <1>1, <1>2 DEF vars
<1>3. CASE Tick
  BY <1>1, <1>3 DEF Tick
<1>4. ASSUME NEW n \in Node, UserEdits(n) \/ SaveGroup(n) PROVE pull' = pull
  BY <1>4 DEF UserEdits, SaveGroup, CreateGroup, UpdateGroup, DeleteGroup, EditKey, EditAlias,
              SetRole, SetPeerMaster, EditsOnly
<1>5. ASSUME NEW n \in Node, NEW forced \in BOOLEAN, NEW D \in SUBSET Peers(n),
             NEW H \in SUBSET Peers(n), Push(n, D, H, forced)
      PROVE  pull' = pull
  BY <1>5 DEF Push
<1>6. ASSUME NEW m \in net, Receive(m) \/ FrameLost(m) PROVE pull' = pull
  BY <1>6 DEF Receive, FrameLost
<1>7. ASSUME NEW n \in Node, NEW p \in Node, Handshake(n, p) PROVE pull' = pull
  BY <1>7 DEF Handshake
<1>8. ASSUME NEW n \in Node, NEW s \in Slots, PullApplied(n, s) \/ PullLost(n, s)
      PROVE  AnswersWhole'
  <2>1. PICK a \in {None, Applied} : pull' = [pull EXCEPT ![n][s] = a]
    BY <1>8 DEF PullApplied, PullLost
  <2>. QED  BY <2>1, WholePut
<1>9. ASSUME NEW n \in Node, NEW m \in Node, NEW s \in Slots, PullServed(n, m, s)
      PROVE  AnswersWhole'
  <2>. DEFINE a == [from |-> m, body |-> Snapshot(m)]
  <2>1. pull' = [pull EXCEPT ![n][s] = a] /\ Whole(a.body)
    BY <1>9, SnapshotWhole DEF PullServed
  <2>. HIDE DEF a
  <2>. QED  BY <2>1, WholePut
<1>. QED  BY <1>1, <1>2, <1>3, <1>4, <1>5, <1>6, <1>7, <1>8, <1>9 DEF Next

\* What is installed from a whole answer shows it.
LEMMA AppliedShows ==
  ASSUME MeshInv, AnswersWhole, NEW n \in Node, n \notin env, NEW s \in Slots, PullApplied(n, s)
  PROVE  View(Snapshot(n))' = View(pull[n][s].body)
<1>. DEFINE p == pull[n][s].body
            R == Replace(n, p)
<1>1. Sent(p, now) /\ Whole(p) /\ Install(n, R)
  BY DEF MeshInv, PullsSound, AnswersWhole, PullApplied
<1>2. PICK w \in BOOLEAN : w = (n \in env)
  BY Whether
<1>3. Start(n) \in Accumulator(IdsOf(groups[n]), w, now) /\ now \in Times
  BY <1>2, StartSound DEF MeshInv
<1>4. ~w
  BY <1>2
<1>5. View([groups |-> Live(R.groups), keys |-> Live(R.keys), aliases |-> Live(R.aliases)]) = View(p)
  <2>. HIDE DEF p, R
  <2>1. R = Replace(n, p)
    BY DEF R
  <2>. QED  BY <1>1, <1>3, <1>4, <2>1, ReplaceMirrors
<1>. HIDE DEF R
<1>6. groups'[n] = R.groups /\ keys'[n] = R.keys /\ aliases'[n] = R.aliases
  <2>1. /\ groups = [q \in Node |-> groups[q]] /\ keys = [q \in Node |-> keys[q]]
        /\ aliases = [q \in Node |-> aliases[q]]
    BY DEF MeshInv, TablesSound
  <2>. QED  BY <1>1, <2>1 DEF Install
<1>7. Snapshot(n)' = [groups |-> Live(R.groups), keys |-> Live(R.keys), aliases |-> Live(R.aliases)]
  BY <1>6 DEF Snapshot
<1>8. View(Snapshot(n))' = View(Snapshot(n)')
  BY DEF View, Snapshot, Live, Shared, In
<1>. QED  BY <1>5, <1>7, <1>8

--------------------------------------------------------------------------
(* The theorems *)

\* Rows are typed, ids are keys and the unique indexes on living rows hold: no write of a
\* merge, a mirroring or a user is refused by them (syncMergeSave, ApplySnapshot).
THEOREM TypeCorrect == Spec => []TypeOK
<1>1. Init => MeshInv
  BY MeshInit
<1>2. MeshInv /\ [Next]_vars => MeshInv'
  BY MeshStep
<1>3. MeshInv => TypeOK
  BY MeshGoals
<1>. QED  BY <1>1, <1>2, <1>3, PTL DEF Spec

\* On a node that merges, no living key is older than a deletion of its credential there,
\* whatever arrives late, again or out of order (ProcessPayload, part 5).
THEOREM NoStaleRevivalCorrect == Spec => []NoStaleRevival
<1>1. Init => MeshInv
  BY MeshInit
<1>2. MeshInv /\ [Next]_vars => MeshInv'
  BY MeshStep
<1>3. MeshInv => NoStaleRevival
  BY MeshGoals
<1>. QED  BY <1>1, <1>2, <1>3, PTL DEF Spec

\* Two masters that merge each other's group end with the same shared fields, if no two
\* values print alike (ProcessPayload with mergeGroupJSONColumns).
THEOREM MergeSymmetricCorrect == RenderInjective => (Spec => []MergeSymmetric)
<1>1. SUFFICES ASSUME RenderInjective PROVE Spec => []MergeSymmetric
  OBVIOUS
<1>2. TypeOK => MergeSymmetric
  BY <1>1, TypedSymmetric
<1>. QED  BY <1>2, TypeCorrect, PTL

\* Applied at a node that was started as a follower, an answer leaves there exactly the groups,
\* keys and aliases that lived at the master when it answered, whatever the two had before and
\* whatever happened on either side while the answer was under way (ApplySnapshot).
THEOREM AnswersMirroredCorrect == Spec => AnswersMirrored
<1>1. Init => MeshInv /\ AnswersWhole
  <2>1. Init => AnswersWhole
    BY DEF Init, AnswersWhole, Waiting
  <2>. QED  BY <2>1, MeshInit
<1>2. MeshInv /\ AnswersWhole /\ [Next]_vars => MeshInv' /\ AnswersWhole'
  BY MeshStep, AnswersWholeStep
<1>3. MeshInv /\ AnswersWhole /\ [Next]_vars =>
        [\A n \in Node \ env, s \in Slots :
            PullApplied(n, s) => View(Snapshot(n))' = View(pull[n][s].body)]_vars
  BY AppliedShows
<1>. QED  BY <1>1, <1>2, <1>3, PTL DEF Spec, AnswersMirrored
=============================================================================
