------------------------ MODULE BlockTableOpsProofs -------------------------
(***************************************************************************)
(* Facts about the operations of the block-table manager, for every number *)
(* of blocks, and about what the blocks of one request do to it: the calls *)
(* that take, roll back and give back a table keep the manager well formed *)
(* and leave the tables of the other requests where they are.              *)
(***************************************************************************)
EXTENDS RequestOps, SequenceTheorems, FiniteSetTheorems, TLAPS

USE NumBlocksAssumption

(* reset and the constructor leave every block on the free stack once.     *)
LEMMA EmptyWellFormed == WellFormed(EmptyManager)
<1>1. WellTyped(EmptyManager)
  BY DEF WellTyped, ManagerType, EmptyManager, Blocks
<1>2. Partitioned(EmptyManager)
  BY DEF Partitioned, FreeDistinct, TablesDistinct, UsedIffNotFree, UsedIffInTable,
         EmptyManager, Blocks
<1>3. IndicesStacked(EmptyManager)
  BY DEF IndicesStacked, UnusedStacked, StackedUnused, StackDistinct, EmptyManager
<1>. QED BY <1>1, <1>2, <1>3 DEF WellFormed

(* Replacing one element of a sequence.                                    *)
LEMMA ReplaceElement ==
  ASSUME NEW S, NEW s \in Seq(S), NEW i \in DOMAIN s, NEW e \in S
  PROVE  /\ [s EXCEPT ![i] = e] \in Seq(S)
         /\ Len([s EXCEPT ![i] = e]) = Len(s)
         /\ DOMAIN [s EXCEPT ![i] = e] = DOMAIN s
         /\ [s EXCEPT ![i] = e][i] = e
         /\ \A j \in DOMAIN s \ {i} : [s EXCEPT ![i] = e][j] = s[j]
<1>1. DOMAIN s = 1 .. Len(s)
  OBVIOUS
<1>. QED BY <1>1, ExceptSeq

(* Where the elements of a concatenation come from.                        *)
LEMMA ConcatElements ==
  ASSUME NEW S, NEW a \in Seq(S), NEW c \in Seq(S)
  PROVE  /\ a \o c \in Seq(S)
         /\ \A i \in DOMAIN a : i \in DOMAIN (a \o c) /\ (a \o c)[i] = a[i]
         /\ \A j \in DOMAIN c : Len(a) + j \in DOMAIN (a \o c) /\ (a \o c)[Len(a) + j] = c[j]
         /\ \A k \in DOMAIN (a \o c) :
              \/ k \in DOMAIN a /\ (a \o c)[k] = a[k]
              \/ \E j \in DOMAIN c : k = Len(a) + j /\ (a \o c)[k] = c[j]
<1> DEFINE s == a \o c
<1>1. /\ Len(a) \in Nat /\ DOMAIN a = 1 .. Len(a)
      /\ Len(c) \in Nat /\ DOMAIN c = 1 .. Len(c)
  OBVIOUS
<1>2. /\ s \in Seq(S) /\ Len(s) = Len(a) + Len(c)
      /\ \A i \in 1 .. Len(a) + Len(c) : s[i] = IF i <= Len(a) THEN a[i] ELSE c[i - Len(a)]
  BY ConcatProperties
<1>3. DOMAIN s = 1 .. Len(a) + Len(c)
  BY <1>2
<1> HIDE DEF s
<1>4. ASSUME NEW j \in 1 .. Len(c)
      PROVE  Len(a) + j \in 1 .. Len(a) + Len(c) /\ s[Len(a) + j] = c[j]
  <2>1. /\ Len(a) + j \in 1 .. Len(a) + Len(c)
        /\ ~ Len(a) + j <= Len(a)
        /\ (Len(a) + j) - Len(a) = j
    BY <1>1
  <2>. QED BY <1>2, <2>1
<1>5. ASSUME NEW k \in 1 .. Len(a) + Len(c), ~ k <= Len(a)
      PROVE  \E j \in 1 .. Len(c) : k = Len(a) + j /\ s[k] = c[j]
  <2>1. k - Len(a) \in 1 .. Len(c) /\ k = Len(a) + (k - Len(a))
    BY <1>1, <1>5
  <2>. QED BY <1>2, <1>5, <2>1
<1>6. \A k \in 1 .. Len(a) + Len(c) : k <= Len(a) => k \in 1 .. Len(a) /\ s[k] = a[k]
  BY <1>1, <1>2
<1>7. \A i \in 1 .. Len(a) : i \in 1 .. Len(a) + Len(c) /\ s[i] = a[i]
  BY <1>1, <1>2
<1>8. /\ s \in Seq(S)
      /\ \A i \in DOMAIN a : i \in DOMAIN s /\ s[i] = a[i]
      /\ \A j \in DOMAIN c : Len(a) + j \in DOMAIN s /\ s[Len(a) + j] = c[j]
      /\ \A k \in DOMAIN s :
           \/ k \in DOMAIN a /\ s[k] = a[k]
           \/ \E j \in DOMAIN c : k = Len(a) + j /\ s[k] = c[j]
  BY <1>1, <1>2, <1>3, <1>4, <1>5, <1>6, <1>7
<1>. QED BY <1>8 DEF s

(* The elements of a sequence after a push.                                *)
LEMMA AppendElements ==
  ASSUME NEW S, NEW s \in Seq(S), NEW e \in S
  PROVE  /\ Append(s, e) \in Seq(S)
         /\ \E k \in DOMAIN Append(s, e) : Append(s, e)[k] = e
         /\ \A i \in DOMAIN s : i \in DOMAIN Append(s, e) /\ Append(s, e)[i] = s[i]
         /\ \A i \in DOMAIN Append(s, e) :
              \/ i \in DOMAIN s /\ Append(s, e)[i] = s[i]
              \/ i = Len(s) + 1 /\ Append(s, e)[i] = e
<1> DEFINE a == Append(s, e)
<1>1. Len(s) \in Nat /\ DOMAIN s = 1 .. Len(s)
  OBVIOUS
<1>2. /\ a \in Seq(S) /\ Len(a) = Len(s) + 1
      /\ \A i \in 1 .. Len(s) : a[i] = s[i]
      /\ a[Len(s) + 1] = e
  BY AppendProperties
<1>3. DOMAIN a = 1 .. Len(s) + 1
  BY <1>2
<1> HIDE DEF a
<1>4. /\ a \in Seq(S)
      /\ \E k \in DOMAIN a : a[k] = e
      /\ \A i \in DOMAIN s : i \in DOMAIN a /\ a[i] = s[i]
      /\ \A i \in DOMAIN a : \/ i \in DOMAIN s /\ a[i] = s[i]
                             \/ i = Len(s) + 1 /\ a[i] = e
  BY <1>1, <1>2, <1>3
<1>. QED BY <1>4 DEF a

(* Setting one of a sequence of flags.                                     *)
LEMMA SetFlag ==
  ASSUME NEW s \in Seq(BOOLEAN), NEW i \in DOMAIN s, NEW e \in BOOLEAN
  PROVE  /\ [s EXCEPT ![i] = e] \in Seq(BOOLEAN)
         /\ Len([s EXCEPT ![i] = e]) = Len(s)
         /\ DOMAIN [s EXCEPT ![i] = e] = DOMAIN s
         /\ [s EXCEPT ![i] = e][i] = e
         /\ \A j \in DOMAIN s \ {i} : [s EXCEPT ![i] = e][j] = s[j]
<1> DEFINE r == [s EXCEPT ![i] = e]
<1>1. r \in Seq(BOOLEAN)
  BY ReplaceElement, Zenon
<1>2. DOMAIN r = DOMAIN s
  OBVIOUS
<1>3. Len(r) = Len(s)
  <2> HIDE DEF r
  <2>. QED BY <1>1, <1>2
<1>4. r[i] = e
  BY ReplaceElement, Zenon
<1>5. \A j \in DOMAIN s \ {i} : r[j] = s[j]
  BY ReplaceElement, Zenon
<1>. QED BY <1>1, <1>2, <1>3, <1>4, <1>5, Zenon

(* The fields of a well-typed manager.                                     *)
LEMMA FieldTypes ==
  ASSUME NEW m, WellTyped(m)
  PROVE  /\ m.free_blocks \in Seq(Blocks)
         /\ m.block_used \in [Blocks -> BOOLEAN]
         /\ m.tables \in Seq(Seq(Blocks))
         /\ m.table_used \in Seq(BOOLEAN)
         /\ m.free_table_indices \in Seq(Nat)
         /\ Len(m.table_used) = Len(m.tables)
         /\ DOMAIN m.table_used = DOMAIN m.tables
         /\ DOMAIN m.tables = 1 .. Len(m.tables)
BY DEF WellTyped, ManagerType

(* Conversely, a manager with new values of some fields is well typed when *)
(* each of them has its type.                                              *)
LEMMA UpdatedTypes ==
  ASSUME NEW m, WellTyped(m),
         NEW f \in Seq(Blocks), NEW u \in [Blocks -> BOOLEAN], NEW ts \in Seq(Seq(Blocks)),
         NEW tu \in Seq(BOOLEAN), NEW fi \in Seq(Nat), Len(tu) = Len(ts),
         NEW n, n = [m EXCEPT !.free_blocks = f, !.block_used = u, !.tables = ts,
                              !.table_used = tu, !.free_table_indices = fi]
  PROVE  /\ WellTyped(n)
         /\ n.free_blocks = f /\ n.block_used = u /\ n.tables = ts
         /\ n.table_used = tu /\ n.free_table_indices = fi
BY DEF WellTyped, ManagerType

(* allocate_table returns an index no live request holds.                  *)
LEMMA AllocateFresh ==
  ASSUME NEW m, WellFormed(m)
  PROVE  /\ AllocatedTable(m) \in Nat \ {0}
         /\ ~ IsTableUsed(m, AllocatedTable(m))
BY DEF WellFormed, WellTyped, ManagerType, IndicesStacked, StackedUnused, AllocatedTable, IsTableUsed

(* allocate_table keeps the manager well formed.                           *)
LEMMA AllocateWellFormed ==
  ASSUME NEW m, WellFormed(m)
  PROVE  WellFormed(AllocateTable(m))
<1> DEFINE n == AllocateTable(m)
<1>0. WellTyped(m) BY DEF WellFormed
<1>1. CASE m.free_table_indices # << >>
  <2> DEFINE k == Len(m.free_table_indices)
             t == m.free_table_indices[k]
             tu == [m.table_used EXCEPT ![t] = TRUE]
             fi == SubSeq(m.free_table_indices, 1, k - 1)
  <2>0. k \in Nat \ {0} /\ k \in DOMAIN m.free_table_indices
        /\ DOMAIN m.free_table_indices = 1 .. k
    BY <1>0, <1>1, FieldTypes
  <2>1. /\ t \in DOMAIN m.tables /\ ~ m.table_used[t] /\ m.tables[t] = << >>
    BY <2>0 DEF WellFormed, IndicesStacked, StackedUnused
  <2>2. /\ tu \in Seq(BOOLEAN) /\ Len(tu) = Len(m.tables)
        /\ tu[t] = TRUE
        /\ \A v \in DOMAIN m.tables \ {t} : tu[v] = m.table_used[v]
    <3>1. /\ m.table_used \in Seq(BOOLEAN) /\ t \in DOMAIN m.table_used
          /\ DOMAIN m.tables = DOMAIN m.table_used /\ Len(m.table_used) = Len(m.tables)
      BY <1>0, <2>1, FieldTypes
    <3> HIDE DEF t
    <3>. QED BY <3>1, SetFlag
  <2>3. /\ fi \in Seq(Nat) /\ Len(fi) = k - 1 /\ DOMAIN fi = 1 .. k - 1
        /\ \A i \in 1 .. k - 1 : fi[i] = m.free_table_indices[i]
    BY <1>0, <2>0, FieldTypes
  <2>5. n = [m EXCEPT !.table_used = tu, !.free_table_indices = fi]
    <3>1. m.tables \in [DOMAIN m.tables -> Seq(Blocks)]
      BY <1>0, FieldTypes
    <3>2. [m.tables EXCEPT ![t] = << >>] = m.tables
      BY <3>1, <2>1, Zenon
    <3>3. n = [m EXCEPT !.tables = [m.tables EXCEPT ![t] = << >>],
                        !.table_used = tu, !.free_table_indices = fi]
      BY <1>1 DEF AllocateTable, AllocatedTable
    <3>. QED BY <1>0, <3>2, <3>3 DEF WellTyped, ManagerType
  <2>6. WellTyped(n) /\ n.free_blocks = m.free_blocks /\ n.block_used = m.block_used
        /\ n.tables = m.tables /\ n.table_used = tu /\ n.free_table_indices = fi
    <3> HIDE DEF n, tu, fi
    <3>. QED BY <1>0, <2>2, <2>3, <2>5 DEF WellTyped, ManagerType
  <2>7. Partitioned(n)
    BY <2>6 DEF WellFormed, Partitioned, FreeDistinct, TablesDistinct,
                UsedIffNotFree, UsedIffInTable
  <2>8. IndicesStacked(n)
    <3> HIDE DEF n, tu, fi
    <3>1. UnusedStacked(n)
      <4>1. SUFFICES ASSUME NEW v \in DOMAIN m.tables, ~ tu[v]
                     PROVE  \E i \in DOMAIN fi : fi[i] = v
        BY <2>6 DEF UnusedStacked
      <4>2. v # t /\ ~ m.table_used[v]
        BY <2>2, <4>1
      <4>3. PICK i \in DOMAIN m.free_table_indices : m.free_table_indices[i] = v
        BY <4>2 DEF WellFormed, IndicesStacked, UnusedStacked
      <4>. QED BY <2>0, <2>3, <4>2, <4>3
    <3>2. \A i \in DOMAIN fi : /\ i \in DOMAIN m.free_table_indices
                               /\ fi[i] = m.free_table_indices[i]
                               /\ fi[i] # t
      <4>1. ASSUME NEW i \in 1 .. k - 1  PROVE m.free_table_indices[i] # m.free_table_indices[k]
        BY <2>0 DEF WellFormed, IndicesStacked, StackDistinct
      <4>. QED BY <2>0, <2>3, <4>1
    <3>3. StackedUnused(n)
      <4>1. SUFFICES ASSUME NEW i \in DOMAIN fi
                     PROVE  fi[i] \in DOMAIN m.tables /\ ~ tu[fi[i]] /\ m.tables[fi[i]] = << >>
        BY <2>6 DEF StackedUnused
      <4>. QED BY <2>2, <3>2 DEF WellFormed, IndicesStacked, StackedUnused
    <3>4. StackDistinct(n)
      BY <3>2, <2>6 DEF WellFormed, IndicesStacked, StackDistinct
    <3>. QED BY <3>1, <3>3, <3>4 DEF IndicesStacked
  <2>. QED BY <2>6, <2>7, <2>8 DEF WellFormed
<1>2. CASE m.free_table_indices = << >>
  <2> DEFINE ts == Append(m.tables, << >>)
             tu == Append(m.table_used, TRUE)
  <2>1. n = [m EXCEPT !.tables = ts, !.table_used = tu]
    BY <1>2 DEF AllocateTable
  <2>2. /\ ts \in Seq(Seq(Blocks)) /\ Len(ts) = Len(m.tables) + 1
        /\ tu \in Seq(BOOLEAN) /\ Len(tu) = Len(ts)
        /\ \A v \in 1 .. Len(m.tables) : ts[v] = m.tables[v] /\ tu[v] = m.table_used[v]
        /\ ts[Len(m.tables) + 1] = << >> /\ tu[Len(m.tables) + 1] = TRUE
    <3>1. /\ ts \in Seq(Seq(Blocks)) /\ Len(ts) = Len(m.tables) + 1
          /\ \A v \in 1 .. Len(m.tables) : ts[v] = m.tables[v]
          /\ ts[Len(m.tables) + 1] = << >>
      BY <1>0, FieldTypes, EmptySeq, AppendProperties
    <3>2. /\ tu \in Seq(BOOLEAN) /\ Len(tu) = Len(m.table_used) + 1
          /\ \A v \in 1 .. Len(m.table_used) : tu[v] = m.table_used[v]
          /\ tu[Len(m.table_used) + 1] = TRUE
      <4>1. TRUE \in BOOLEAN /\ m.table_used \in Seq(BOOLEAN)
        BY <1>0, FieldTypes
      <4>. QED BY <4>1, AppendProperties, ZenonT(40)
    <3>3. Len(m.table_used) = Len(m.tables)
      BY <1>0, FieldTypes
    <3> HIDE DEF ts, tu
    <3>. QED BY <3>1, <3>2, <3>3, SMTT(40)
  <2>3. WellTyped(n) /\ n.free_blocks = m.free_blocks /\ n.block_used = m.block_used
        /\ n.tables = ts /\ n.table_used = tu /\ n.free_table_indices = m.free_table_indices
    <3> HIDE DEF n, ts, tu
    <3>. QED BY <1>0, <2>1, <2>2 DEF WellTyped, ManagerType
  <2>4. DOMAIN ts = 1 .. (Len(m.tables) + 1) /\ Len(m.tables) \in Nat
        /\ DOMAIN m.tables = 1 .. Len(m.tables)
    BY <1>0, <2>2, FieldTypes
  <2>5. Partitioned(n)
    <3> HIDE DEF n, ts, tu
    <3>0. /\ \A v \in DOMAIN ts : v \in DOMAIN m.tables \/ ts[v] = << >>
          /\ \A v \in DOMAIN m.tables : v \in DOMAIN ts /\ ts[v] = m.tables[v]
      BY <2>2, <2>4, SMTT(40)
    <3>1. TablesDistinct(n)
      BY <2>3, <3>0, SMTT(40) DEF WellFormed, Partitioned, TablesDistinct
    <3>2. FreeDistinct(n) /\ UsedIffNotFree(n)
      BY <2>3 DEF WellFormed, Partitioned, FreeDistinct, UsedIffNotFree
    <3>3. UsedIffInTable(n)
      BY <2>3, <3>0 DEF WellFormed, Partitioned, UsedIffInTable
    <3>. QED BY <3>1, <3>2, <3>3 DEF Partitioned
  <2>6. IndicesStacked(n)
    <3> HIDE DEF n, ts, tu
    <3>1. \A v \in DOMAIN n.tables : v \in DOMAIN m.tables \/ n.table_used[v]
      BY <2>2, <2>3, <2>4
    <3>2. \A v \in DOMAIN m.tables : n.table_used[v] = m.table_used[v]
      BY <2>2, <2>3, <2>4
    <3>. QED BY <1>2, <3>1, <3>2, <2>3, <2>4 DEF WellFormed, IndicesStacked,
         UnusedStacked, StackedUnused, StackDistinct
  <2>. QED BY <2>3, <2>5, <2>6 DEF WellFormed
<1>. QED BY <1>1, <1>2

-----------------------------------------------------------------------------
(* free_table never meets a block that is already free: the check in       *)
(* free_block is dead code.                                                *)
LEMMA FreeReturns ==
  ASSUME NEW m, WellFormed(m), NEW t, IsTableUsed(m, t)
  PROVE  FreeTableReturns(m, t)
<1>1. m.tables[t] \in Seq(Blocks)
  BY FieldTypes DEF WellFormed, IsTableUsed
<1>2. \A i \in DOMAIN m.tables[t] : m.tables[t][i] \in Blocks
  BY <1>1
<1>. QED BY <1>2 DEF WellFormed, Partitioned, TablesDistinct, UsedIffInTable, IsTableUsed,
                     FreeTableReturns

(* free_table keeps the manager well formed.                               *)
LEMMA FreeWellFormed ==
  ASSUME NEW m, WellFormed(m), NEW t \in Nat, IsTableUsed(m, t)
  PROVE  WellFormed(FreeTable(m, t))
<1> DEFINE n  == FreeTable(m, t)
           F  == m.free_blocks
           T  == m.tables[t]
           I  == m.free_table_indices
           fb == F \o T
           bu == [b \in Blocks |-> m.block_used[b] /\ \A i \in DOMAIN T : T[i] # b]
           ts == [m.tables EXCEPT ![t] = << >>]
           tu == [m.table_used EXCEPT ![t] = FALSE]
           fi == Append(I, t)
<1>0. /\ WellTyped(m) /\ Partitioned(m) /\ IndicesStacked(m)
      /\ t \in DOMAIN m.tables /\ m.table_used[t]
  BY DEF WellFormed, IsTableUsed
<1>1. /\ F \in Seq(Blocks) /\ T \in Seq(Blocks)
      /\ \A i \in DOMAIN F : F[i] \in Blocks
      /\ \A i \in DOMAIN T : T[i] \in Blocks
  BY <1>0, FieldTypes
<1>2. /\ fb \in Seq(Blocks)
      /\ \A i \in DOMAIN F : i \in DOMAIN fb /\ fb[i] = F[i]
      /\ \A j \in DOMAIN T : Len(F) + j \in DOMAIN fb /\ fb[Len(F) + j] = T[j]
      /\ \A k \in DOMAIN fb :
           \/ k \in DOMAIN F /\ fb[k] = F[k]
           \/ \E j \in DOMAIN T : k = Len(F) + j /\ fb[k] = T[j]
  <2> HIDE DEF F, T
  <2>. QED BY <1>1, ConcatElements
<1>3. /\ ts \in Seq(Seq(Blocks)) /\ Len(ts) = Len(m.tables) /\ DOMAIN ts = DOMAIN m.tables
      /\ ts[t] = << >> /\ \A v \in DOMAIN m.tables \ {t} : ts[v] = m.tables[v]
  BY <1>0, FieldTypes, EmptySeq, ReplaceElement
<1>4. /\ tu \in Seq(BOOLEAN) /\ Len(tu) = Len(m.table_used) /\ DOMAIN tu = DOMAIN m.tables
      /\ tu[t] = FALSE /\ \A v \in DOMAIN m.tables \ {t} : tu[v] = m.table_used[v]
  <2>1. m.table_used \in Seq(BOOLEAN) /\ DOMAIN m.table_used = DOMAIN m.tables
    BY <1>0, FieldTypes
  <2>. QED BY <1>0, <2>1, SetFlag
<1>5. /\ fi \in Seq(Nat)
      /\ \E k \in DOMAIN fi : fi[k] = t
      /\ \A i \in DOMAIN I : i \in DOMAIN fi /\ fi[i] = I[i]
      /\ \A i \in DOMAIN fi : \/ i \in DOMAIN I /\ fi[i] = I[i]
                              \/ i = Len(I) + 1 /\ fi[i] = t
  <2>1. I \in Seq(Nat)
    BY <1>0, FieldTypes
  <2>. QED BY <2>1, AppendElements
<1>6. bu \in [Blocks -> BOOLEAN]
  OBVIOUS
<1>7. n = [m EXCEPT !.free_blocks = fb, !.block_used = bu, !.tables = ts,
                    !.table_used = tu, !.free_table_indices = fi]
  BY DEF FreeTable
<1>8. /\ WellTyped(n)
      /\ n.free_blocks = fb /\ n.block_used = bu /\ n.tables = ts
      /\ n.table_used = tu /\ n.free_table_indices = fi
  <2>1. Len(tu) = Len(ts)
    BY <1>0, <1>3, <1>4, FieldTypes
  <2> HIDE DEF n, fb, bu, ts, tu, fi
  <2>. QED BY <1>0, <1>2, <1>3, <1>4, <1>5, <1>6, <1>7, <2>1 DEF WellTyped, ManagerType
<1>9. \A i \in DOMAIN F, j \in DOMAIN T : F[i] # T[j]
  BY <1>0, <1>1 DEF Partitioned, UsedIffNotFree, UsedIffInTable
<1>10. \A b \in Blocks : bu[b] <=> m.block_used[b] /\ \A i \in DOMAIN T : T[i] # b
  BY Zenon
<1>11. DOMAIN << >> = {}
  OBVIOUS
<1>12. Partitioned(n)
  <2> HIDE DEF n, fb, bu, ts, tu, fi
  <2>1. FreeDistinct(n)
    <3>1. \A i, j \in DOMAIN T : T[i] = T[j] => i = j
      BY <1>0 DEF Partitioned, TablesDistinct
    <3>2. \A i, j \in DOMAIN F : F[i] = F[j] => i = j
      BY <1>0 DEF Partitioned, FreeDistinct
    <3> HIDE DEF F, T
    <3>3. SUFFICES ASSUME NEW i \in DOMAIN fb, NEW j \in DOMAIN fb, fb[i] = fb[j]
                   PROVE  i = j
      BY <1>8 DEF FreeDistinct
    <3>4. CASE i \in DOMAIN F /\ fb[i] = F[i]
      <4>1. j \in DOMAIN F /\ fb[j] = F[j]
        BY <1>2, <1>9, <3>3, <3>4
      <4>. QED BY <3>2, <3>3, <3>4, <4>1
    <3>5. CASE \E k \in DOMAIN T : i = Len(F) + k /\ fb[i] = T[k]
      <4>1. PICK k \in DOMAIN T : i = Len(F) + k /\ fb[i] = T[k]
        BY <3>5
      <4>2. PICK l \in DOMAIN T : j = Len(F) + l /\ fb[j] = T[l]
        BY <1>2, <1>9, <3>3, <4>1
      <4>. QED BY <3>1, <3>3, <4>1, <4>2
    <3>. QED BY <1>2, <3>4, <3>5
  <2>2. TablesDistinct(n)
    <3>1. SUFFICES ASSUME NEW v \in DOMAIN ts, NEW w \in DOMAIN ts,
                          NEW i \in DOMAIN ts[v], NEW j \in DOMAIN ts[w],
                          ts[v][i] = ts[w][j]
                   PROVE  v = w /\ i = j
      BY <1>8 DEF TablesDistinct
    <3>2. v # t /\ w # t
      BY <1>3, <1>11, <3>1
    <3>3. /\ v \in DOMAIN m.tables /\ w \in DOMAIN m.tables
          /\ ts[v] = m.tables[v] /\ ts[w] = m.tables[w]
      BY <1>3, <3>2
    <3>4. TablesDistinct(m)
      BY <1>0 DEF Partitioned
    <3>5. /\ i \in DOMAIN m.tables[v] /\ j \in DOMAIN m.tables[w]
          /\ m.tables[v][i] = m.tables[w][j]
      BY <3>1, <3>3
    <3>. QED BY <3>3, <3>4, <3>5, SMTT(40) DEF TablesDistinct
  <2>3. UsedIffNotFree(n)
    <3>1. \A b \in Blocks : (\A k \in DOMAIN fb : fb[k] # b) <=>
             (\A i \in DOMAIN F : F[i] # b) /\ (\A j \in DOMAIN T : T[j] # b)
      <4> HIDE DEF F, T
      <4>. QED BY <1>2
    <3>2. UsedIffNotFree(m)
      BY <1>0 DEF Partitioned
    <3>. QED BY <1>8, <1>10, <3>1, <3>2, Zenon DEF UsedIffNotFree
  <2>4. UsedIffInTable(n)
    <3>1. SUFFICES ASSUME NEW b \in Blocks
                   PROVE  bu[b] <=> \E v \in DOMAIN ts : \E i \in DOMAIN ts[v] : ts[v][i] = b
      BY <1>8 DEF UsedIffInTable
    <3>2. m.block_used[b] <=> \E v \in DOMAIN m.tables : \E i \in DOMAIN m.tables[v] : m.tables[v][i] = b
      BY <1>0 DEF Partitioned, UsedIffInTable
    <3>3. ASSUME bu[b]
          PROVE  \E v \in DOMAIN ts : \E i \in DOMAIN ts[v] : ts[v][i] = b
      <4>1. PICK v \in DOMAIN m.tables : \E i \in DOMAIN m.tables[v] : m.tables[v][i] = b
        BY <1>10, <3>2, <3>3, Zenon
      <4>2. v # t
        BY <1>10, <3>3, <4>1, Zenon
      <4>. QED BY <1>3, <4>1, <4>2, Zenon
    <3>4. ASSUME NEW v \in DOMAIN ts, NEW i \in DOMAIN ts[v], ts[v][i] = b
          PROVE  bu[b]
      <4>1. v # t
        BY <1>3, <1>11, <3>4
      <4>2. v \in DOMAIN m.tables /\ i \in DOMAIN m.tables[v] /\ m.tables[v][i] = b
        BY <1>3, <3>4, <4>1
      <4>3. \A j \in DOMAIN T : T[j] # b
        BY <1>0, <4>1, <4>2 DEF Partitioned, TablesDistinct
      <4>. QED BY <1>10, <3>2, <4>2, <4>3, Zenon
    <3>. QED BY <3>3, <3>4, Zenon
  <2>. QED BY <2>1, <2>2, <2>3, <2>4 DEF Partitioned
<1>13. IndicesStacked(n)
  <2> HIDE DEF n, ts, tu, fi
  <2>1. UnusedStacked(n)
    <3>1. SUFFICES ASSUME NEW v \in DOMAIN ts, ~ tu[v]
                   PROVE  \E i \in DOMAIN fi : fi[i] = v
      BY <1>8 DEF UnusedStacked
    <3>2. CASE v = t
      BY <1>5, <3>2
    <3>3. CASE v # t
      <4>1. v \in DOMAIN m.tables /\ ~ m.table_used[v]
        BY <1>3, <1>4, <3>1, <3>3
      <4>2. PICK i \in DOMAIN I : I[i] = v
        BY <1>0, <4>1 DEF IndicesStacked, UnusedStacked
      <4>. QED BY <1>5, <4>2
    <3>. QED BY <3>2, <3>3
  <2>2. \A i \in DOMAIN I : I[i] # t
    BY <1>0 DEF IndicesStacked, StackedUnused
  <2>3. StackedUnused(n)
    <3>1. SUFFICES ASSUME NEW i \in DOMAIN fi
                   PROVE  fi[i] \in DOMAIN ts /\ ~ tu[fi[i]] /\ ts[fi[i]] = << >>
      BY <1>8 DEF StackedUnused
    <3>2. CASE i \in DOMAIN I /\ fi[i] = I[i]
      <4>1. fi[i] \in DOMAIN m.tables /\ ~ m.table_used[fi[i]] /\ m.tables[fi[i]] = << >> /\ fi[i] # t
        BY <1>0, <2>2, <3>2 DEF IndicesStacked, StackedUnused
      <4>. QED BY <1>3, <1>4, <4>1
    <3>3. CASE fi[i] = t
      BY <1>0, <1>3, <1>4, <3>3
    <3>. QED BY <1>5, <3>2, <3>3
  <2>4. StackDistinct(n)
    <3>1. \A i, j \in DOMAIN I : I[i] = I[j] => i = j
      BY <1>0 DEF IndicesStacked, StackDistinct
    <3> HIDE DEF I
    <3>. QED BY <1>5, <1>8, <2>2, <3>1 DEF StackDistinct
  <2>. QED BY <2>1, <2>3, <2>4 DEF IndicesStacked
<1>. QED BY <1>8, <1>12, <1>13 DEF WellFormed

-----------------------------------------------------------------------------
(* The blocks ensure_blocks pops are the top of the free stack, each once. *)
LEMMA PoppedElements ==
  ASSUME NEW m, WellFormed(m), NEW n \in 1 .. Len(m.free_blocks)
  PROVE  LET F  == m.free_blocks
             P  == PoppedBlocks(m, n)
             nf == SubSeq(F, 1, Len(F) - n)
         IN  /\ P \in Seq(Blocks) /\ Len(P) = n
             /\ nf \in Seq(Blocks)
             /\ \A i \in DOMAIN nf : i \in DOMAIN F /\ nf[i] = F[i]
             /\ \A i \in DOMAIN F : i \in DOMAIN nf \/ \E j \in DOMAIN P : P[j] = F[i]
             /\ \A j \in DOMAIN P : \E i \in DOMAIN F : P[j] = F[i]
             /\ \A j, k \in DOMAIN P : P[j] = P[k] => j = k
             /\ \A j \in DOMAIN P, i \in DOMAIN nf : P[j] # nf[i]
<1> DEFINE F  == m.free_blocks
           P  == PoppedBlocks(m, n)
           nf == SubSeq(F, 1, Len(F) - n)
<1>1. /\ F \in Seq(Blocks) /\ Len(F) \in Nat /\ DOMAIN F = 1 .. Len(F)
      /\ \A i \in DOMAIN F : F[i] \in Blocks
      /\ \A i, j \in DOMAIN F : F[i] = F[j] => i = j
  BY FieldTypes DEF WellFormed, Partitioned, FreeDistinct
<1>2. n \in Nat /\ n >= 1 /\ n <= Len(F)
  BY <1>1
<1>3. P = [i \in 1 .. n |-> F[Len(F) + 1 - i]]
  BY DEF PoppedBlocks
<1> HIDE DEF F
<1>4. \A i \in 1 .. n : Len(F) + 1 - i \in DOMAIN F
  BY <1>1, <1>2
<1>5. P \in Seq(Blocks) /\ Len(P) = n /\ DOMAIN P = 1 .. n
  <2>1. P \in [1 .. n -> Blocks]
    BY <1>1, <1>3, <1>4
  <2> HIDE DEF P
  <2>. QED BY <1>2, <2>1
<1>6. /\ nf \in Seq(Blocks) /\ Len(nf) = Len(F) - n /\ DOMAIN nf = 1 .. (Len(F) - n)
      /\ \A i \in DOMAIN nf : nf[i] = F[i]
  <2>1. /\ Len(F) - n \in Nat
        /\ \A i \in 1 .. (Len(F) - n) : F[i] \in Blocks
    BY <1>1, <1>2
  <2>2. /\ nf \in Seq(Blocks)
        /\ Len(nf) = IF 1 <= Len(F) - n THEN (Len(F) - n) - 1 + 1 ELSE 0
        /\ \A i \in 1 .. (Len(F) - n) - 1 + 1 : nf[i] = F[1 + i - 1]
    BY <2>1, SubSeqProperties
  <2> HIDE DEF nf
  <2>. QED BY <2>1, <2>2
<1> HIDE DEF P, nf
<1>7. \A j \in 1 .. n : P[j] = F[Len(F) + 1 - j]
  BY <1>3
<1>8. \A i \in DOMAIN nf : i \in DOMAIN F /\ nf[i] = F[i]
  BY <1>1, <1>2, <1>6
<1>9. ASSUME NEW i \in DOMAIN F, i \notin DOMAIN nf
      PROVE  \E j \in DOMAIN P : P[j] = F[i]
  <2>1. Len(F) + 1 - i \in 1 .. n /\ Len(F) + 1 - (Len(F) + 1 - i) = i
    BY <1>1, <1>2, <1>6, <1>9
  <2>. QED BY <1>5, <1>7, <2>1
<1>10. \A j \in DOMAIN P : \E i \in DOMAIN F : P[j] = F[i]
  BY <1>4, <1>5, <1>7
<1>11. ASSUME NEW j \in DOMAIN P, NEW k \in DOMAIN P, P[j] = P[k]
       PROVE  j = k
  <2>1. Len(F) + 1 - j = Len(F) + 1 - k
    BY <1>1, <1>4, <1>5, <1>7, <1>11
  <2>. QED BY <1>1, <1>5, <2>1
<1>12. ASSUME NEW j \in DOMAIN P, NEW i \in DOMAIN nf, P[j] = nf[i]
       PROVE  FALSE
  <2>1. Len(F) + 1 - j = i
    BY <1>1, <1>4, <1>5, <1>7, <1>8, <1>12
  <2>. QED BY <1>1, <1>2, <1>5, <1>6, <2>1
<1>. QED BY <1>5, <1>6, <1>8, <1>9, <1>10, <1>11, <1>12 DEF F, P, nf

(* The loop of ensure_blocks keeps the manager well formed.                *)
LEMMA GrowWellFormed ==
  ASSUME NEW m, WellFormed(m), NEW t \in Nat, IsTableUsed(m, t),
         NEW n \in 1 .. Len(m.free_blocks)
  PROVE  WellFormed(GrowTable(m, t, n))
<1> DEFINE r  == GrowTable(m, t, n)
           F  == m.free_blocks
           T  == m.tables[t]
           P  == PoppedBlocks(m, n)
           nf == SubSeq(F, 1, Len(F) - n)
           nt == T \o P
           bu == [b \in Blocks |-> m.block_used[b] \/ \E i \in 1 .. n : P[i] = b]
           ts == [m.tables EXCEPT ![t] = nt]
<1>0. /\ WellTyped(m) /\ Partitioned(m) /\ IndicesStacked(m)
      /\ t \in DOMAIN m.tables /\ m.table_used[t]
      /\ TablesDistinct(m) /\ UsedIffNotFree(m) /\ UsedIffInTable(m)
  BY DEF WellFormed, IsTableUsed, Partitioned
<1>1. /\ F \in Seq(Blocks) /\ T \in Seq(Blocks)
      /\ \A i \in DOMAIN F : F[i] \in Blocks
      /\ \A v \in DOMAIN m.tables : \A i \in DOMAIN m.tables[v] : m.tables[v][i] \in Blocks
  <2>1. F \in Seq(Blocks) /\ \A v \in DOMAIN m.tables : m.tables[v] \in Seq(Blocks)
    BY <1>0, FieldTypes
  <2>2. \A i \in DOMAIN F : F[i] \in Blocks
    BY <2>1
  <2>3. ASSUME NEW v \in DOMAIN m.tables, NEW i \in DOMAIN m.tables[v]
        PROVE  m.tables[v][i] \in Blocks
    BY <2>1
  <2>. QED BY <1>0, <2>1, <2>2, <2>3
<1>2. /\ P \in Seq(Blocks) /\ Len(P) = n
      /\ nf \in Seq(Blocks)
      /\ \A i \in DOMAIN nf : i \in DOMAIN F /\ nf[i] = F[i]
      /\ \A i \in DOMAIN F : i \in DOMAIN nf \/ \E j \in DOMAIN P : P[j] = F[i]
      /\ \A j \in DOMAIN P : \E i \in DOMAIN F : P[j] = F[i]
      /\ \A j, k \in DOMAIN P : P[j] = P[k] => j = k
      /\ \A j \in DOMAIN P, i \in DOMAIN nf : P[j] # nf[i]
  BY PoppedElements
<1>3. DOMAIN P = 1 .. n
  <2> HIDE DEF P
  <2>. QED BY <1>2
<1>4. /\ nt \in Seq(Blocks)
      /\ \A i \in DOMAIN T : i \in DOMAIN nt /\ nt[i] = T[i]
      /\ \A j \in DOMAIN P : Len(T) + j \in DOMAIN nt /\ nt[Len(T) + j] = P[j]
      /\ \A k \in DOMAIN nt :
           \/ k \in DOMAIN T /\ nt[k] = T[k]
           \/ \E j \in DOMAIN P : k = Len(T) + j /\ nt[k] = P[j]
  <2> HIDE DEF T, P
  <2>. QED BY <1>1, <1>2, ConcatElements, SMTT(40)
<1>5. /\ ts \in Seq(Seq(Blocks)) /\ Len(ts) = Len(m.tables) /\ DOMAIN ts = DOMAIN m.tables
      /\ ts[t] = nt /\ \A v \in DOMAIN m.tables \ {t} : ts[v] = m.tables[v]
  <2> HIDE DEF nt
  <2>. QED BY <1>0, <1>4, FieldTypes, ReplaceElement
<1>6. bu \in [Blocks -> BOOLEAN]
  OBVIOUS
<1>7. r = [m EXCEPT !.free_blocks = nf, !.block_used = bu, !.tables = ts]
  BY DEF GrowTable
<1>8. /\ WellTyped(r)
      /\ r.free_blocks = nf /\ r.block_used = bu /\ r.tables = ts
      /\ r.table_used = m.table_used /\ r.free_table_indices = m.free_table_indices
  <2> HIDE DEF r, nf, bu, ts
  <2>. QED BY <1>0, <1>2, <1>5, <1>6, <1>7 DEF WellTyped, ManagerType
<1>9. \A b \in Blocks : bu[b] <=> m.block_used[b] \/ \E j \in DOMAIN P : P[j] = b
  BY <1>3, Zenon
<1>10. \A v \in DOMAIN m.tables : \A i \in DOMAIN m.tables[v], j \in DOMAIN P : m.tables[v][i] # P[j]
  <2>1. SUFFICES ASSUME NEW v \in DOMAIN m.tables, NEW i \in DOMAIN m.tables[v],
                        NEW j \in DOMAIN P, m.tables[v][i] = P[j]
                 PROVE  FALSE
    OBVIOUS
  <2> HIDE DEF P
  <2>2. PICK k \in DOMAIN F : P[j] = F[k]
    BY <1>2
  <2>3. m.tables[v][i] \in Blocks
    BY <1>1
  <2>4. m.block_used[m.tables[v][i]]
    BY <1>0, <2>3, Zenon DEF UsedIffInTable
  <2>5. F[k] # m.tables[v][i]
    BY <1>0, <2>3, <2>4, Zenon DEF UsedIffNotFree
  <2>. QED BY <2>1, <2>2, <2>5, Zenon
<1>11. \A v \in DOMAIN ts : \A i \in DOMAIN ts[v] :
         \/ i \in DOMAIN m.tables[v] /\ ts[v][i] = m.tables[v][i]
         \/ v = t /\ \E j \in DOMAIN P : i = Len(T) + j /\ ts[v][i] = P[j]
  <2> HIDE DEF ts, nt, P
  <2>. QED BY <1>4, <1>5
<1> HIDE DEF r, F, T, P, nf, nt, bu, ts
<1>12. Partitioned(r)
  <2>1. FreeDistinct(r)
    BY <1>0, <1>2, <1>8 DEF Partitioned, FreeDistinct, F
  <2>2. TablesDistinct(r)
    <3>1. SUFFICES ASSUME NEW v \in DOMAIN ts, NEW w \in DOMAIN ts,
                          NEW i \in DOMAIN ts[v], NEW j \in DOMAIN ts[w],
                          ts[v][i] = ts[w][j]
                   PROVE  v = w /\ i = j
      BY <1>8 DEF TablesDistinct
    <3>0. v \in DOMAIN m.tables /\ w \in DOMAIN m.tables
      BY <1>5
    <3>2. CASE i \in DOMAIN m.tables[v] /\ ts[v][i] = m.tables[v][i]
      <4>1. ASSUME NEW k \in DOMAIN P  PROVE ts[w][j] # P[k]
        BY <1>10, <3>0, <3>1, <3>2
      <4>2. j \in DOMAIN m.tables[w] /\ ts[w][j] = m.tables[w][j]
        BY <1>11, <4>1
      <4>3. m.tables[v][i] = m.tables[w][j]
        BY <3>1, <3>2, <4>2
      <4>4. \A k \in DOMAIN m.tables[v], l \in DOMAIN m.tables[w] :
              m.tables[v][k] = m.tables[w][l] => v = w /\ k = l
        BY <1>0, <3>0 DEF TablesDistinct
      <4>5. i \in DOMAIN m.tables[v]
        BY <3>2
      <4>. QED BY <4>2, <4>3, <4>4, <4>5, Zenon
    <3>3. CASE v = t /\ \E k \in DOMAIN P : i = Len(T) + k /\ ts[v][i] = P[k]
      <4>1. PICK k \in DOMAIN P : i = Len(T) + k /\ ts[v][i] = P[k]
        BY <3>3
      <4>2. ~ (j \in DOMAIN m.tables[w] /\ ts[w][j] = m.tables[w][j])
        BY <1>10, <3>0, <3>1, <4>1
      <4>3. PICK l \in DOMAIN P : w = t /\ j = Len(T) + l /\ ts[w][j] = P[l]
        BY <1>11, <4>2
      <4>4. k = l
        BY <1>2, <3>1, <4>1, <4>3
      <4>. QED BY <3>3, <4>1, <4>3, <4>4
    <3>. QED BY <1>11, <3>2, <3>3
  <2>3. UsedIffNotFree(r)
    <3>1. SUFFICES ASSUME NEW b \in Blocks
                   PROVE  bu[b] <=> \A i \in DOMAIN nf : nf[i] # b
      BY <1>8 DEF UsedIffNotFree
    <3>2. m.block_used[b] <=> \A i \in DOMAIN F : F[i] # b
      BY <1>0 DEF UsedIffNotFree, F
    <3>. QED BY <1>2, <1>9, <3>2
  <2>4. UsedIffInTable(r)
    <3>1. SUFFICES ASSUME NEW b \in Blocks
                   PROVE  bu[b] <=> \E v \in DOMAIN ts : \E i \in DOMAIN ts[v] : ts[v][i] = b
      BY <1>8 DEF UsedIffInTable
    <3>2. m.block_used[b] <=> \E v \in DOMAIN m.tables : \E i \in DOMAIN m.tables[v] : m.tables[v][i] = b
      BY <1>0 DEF UsedIffInTable
    <3>3. ASSUME NEW v \in DOMAIN m.tables, NEW i \in DOMAIN m.tables[v]
          PROVE  v \in DOMAIN ts /\ i \in DOMAIN ts[v] /\ ts[v][i] = m.tables[v][i]
      BY <1>4, <1>5, <3>3 DEF T
    <3>4. ASSUME NEW j \in DOMAIN P
          PROVE  \E i \in DOMAIN ts[t] : ts[t][i] = P[j]
      BY <1>4, <1>5, <3>4
    <3>5. bu[b] => \E v \in DOMAIN ts : \E i \in DOMAIN ts[v] : ts[v][i] = b
      BY <1>0, <1>5, <1>9, <3>2, <3>3, <3>4
    <3>6. ASSUME NEW v \in DOMAIN ts, NEW i \in DOMAIN ts[v], ts[v][i] = b
          PROVE  bu[b]
      <4>1. CASE i \in DOMAIN m.tables[v] /\ ts[v][i] = m.tables[v][i]
        BY <1>5, <1>9, <3>2, <3>6, <4>1
      <4>2. CASE \E j \in DOMAIN P : ts[v][i] = P[j]
        BY <1>9, <3>6, <4>2
      <4>. QED BY <1>11, <4>1, <4>2
    <3>. QED BY <3>5, <3>6
  <2>. QED BY <2>1, <2>2, <2>3, <2>4 DEF Partitioned
<1>13. IndicesStacked(r)
  <2>1. \A i \in DOMAIN m.free_table_indices : m.free_table_indices[i] # t
    BY <1>0 DEF IndicesStacked, StackedUnused
  <2>2. UnusedStacked(r) /\ StackDistinct(r)
    BY <1>0, <1>5, <1>8 DEF IndicesStacked, UnusedStacked, StackDistinct
  <2>3. StackedUnused(r)
    BY <1>0, <1>5, <1>8, <2>1 DEF IndicesStacked, StackedUnused
  <2>. QED BY <2>2, <2>3 DEF IndicesStacked
<1>. QED BY <1>8, <1>12, <1>13 DEF WellFormed, r

(* ensure_blocks, when it returns.                                         *)
LEMMA EnsureWellFormed ==
  ASSUME NEW m, WellFormed(m), NEW t \in Nat, NEW required \in Nat,
         EnsureReturns(m, t, required)
  PROVE  WellFormed(EnsureBlocks(m, t, required))
<1>1. /\ Len(m.tables[t]) \in Nat /\ Len(m.free_blocks) \in Nat /\ IsTableUsed(m, t)
  <2>1. m.tables[t] \in Seq(Blocks) /\ m.free_blocks \in Seq(Blocks)
    BY FieldTypes DEF WellFormed, EnsureReturns, IsTableUsed
  <2>. QED BY <2>1 DEF EnsureReturns
<1>2. CASE NeedBlocks(m, t, required) <= 0
  BY <1>2 DEF EnsureBlocks
<1>3. CASE ~ NeedBlocks(m, t, required) <= 0
  <2>0. NeedBlocks(m, t, required) \in Int
    BY <1>1 DEF NeedBlocks
  <2>1. NeedBlocks(m, t, required) \in 1 .. Len(m.free_blocks)
    BY <1>1, <1>3, <2>0 DEF EnsureReturns, HasFreeBlocks
  <2>2. WellFormed(GrowTable(m, t, NeedBlocks(m, t, required)))
    BY <1>1, <2>1, GrowWellFormed
  <2>. QED BY <1>3, <2>2 DEF EnsureBlocks
<1>. QED BY <1>2, <1>3

-----------------------------------------------------------------------------
(* What a call leaves alone: a live table other than the one the call is   *)
(* about keeps its blocks, and the table vectors change length only when   *)
(* no index can be reused.                                                 *)
LEMMA AllocateFrame ==
  ASSUME NEW m, WellFormed(m)
  PROVE  LET n == AllocateTable(m)
         IN  /\ \A v \in LiveTables(m) : v \in DOMAIN n.tables /\ n.tables[v] = m.tables[v]
             /\ m.free_table_indices # << >> => Len(n.tables) = Len(m.tables)
             /\ m.free_table_indices = << >> => Len(n.tables) = Len(m.tables) + 1
<1> DEFINE n == AllocateTable(m)
<1>0. WellTyped(m) BY DEF WellFormed
<1>1. CASE m.free_table_indices # << >>
  <2> DEFINE t == AllocatedTable(m)
  <2>1. t \in DOMAIN m.tables /\ m.tables \in Seq(Seq(Blocks)) /\ << >> \in Seq(Blocks)
        /\ ~ m.table_used[t]
    <3>1. Len(m.free_table_indices) \in DOMAIN m.free_table_indices
      BY <1>0, <1>1, FieldTypes
    <3>2. << >> \in Seq(Blocks) OBVIOUS
    <3>. QED BY <1>0, <1>1, <3>1, <3>2, FieldTypes
             DEF WellFormed, IndicesStacked, StackedUnused, AllocatedTable
  <2>2. n.tables = [m.tables EXCEPT ![t] = << >>]
    BY <1>0, <1>1 DEF AllocateTable, WellTyped, ManagerType
  <2> HIDE DEF t, n
  <2>3. Len(n.tables) = Len(m.tables) /\ DOMAIN n.tables = DOMAIN m.tables
        /\ \A v \in DOMAIN m.tables \ {t} : n.tables[v] = m.tables[v]
    BY <2>1, <2>2, ReplaceElement
  <2>. QED BY <1>1, <2>1, <2>3 DEF LiveTables, n
<1>2. CASE m.free_table_indices = << >>
  <2>1. n.tables = Append(m.tables, << >>)
    BY <1>0, <1>2 DEF AllocateTable, WellTyped, ManagerType
  <2> HIDE DEF n
  <2>2. /\ Len(n.tables) = Len(m.tables) + 1 /\ DOMAIN n.tables = 1 .. Len(n.tables)
        /\ \A v \in 1 .. Len(m.tables) : n.tables[v] = m.tables[v]
        /\ Len(m.tables) \in Nat /\ DOMAIN m.tables = 1 .. Len(m.tables)
    BY <1>0, <2>1, FieldTypes, EmptySeq, AppendProperties
  <2>. QED BY <1>2, <2>2 DEF LiveTables, n
<1>. QED BY <1>1, <1>2

(* free_table leaves the other live tables alone.                          *)
LEMMA FreeFrame ==
  ASSUME NEW m, WellFormed(m), NEW t, IsTableUsed(m, t)
  PROVE  LET n == FreeTable(m, t)
         IN  /\ Len(n.tables) = Len(m.tables)
             /\ t \notin LiveTables(n)
             /\ \A v \in DOMAIN m.tables \ {t} : v \in DOMAIN n.tables /\ n.tables[v] = m.tables[v]
<1> DEFINE n == FreeTable(m, t)
<1>0. /\ WellTyped(m) /\ t \in DOMAIN m.tables
      /\ m.tables \in Seq(Seq(Blocks)) /\ << >> \in Seq(Blocks)
      /\ m.table_used \in Seq(BOOLEAN) /\ t \in DOMAIN m.table_used
  BY FieldTypes, EmptySeq DEF WellFormed, IsTableUsed
<1>1. n.tables = [m.tables EXCEPT ![t] = << >>] /\ n.table_used = [m.table_used EXCEPT ![t] = FALSE]
  BY <1>0 DEF FreeTable, WellTyped, ManagerType
<1> HIDE DEF n
<1>2. /\ Len(n.tables) = Len(m.tables) /\ DOMAIN n.tables = DOMAIN m.tables
      /\ \A v \in DOMAIN m.tables \ {t} : n.tables[v] = m.tables[v]
  BY <1>0, <1>1, ReplaceElement
<1>3. n.table_used[t] = FALSE
  BY <1>0, <1>1, SetFlag
<1>. QED BY <1>2, <1>3 DEF LiveTables, n

(* ensure_blocks only appends to its table, and leaves the others alone.   *)
LEMMA EnsureFrame ==
  ASSUME NEW m, WellFormed(m), NEW t, NEW required \in Nat, EnsureReturns(m, t, required)
  PROVE  LET n == EnsureBlocks(m, t, required)
         IN  /\ Len(n.tables) = Len(m.tables)
             /\ \A v \in DOMAIN m.tables :
                  /\ v \in DOMAIN n.tables
                  /\ v # t => n.tables[v] = m.tables[v]
                  /\ \A i \in DOMAIN m.tables[v] :
                       i \in DOMAIN n.tables[v] /\ n.tables[v][i] = m.tables[v][i]
<1> DEFINE n    == EnsureBlocks(m, t, required)
           need == NeedBlocks(m, t, required)
           P    == PoppedBlocks(m, need)
           nt   == m.tables[t] \o P
<1>0. /\ WellTyped(m) /\ t \in DOMAIN m.tables /\ IsTableUsed(m, t)
      /\ m.tables \in Seq(Seq(Blocks)) /\ m.tables[t] \in Seq(Blocks)
      /\ m.free_blocks \in Seq(Blocks)
  BY FieldTypes DEF WellFormed, EnsureReturns, IsTableUsed
<1>1. CASE need <= 0
  BY <1>1 DEF EnsureBlocks
<1>2. CASE ~ need <= 0
  <2>1. need \in Int
    BY <1>0 DEF NeedBlocks
  <2>2. need \in 1 .. Len(m.free_blocks)
    BY <1>0, <1>2, <2>1 DEF EnsureReturns, HasFreeBlocks
  <2>3. P \in Seq(Blocks)
    <3> HIDE DEF need
    <3>. QED BY <2>2, PoppedElements
  <2>4. /\ nt \in Seq(Blocks)
        /\ \A i \in DOMAIN m.tables[t] : i \in DOMAIN nt /\ nt[i] = m.tables[t][i]
    <3> HIDE DEF P
    <3>. QED BY <1>0, <2>3, ConcatElements
  <2>5. n.tables = [m.tables EXCEPT ![t] = nt]
    BY <1>0, <1>2 DEF EnsureBlocks, GrowTable, WellTyped, ManagerType
  <2> HIDE DEF n, nt
  <2>6. /\ Len(n.tables) = Len(m.tables) /\ DOMAIN n.tables = DOMAIN m.tables
        /\ n.tables[t] = nt
        /\ \A v \in DOMAIN m.tables \ {t} : n.tables[v] = m.tables[v]
    BY <1>0, <2>4, <2>5, ReplaceElement
  <2>. QED BY <2>4, <2>6 DEF n
<1>. QED BY <1>1, <1>2

-----------------------------------------------------------------------------
(* What a call does to the set of live tables.                             *)

(* allocate_table makes one more table live, an empty one.                 *)
LEMMA AllocateLive ==
  ASSUME NEW m, WellFormed(m)
  PROVE  LET n == AllocateTable(m)
             t == AllocatedTable(m)
         IN  /\ LiveTables(n) = LiveTables(m) \cup {t}
             /\ n.tables[t] = << >>
             /\ n.free_blocks = m.free_blocks
<1> DEFINE n == AllocateTable(m)
           t == AllocatedTable(m)
<1>0. WellTyped(m) BY DEF WellFormed
<1>1. CASE m.free_table_indices # << >>
  <2>1. t \in DOMAIN m.tables /\ ~ m.table_used[t]
    <3>1. Len(m.free_table_indices) \in DOMAIN m.free_table_indices
      BY <1>0, <1>1, FieldTypes
    <3>. QED BY <1>1, <3>1 DEF WellFormed, IndicesStacked, StackedUnused, AllocatedTable
  <2>2. /\ n.tables = [m.tables EXCEPT ![t] = << >>]
        /\ n.table_used = [m.table_used EXCEPT ![t] = TRUE]
        /\ n.free_blocks = m.free_blocks
    BY <1>0, <1>1 DEF AllocateTable, WellTyped, ManagerType
  <2>3. /\ m.tables \in Seq(Seq(Blocks)) /\ << >> \in Seq(Blocks)
        /\ m.table_used \in Seq(BOOLEAN) /\ DOMAIN m.table_used = DOMAIN m.tables
    BY <1>0, FieldTypes, EmptySeq
  <2> HIDE DEF n, t
  <2>4. DOMAIN n.tables = DOMAIN m.tables /\ n.tables[t] = << >>
    BY <2>1, <2>2, <2>3, ReplaceElement
  <2>5. /\ n.table_used[t]
        /\ \A v \in DOMAIN m.tables \ {t} : n.table_used[v] = m.table_used[v]
    BY <2>1, <2>2, <2>3, SetFlag
  <2>. QED BY <2>1, <2>2, <2>4, <2>5 DEF LiveTables, n, t
<1>2. CASE m.free_table_indices = << >>
  <2>1. /\ n.tables = Append(m.tables, << >>)
        /\ n.table_used = Append(m.table_used, TRUE)
        /\ n.free_blocks = m.free_blocks
        /\ t = Len(m.tables) + 1
    BY <1>0, <1>2 DEF AllocateTable, AllocatedTable, WellTyped, ManagerType
  <2>2. /\ m.tables \in Seq(Seq(Blocks)) /\ << >> \in Seq(Blocks)
        /\ m.table_used \in Seq(BOOLEAN) /\ Len(m.table_used) = Len(m.tables)
        /\ DOMAIN m.tables = 1 .. Len(m.tables) /\ Len(m.tables) \in Nat
    BY <1>0, FieldTypes, EmptySeq
  <2> HIDE DEF n, t
  <2>3. DOMAIN n.tables = 1 .. t /\ n.tables[t] = << >>
    BY <2>1, <2>2, AppendProperties
  <2>4. /\ n.table_used[t]
        /\ \A v \in DOMAIN m.tables : n.table_used[v] = m.table_used[v]
    <3> DEFINE tu == Append(m.table_used, TRUE)
    <3>1. TRUE \in BOOLEAN
      OBVIOUS
    <3>2. /\ tu[Len(m.table_used) + 1] = TRUE
          /\ \A v \in 1 .. Len(m.table_used) : tu[v] = m.table_used[v]
      BY <2>2, <3>1, AppendProperties, ZenonT(40)
    <3> HIDE DEF tu
    <3>3. n.table_used = tu
      BY <2>1 DEF tu
    <3>. QED BY <2>1, <2>2, <3>2, <3>3
  <2>5. DOMAIN n.tables = DOMAIN m.tables \cup {t}
    BY <2>1, <2>2, <2>3
  <2>. QED BY <2>1, <2>3, <2>4, <2>5 DEF LiveTables, n, t
<1>. QED BY <1>1, <1>2

(* free_table ends the life of its table, and of no other.                 *)
LEMMA FreeLive ==
  ASSUME NEW m, WellFormed(m), NEW t, IsTableUsed(m, t)
  PROVE  /\ LiveTables(FreeTable(m, t)) = LiveTables(m) \ {t}
         /\ FreeTable(m, t).free_blocks = m.free_blocks \o m.tables[t]
<1> DEFINE n == FreeTable(m, t)
<1>0. /\ WellTyped(m) /\ t \in DOMAIN m.tables
      /\ m.tables \in Seq(Seq(Blocks)) /\ << >> \in Seq(Blocks)
      /\ m.table_used \in Seq(BOOLEAN) /\ DOMAIN m.table_used = DOMAIN m.tables
  BY FieldTypes, EmptySeq DEF WellFormed, IsTableUsed
<1>1. /\ n.tables = [m.tables EXCEPT ![t] = << >>]
      /\ n.table_used = [m.table_used EXCEPT ![t] = FALSE]
      /\ n.free_blocks = m.free_blocks \o m.tables[t]
  BY <1>0 DEF FreeTable, WellTyped, ManagerType
<1> HIDE DEF n
<1>2. DOMAIN n.tables = DOMAIN m.tables
  BY <1>0, <1>1, ReplaceElement
<1>3. /\ ~ n.table_used[t]
      /\ \A v \in DOMAIN m.tables \ {t} : n.table_used[v] = m.table_used[v]
  BY <1>0, <1>1, SetFlag
<1>. QED BY <1>0, <1>1, <1>2, <1>3 DEF LiveTables, n

(* ensure_blocks changes no table's life, and leaves its table with the    *)
(* blocks it asked for, or those it had if they were more.                 *)
LEMMA EnsureLive ==
  ASSUME NEW m, WellFormed(m), NEW t, NEW required \in Nat, EnsureReturns(m, t, required)
  PROVE  LET n == EnsureBlocks(m, t, required)
         IN  /\ LiveTables(n) = LiveTables(m)
             /\ Len(n.tables[t]) = IF Len(m.tables[t]) >= required THEN Len(m.tables[t]) ELSE required
<1> DEFINE n    == EnsureBlocks(m, t, required)
           need == NeedBlocks(m, t, required)
           P    == PoppedBlocks(m, need)
           nt   == m.tables[t] \o P
<1>0. /\ WellTyped(m) /\ t \in DOMAIN m.tables /\ IsTableUsed(m, t)
      /\ m.tables \in Seq(Seq(Blocks)) /\ m.tables[t] \in Seq(Blocks)
      /\ m.free_blocks \in Seq(Blocks)
  BY FieldTypes DEF WellFormed, EnsureReturns, IsTableUsed
<1>a. need = required - Len(m.tables[t]) /\ Len(m.tables[t]) \in Nat
  BY <1>0 DEF NeedBlocks
<1>1. CASE need <= 0
  BY <1>0, <1>a, <1>1 DEF EnsureBlocks
<1>2. CASE ~ need <= 0
  <2>0. need \in Int
    BY <1>a
  <2>1. need \in 1 .. Len(m.free_blocks)
    BY <1>0, <1>2, <2>0 DEF EnsureReturns, HasFreeBlocks
  <2>2. P \in Seq(Blocks) /\ Len(P) = need
    <3> HIDE DEF need
    <3>. QED BY <2>1, PoppedElements
  <2>3. nt \in Seq(Blocks) /\ Len(nt) = Len(m.tables[t]) + need
    <3> HIDE DEF P
    <3>. QED BY ZenonT(60), <1>0, <2>2, ConcatProperties
  <2>4. n.tables = [m.tables EXCEPT ![t] = nt]
    BY <1>0, <1>2 DEF EnsureBlocks, GrowTable, WellTyped, ManagerType
  <2>7. n.table_used = m.table_used
    BY <1>0, <1>2 DEF EnsureBlocks, GrowTable, WellTyped, ManagerType
  <2> HIDE DEF n, nt, need
  <2>5. DOMAIN n.tables = DOMAIN m.tables /\ n.tables[t] = nt
    BY <1>0, <2>3, <2>4, ReplaceElement
  <2>6. Len(n.tables[t]) = required /\ ~ Len(m.tables[t]) >= required
    BY <1>a, <1>2, <2>1, <2>3, <2>5
  <2>. QED BY <2>4, <2>5, <2>6, <2>7 DEF LiveTables, n
<1>. QED BY <1>1, <1>2

-----------------------------------------------------------------------------
(* A slot number determines its block and its offset in the block.         *)
LEMMA SlotUnique ==
  ASSUME NEW P \in Nat \ {0}, NEW b \in Nat, NEW c \in Nat,
         NEW o \in 0 .. (P - 1), NEW q \in 0 .. (P - 1), b * P + o = c * P + q
  PROVE  b = c /\ o = q
<1>1. ASSUME NEW x \in Nat, NEW y \in Nat, x < y  PROVE x * P + P <= y * P
  <2>1. y = x + 1 + (y - x - 1) /\ y - x - 1 \in Nat
    BY <1>1
  <2>2. \A d \in Nat : (x + 1 + d) * P = x * P + P + d * P /\ d * P >= 0
    OBVIOUS
  <2>. QED BY <2>1, <2>2
<1>2. b * P \in Nat /\ c * P \in Nat
  OBVIOUS
<1>3. ~ b < c /\ ~ c < b
  BY <1>1, <1>2
<1>4. b = c
  BY <1>3
<1>. QED BY <1>2, <1>4

(* A logical token index is its page and its offset in the page.           *)
LEMMA PageAndOffset ==
  ASSUME NEW P \in Nat \ {0}, NEW i \in Nat
  PROVE  i \div P \in Nat /\ i % P \in 0 .. (P - 1) /\ i = (P * (i \div P)) + (i % P)
<1>1. i \div P \in Nat /\ i % P \in 0 .. (P - 1)
  BY SMTT(30)
<1>2. i = (P * (i \div P)) + (i % P)
  BY SMTT(30)
<1>. QED BY <1>1, <1>2

(* physical_token_index is injective over live tables and stays in the     *)
(* pool of num_blocks pages.                                               *)
LEMMA PhysicalInjective ==
  ASSUME NEW m, WellFormed(m), NEW P \in Nat \ {0},
         NEW t \in LiveTables(m), NEW u \in LiveTables(m), NEW i \in Nat, NEW j \in Nat,
         IsMapped(m, t, i, P), IsMapped(m, u, j, P)
  PROVE  /\ PhysicalTokenIndex(m, t, i, P) \in 0 .. (NumBlocks * P - 1)
         /\ PhysicalTokenIndex(m, t, i, P) = PhysicalTokenIndex(m, u, j, P) => t = u /\ i = j
<1> DEFINE pi == i \div P
           pj == j \div P
<1>1. /\ pi \in Nat /\ i % P \in 0 .. (P - 1) /\ i = P * pi + (i % P)
      /\ pj \in Nat /\ j % P \in 0 .. (P - 1) /\ j = P * pj + (j % P)
  BY PageAndOffset
<1>2. /\ pi + 1 \in DOMAIN m.tables[t] /\ m.tables[t][pi + 1] \in Blocks
      /\ pj + 1 \in DOMAIN m.tables[u] /\ m.tables[u][pj + 1] \in Blocks
  <2>1. m.tables[t] \in Seq(Blocks) /\ m.tables[u] \in Seq(Blocks)
    BY FieldTypes DEF WellFormed, LiveTables
  <2>2. pi < Len(m.tables[t]) /\ pj < Len(m.tables[u])
    BY DEF IsMapped
  <2> HIDE DEF pi, pj
  <2>3. pi + 1 \in 1 .. Len(m.tables[t]) /\ pj + 1 \in 1 .. Len(m.tables[u])
    BY <1>1, <2>1, <2>2, SMTT(40)
  <2>. QED BY <2>1, <2>3
<1> DEFINE b == m.tables[t][pi + 1]
           c == m.tables[u][pj + 1]
           o == i % P
           q == j % P
<1>3. PhysicalTokenIndex(m, t, i, P) = b * P + o /\ PhysicalTokenIndex(m, u, j, P) = c * P + q
  BY DEF PhysicalTokenIndex
<1>4. /\ b \in Nat /\ b <= NumBlocks - 1 /\ c \in Nat
      /\ o \in 0 .. (P - 1) /\ q \in 0 .. (P - 1)
  BY <1>1, <1>2 DEF Blocks
<1>5. ASSUME b * P + o = c * P + q  PROVE t = u /\ i = j
  <2> HIDE DEF b, c, o, q
  <2>1. b = c /\ o = q
    BY <1>4, <1>5, SlotUnique
  <2>2. t = u /\ pi + 1 = pj + 1
    BY <1>2, <2>1 DEF b, c, WellFormed, Partitioned, TablesDistinct, LiveTables
  <2> HIDE DEF pi, pj
  <2>3. pi = pj
    BY <1>1, <2>2
  <2>. QED BY <1>1, <2>1, <2>2, <2>3 DEF o, q
<1>6. b * P + o \in 0 .. (NumBlocks * P - 1)
  <2> HIDE DEF b, o
  <2>1. NumBlocks = b + 1 + (NumBlocks - b - 1) /\ NumBlocks - b - 1 \in Nat
    BY <1>4
  <2>2. \A d \in Nat : (b + 1 + d) * P = b * P + P + d * P /\ d * P >= 0
    BY <1>4
  <2>3. NumBlocks * P >= b * P + P /\ NumBlocks * P \in Nat /\ b * P \in Nat
    BY <1>4, <2>1, <2>2
  <2>. QED BY <1>4, <2>3
<1>. QED BY <1>3, <1>5, <1>6

-----------------------------------------------------------------------------
(* How many blocks a sequence needs.                                       *)

(* A longer sequence of tokens needs no fewer blocks.                      *)
LEMMA RequiredMonotone ==
  ASSUME NEW P \in Nat \ {0}, NEW i \in Nat, NEW j \in Nat, i <= j
  PROVE  /\ NumRequiredBlocks(i, P) \in Nat
         /\ NumRequiredBlocks(i, P) <= NumRequiredBlocks(j, P)
<1> DEFINE a == (i + P - 1) \div P
           b == (j + P - 1) \div P
<1>1. /\ a \in Nat /\ a * P <= i + P - 1
      /\ b \in Nat /\ j + P - 1 < b * P + P
  BY SMTT(40)
<1>2. ASSUME b < a PROVE FALSE
  <2>1. a = b + 1 + (a - b - 1) /\ a - b - 1 \in Nat
    BY <1>1, <1>2
  <2> HIDE DEF a, b
  <2>2. \A d \in Nat : (b + 1 + d) * P = b * P + P + d * P /\ d * P >= 0
    BY <1>1
  <2>3. a * P >= b * P + P /\ a * P \in Nat /\ b * P \in Nat
    BY <1>1, <2>1, <2>2
  <2>. QED BY <1>1, <2>3
<1>3. a <= b
  BY <1>1, <1>2
<1> HIDE DEF a, b
<1>. QED BY <1>1, <1>3 DEF NumRequiredBlocks, a, b

(* A token's page is one of those its sequence needs.                      *)
LEMMA RequiredCovers ==
  ASSUME NEW P \in Nat \ {0}, NEW n \in Nat, NEW i \in 0 .. (n - 1)
  PROVE  i \div P \in Nat /\ i \div P < NumRequiredBlocks(n, P)
<1> DEFINE a == i \div P
           b == (n + P - 1) \div P
<1>1. /\ a \in Nat /\ a * P <= i
      /\ b \in Nat /\ n + P - 1 < b * P + P
  BY SMTT(40)
<1>2. ASSUME b <= a PROVE FALSE
  <2>1. a = b + (a - b) /\ a - b \in Nat
    BY <1>1, <1>2
  <2> HIDE DEF a, b
  <2>2. \A d \in Nat : (b + d) * P = b * P + d * P /\ d * P >= 0
    BY <1>1
  <2>3. a * P >= b * P /\ a * P \in Nat /\ b * P \in Nat
    BY <1>1, <2>1, <2>2
  <2>. QED BY <1>1, <2>3
<1>3. a < b
  BY <1>1, <1>2
<1> HIDE DEF a, b
<1>. QED BY <1>1, <1>3 DEF NumRequiredBlocks, a, b

-----------------------------------------------------------------------------
(* How many blocks are free.                                              *)

(* The blocks a sequence lists.                                            *)
BlocksOf(s) == {s[i] : i \in DOMAIN s}

(* As many as the sequence is long, when none is listed twice.             *)
LEMMA BlocksCounted ==
  ASSUME NEW s \in Seq(Blocks), \A i, j \in DOMAIN s : s[i] = s[j] => i = j
  PROVE  IsFiniteSet(BlocksOf(s)) /\ Cardinality(BlocksOf(s)) = Len(s)
<1>1. DOMAIN s = 1 .. Len(s) /\ Len(s) \in Nat
  OBVIOUS
<1>2. s \in Surjection(1 .. Len(s), BlocksOf(s)) /\ s \in Injection(1 .. Len(s), BlocksOf(s))
  <2>1. s \in [1 .. Len(s) -> BlocksOf(s)]
    BY <1>1 DEF BlocksOf
  <2>. QED BY <1>1, <2>1 DEF Surjection, Injection, BlocksOf, IsInjective
<1>3. IsFiniteSet(1 .. Len(s)) /\ Cardinality(1 .. Len(s)) = Len(s)
  BY <1>1, FS_Interval
<1>. QED BY <1>2, <1>3, FS_Surjection

(* What no live table owns is what the free stack lists.                   *)
LEMMA FreeIsUnowned ==
  ASSUME NEW m, WellFormed(m)
  PROVE  Blocks \ UNION {BlocksOf(m.tables[h]) : h \in LiveTables(m)} = BlocksOf(m.free_blocks)
<1>1. m.free_blocks \in Seq(Blocks)
  BY FieldTypes DEF WellFormed
<1>2. \A t \in DOMAIN m.tables : t \in LiveTables(m) \/ m.tables[t] = << >>
  BY DEF WellFormed, IndicesStacked, UnusedStacked, StackedUnused, LiveTables
<1>3. \A b \in Blocks :
        (\E h \in LiveTables(m) : b \in BlocksOf(m.tables[h])) <=> m.block_used[b]
  <2>1. LiveTables(m) \subseteq DOMAIN m.tables
    BY DEF LiveTables
  <2>2. \A t \in DOMAIN m.tables : DOMAIN m.tables[t] # {} => t \in LiveTables(m)
    BY <1>2
  <2>. QED BY <2>1, <2>2 DEF BlocksOf, WellFormed, Partitioned, UsedIffInTable
<1>4. \A b \in Blocks : m.block_used[b] <=> b \notin BlocksOf(m.free_blocks)
  BY DEF BlocksOf, WellFormed, Partitioned, UsedIffNotFree
<1>5. BlocksOf(m.free_blocks) \subseteq Blocks
  BY <1>1 DEF BlocksOf
<1>. QED BY <1>3, <1>4, <1>5

(* The free blocks are as many as the free stack is long.                  *)
LEMMA FreeCounted ==
  ASSUME NEW m, WellFormed(m)
  PROVE  Cardinality(BlocksOf(m.free_blocks)) = Len(m.free_blocks)
BY FieldTypes, BlocksCounted DEF WellFormed, Partitioned, FreeDistinct

(* The blocks of a table are as many as the table is long.                 *)
LEMMA TableCounted ==
  ASSUME NEW m, WellFormed(m), NEW t \in LiveTables(m)
  PROVE  Cardinality(BlocksOf(m.tables[t])) = Len(m.tables[t]) /\ Len(m.tables[t]) \in Nat
<1>1. t \in DOMAIN m.tables /\ m.tables[t] \in Seq(Blocks)
  BY FieldTypes DEF WellFormed, LiveTables
<1>2. \A i, j \in DOMAIN m.tables[t] : m.tables[t][i] = m.tables[t][j] => i = j
  BY <1>1 DEF WellFormed, Partitioned, TablesDistinct
<1>. QED BY <1>1, <1>2, BlocksCounted

(* With one live table at most, the free blocks are those it lacks.        *)
LEMMA FreeWithOne ==
  ASSUME NEW m, WellFormed(m), NEW t, LiveTables(m) \subseteq {t}
  PROVE  Len(m.free_blocks) = NumBlocks - (IF t \in LiveTables(m) THEN Len(m.tables[t]) ELSE 0)
<1>1. IsFiniteSet(Blocks) /\ Cardinality(Blocks) = NumBlocks
  BY FS_Interval DEF Blocks
<1>2. /\ BlocksOf(m.free_blocks) \subseteq Blocks
      /\ m.free_blocks \in Seq(Blocks)
      /\ Cardinality(BlocksOf(m.free_blocks)) = Len(m.free_blocks)
  BY FreeIsUnowned, FreeCounted, FieldTypes DEF WellFormed
<1>3. CASE t \in LiveTables(m)
  <2>1. BlocksOf(m.free_blocks) = Blocks \ BlocksOf(m.tables[t])
    BY <1>3, FreeIsUnowned
  <2>2. Cardinality(BlocksOf(m.tables[t])) = Len(m.tables[t]) /\ Len(m.tables[t]) \in Nat
    BY <1>3, TableCounted
  <2>3. BlocksOf(m.tables[t]) \subseteq Blocks
    BY <1>3, FieldTypes DEF WellFormed, LiveTables, BlocksOf
  <2>4. Cardinality(Blocks \ BlocksOf(m.tables[t])) = Cardinality(Blocks) - Cardinality(BlocksOf(m.tables[t]))
    <3>1. Blocks \cap BlocksOf(m.tables[t]) = BlocksOf(m.tables[t])
      BY <2>3
    <3>. QED BY <1>1, <3>1, FS_Difference
  <2>. QED BY <1>1, <1>2, <1>3, <2>1, <2>2, <2>4
<1>4. CASE t \notin LiveTables(m)
  <2>1. BlocksOf(m.free_blocks) = Blocks
    BY <1>4, FreeIsUnowned
  <2>. QED BY <1>1, <1>2, <1>4, <2>1
<1>. QED BY <1>3, <1>4

-----------------------------------------------------------------------------
(* The blocks of a request.                                                *)

(* The tables of m that live in w too have only grown.                     *)
KeepsTables(m, w) ==
  \A v \in LiveTables(m) \cap LiveTables(w) :
    \A i \in DOMAIN m.tables[v] : i \in DOMAIN w.tables[v] /\ w.tables[v][i] = m.tables[v][i]

(* A token keeps its slot while the table only grows.                      *)
LEMMA SlotKept ==
  ASSUME NEW m, WellFormed(m), NEW w, WellFormed(w), KeepsTables(m, w),
         NEW v \in LiveTables(m), v \in LiveTables(w),
         NEW P \in Nat \ {0}, NEW i \in Nat, IsMapped(m, v, i, P)
  PROVE  /\ IsMapped(w, v, i, P)
         /\ PhysicalTokenIndex(w, v, i, P) = PhysicalTokenIndex(m, v, i, P)
<1> DEFINE p == i \div P
<1>1. p \in Nat
  BY PageAndOffset
<1>2. /\ m.tables[v] \in Seq(Blocks) /\ w.tables[v] \in Seq(Blocks)
      /\ IsTableUsed(w, v)
  BY FieldTypes DEF WellFormed, LiveTables, IsTableUsed
<1>3. p < Len(m.tables[v])
  BY DEF IsMapped
<1> HIDE DEF p
<1>4. p + 1 \in DOMAIN m.tables[v]
  BY <1>1, <1>2, <1>3
<1>5. p + 1 \in DOMAIN w.tables[v] /\ w.tables[v][p + 1] = m.tables[v][p + 1]
  BY <1>4 DEF KeepsTables
<1>6. p < Len(w.tables[v])
  BY <1>1, <1>2, <1>5
<1>. QED BY <1>2, <1>5, <1>6 DEF IsMapped, PhysicalTokenIndex, p

-----------------------------------------------------------------------------
(* A request that has no table takes one, an empty one.                    *)
LEMMA TakesTable ==
  ASSUME NEW m, WellFormed(m), NEW q \in RequestType,
         q.table # NoTable => IsTableUsed(m, q.table)
  PROVE  LET w == WithTable(m, q)
             t == TableFor(m, q)
         IN  /\ WellFormed(w) /\ t \in Nat \ {0} /\ IsTableUsed(w, t)
             /\ LiveTables(w) = LiveTables(m) \cup {t}
             /\ q.table = NoTable => t \notin LiveTables(m) /\ w.tables[t] = << >>
             /\ q.table # NoTable => t = q.table /\ w.tables[t] = m.tables[t]
             /\ \A v \in LiveTables(m) : w.tables[v] = m.tables[v]
<1>1. CASE q.table = NoTable
  <2>1. /\ WithTable(m, q) = AllocateTable(m) /\ TableFor(m, q) = AllocatedTable(m)
    BY <1>1 DEF WithTable, TableFor
  <2>2. AllocatedTable(m) \in LiveTables(AllocateTable(m))
    BY AllocateLive
  <2>. QED
    BY <1>1, <2>1, <2>2, AllocateFresh, AllocateWellFormed, AllocateLive, AllocateFrame
       DEF LiveTables, IsTableUsed
<1>2. CASE q.table # NoTable
  BY <1>2 DEF WithTable, TableFor, LiveTables, IsTableUsed, NoTable, RequestType
<1>. QED BY <1>1, <1>2

(* ensure_blocks of a request.                                             *)
LEMMA TakesBlocks ==
  ASSUME NEW m, WellFormed(m), NEW q \in RequestType,
         q.table # NoTable => IsTableUsed(m, q.table),
         NEW n \in Nat, NEW P \in Nat \ {0}, BlocksSuffice(m, q, n, P)
  PROVE  LET w == WithBlocks(m, q, n, P)
             t == TableFor(m, q)
             had == IF q.table = NoTable THEN 0 ELSE Len(m.tables[t])
         IN  /\ WellFormed(w) /\ t \in Nat \ {0}
             /\ LiveTables(w) = LiveTables(m) \cup {t}
             /\ q.table = NoTable => t \notin LiveTables(m)
             /\ Len(w.tables[t]) = IF had >= NumRequiredBlocks(n, P)
                                   THEN had ELSE NumRequiredBlocks(n, P)
             /\ \A v \in LiveTables(m) \ {t} : w.tables[v] = m.tables[v]
             /\ KeepsTables(m, w)
<1> DEFINE x == WithTable(m, q)
           t == TableFor(m, q)
           r == NumRequiredBlocks(n, P)
           w == EnsureBlocks(x, t, r)
<1>1. w = WithBlocks(m, q, n, P) /\ EnsureReturns(x, t, r)
  BY DEF WithBlocks, BlocksSuffice
<1>2. /\ WellFormed(x) /\ t \in Nat \ {0} /\ IsTableUsed(x, t)
      /\ LiveTables(x) = LiveTables(m) \cup {t}
      /\ q.table = NoTable => t \notin LiveTables(m) /\ x.tables[t] = << >>
      /\ q.table # NoTable => t = q.table /\ x.tables[t] = m.tables[t]
      /\ \A v \in LiveTables(m) : x.tables[v] = m.tables[v]
  BY TakesTable
<1>3. r \in Nat
  BY RequiredMonotone
<1> HIDE DEF x, t, r, w
<1>4. WellFormed(w)
  BY <1>1, <1>2, <1>3, EnsureWellFormed DEF w
<1>5. /\ LiveTables(w) = LiveTables(x)
      /\ Len(w.tables[t]) = IF Len(x.tables[t]) >= r THEN Len(x.tables[t]) ELSE r
  BY <1>1, <1>2, <1>3, EnsureLive DEF w
<1>6. \A v \in DOMAIN x.tables :
        /\ v # t => w.tables[v] = x.tables[v]
        /\ \A i \in DOMAIN x.tables[v] : i \in DOMAIN w.tables[v] /\ w.tables[v][i] = x.tables[v][i]
  BY <1>1, <1>2, <1>3, EnsureFrame DEF w
<1>7. \A v \in LiveTables(m) : v \in DOMAIN x.tables
  BY <1>2 DEF LiveTables
<1>8. Len(x.tables[t]) = IF q.table = NoTable THEN 0 ELSE Len(m.tables[t])
  BY <1>2
<1>9. KeepsTables(m, w)
  BY <1>2, <1>6, <1>7 DEF KeepsTables
<1>. QED BY <1>1, <1>2, <1>4, <1>5, <1>6, <1>7, <1>8, <1>9 DEF w, x, t, r

(* When the blocks do not suffice, the live tables are as they were.       *)
LEMMA RollsBack ==
  ASSUME NEW m, WellFormed(m), NEW q \in RequestType
  PROVE  /\ WellFormed(RolledBack(m, q))
         /\ LiveTables(RolledBack(m, q)) = LiveTables(m)
         /\ \A v \in LiveTables(m) : RolledBack(m, q).tables[v] = m.tables[v]
<1>1. CASE q.table = NoTable
  <2> DEFINE n == AllocateTable(m)
             t == AllocatedTable(m)
  <2>1. /\ WellFormed(n) /\ t \in Nat \ {0} /\ t \notin LiveTables(m)
        /\ LiveTables(n) = LiveTables(m) \cup {t}
        /\ \A v \in LiveTables(m) : v \in DOMAIN n.tables /\ n.tables[v] = m.tables[v]
    BY AllocateWellFormed, AllocateFresh, AllocateLive, AllocateFrame DEF LiveTables, IsTableUsed
  <2>2. IsTableUsed(n, t)
    <3>1. t \in LiveTables(n)
      BY <2>1
    <3>. QED BY <3>1 DEF LiveTables, IsTableUsed
  <2>3. RolledBack(m, q) = FreeTable(n, t)
    BY <1>1 DEF RolledBack
  <2> HIDE DEF n, t
  <2>4. LiveTables(FreeTable(n, t)) = LiveTables(n) \ {t}
    BY <2>1, <2>2, FreeLive
  <2>5. /\ WellFormed(FreeTable(n, t))
        /\ \A v \in DOMAIN n.tables \ {t} : FreeTable(n, t).tables[v] = n.tables[v]
    BY <2>1, <2>2, FreeWellFormed, FreeFrame
  <2>. QED BY <2>1, <2>3, <2>4, <2>5
<1>2. CASE q.table # NoTable
  BY <1>2 DEF RolledBack
<1>. QED BY <1>1, <1>2

(* release_blocks.                                                         *)
LEMMA GivesBack ==
  ASSUME NEW m, WellFormed(m), NEW q \in RequestType,
         q.table # NoTable => IsTableUsed(m, q.table)
  PROVE  /\ WellFormed(WithoutTable(m, q))
         /\ LiveTables(WithoutTable(m, q)) = LiveTables(m) \ {q.table}
         /\ \A v \in LiveTables(m) \ {q.table} : WithoutTable(m, q).tables[v] = m.tables[v]
<1>1. CASE q.table = NoTable
  <2>1. DOMAIN m.tables = 1 .. Len(m.tables)
    BY FieldTypes DEF WellFormed
  <2>2. NoTable \notin LiveTables(m)
    BY <2>1 DEF LiveTables, NoTable
  <2>. QED BY <1>1, <2>2 DEF WithoutTable
<1>2. CASE q.table # NoTable
  <2>1. IsTableUsed(m, q.table) /\ q.table \in Nat /\ WithoutTable(m, q) = FreeTable(m, q.table)
    BY <1>2 DEF WithoutTable, RequestType
  <2>2. \A v \in LiveTables(m) : v \in DOMAIN m.tables
    BY DEF LiveTables
  <2>3. LiveTables(FreeTable(m, q.table)) = LiveTables(m) \ {q.table}
    BY <2>1, FreeLive
  <2>4. /\ WellFormed(FreeTable(m, q.table))
        /\ \A v \in DOMAIN m.tables \ {q.table} : FreeTable(m, q.table).tables[v] = m.tables[v]
    BY <2>1, FreeWellFormed, FreeFrame
  <2>. QED BY <2>1, <2>2, <2>3, <2>4
<1>. QED BY <1>1, <1>2
=============================================================================
