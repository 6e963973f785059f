-------------------------- MODULE BlockTableProofs --------------------------
(***************************************************************************)
(* The block-table manager keeps its blocks and indices in order under     *)
(* every sequence of calls, for every pool, page size and bound, and does  *)
(* what the abstract block pool promises.                                  *)
(***************************************************************************)
EXTENDS BlockTable, BlockTableOpsProofs

USE NumBlocksAssumption, PageSizeAssumption, BoundsAssumption

(* The number of blocks a length needs is a natural.                       *)
LEMMA RequiredIsNat ==
  ASSUME NEW n \in 0 .. MaxTokens
  PROVE  NumRequiredBlocks(n, PageSize) \in Nat
BY DEF NumRequiredBlocks

(* The constructor establishes the invariant.                              *)
LEMMA InitInv == Init => Inv
BY EmptyWellFormed
   DEF Init, Inv, TypeOK, BlockPartition, IndexStack, WellFormed, Reply, Outcomes, NoTable

(* A reply is well typed whatever the call.                                *)
LEMMA ReplyType ==
  ASSUME NEW t \in Nat, NEW n \in Nat, NEW o \in Outcomes
  PROVE  Reply(t, n, o) \in [table : Nat, blocks : Nat, outcome : Outcomes]
BY DEF Reply

(* One call keeps the invariant.                                           *)
LEMMA StepInv == Inv /\ [Next]_vars => Inv'
<1> SUFFICES ASSUME Inv, [Next]_vars
             PROVE  Inv'
  OBVIOUS
<1>0. WellFormed(bt) /\ \A t \in TableIndices : t \in Nat
  BY DEF Inv, TypeOK, BlockPartition, IndexStack, WellFormed, TableIndices
<1>a. "ok" \in Outcomes /\ "bad table" \in Outcomes /\ "exhausted" \in Outcomes
  BY DEF Outcomes
<1>. SUFFICES WellFormed(bt') /\ reply' \in [table : Nat, blocks : Nat, outcome : Outcomes]
  BY DEF Inv, TypeOK, BlockPartition, IndexStack, WellFormed
<1>1. CASE Allocate
  BY <1>0, <1>1, <1>a, AllocateWellFormed, AllocateFresh, ReplyType DEF Allocate
<1>2. ASSUME NEW t \in TableIndices, Free(t)
      PROVE  WellFormed(bt') /\ reply' \in [table : Nat, blocks : Nat, outcome : Outcomes]
  BY <1>0, <1>2, <1>a, FreeWellFormed, ReplyType DEF Free, FreeTableReturns
<1>3. ASSUME NEW t \in TableIndices, FreeThrows(t)
      PROVE  WellFormed(bt') /\ reply' \in [table : Nat, blocks : Nat, outcome : Outcomes]
  BY <1>0, <1>3, <1>a, ReplyType DEF FreeThrows
<1>4. ASSUME NEW t \in TableIndices, NEW n \in 0 .. MaxTokens, Ensure(t, n)
      PROVE  WellFormed(bt') /\ reply' \in [table : Nat, blocks : Nat, outcome : Outcomes]
  BY <1>0, <1>4, <1>a, RequiredIsNat, EnsureWellFormed, ReplyType DEF Ensure
<1>5. ASSUME NEW t \in TableIndices, NEW n \in 0 .. MaxTokens, EnsureFails(t, n)
      PROVE  WellFormed(bt') /\ reply' \in [table : Nat, blocks : Nat, outcome : Outcomes]
  BY <1>0, <1>5, <1>a, RequiredIsNat, ReplyType DEF EnsureFails
<1>6. CASE Reset
  BY <1>0, <1>6, <1>a, EmptyWellFormed, ReplyType DEF Reset, NoTable
<1>7. CASE UNCHANGED vars
  BY <1>0, <1>7 DEF vars, Inv, TypeOK
<1>. QED BY <1>1, <1>2, <1>3, <1>4, <1>5, <1>6, <1>7 DEF Next

(* The invariant holds in every reachable state of the manager.            *)
THEOREM SpecInv == Spec => []Inv
BY InitInv, StepInv, PTL DEF Spec

(* Types, the partition of the blocks and the index stack, for every pool. *)
THEOREM TypeCorrect == Spec => []TypeOK
<1>1. Inv => TypeOK
  BY DEF Inv
<1>. QED BY SpecInv, <1>1, PTL

(* Every block is free or in exactly one place of one table, always.       *)
THEOREM BlocksPartitioned == Spec => []BlockPartition
<1>1. Inv => BlockPartition
  BY DEF Inv
<1>. QED BY SpecInv, <1>1, PTL

(* The stack lists exactly the unused tables, each once and empty.         *)
THEOREM IndicesOnStack == Spec => []IndexStack
<1>1. Inv => IndexStack
  BY DEF Inv
<1>. QED BY SpecInv, <1>1, PTL

(* Tokens of live tables never share a slot, and slots stay in the pool.   *)
THEOREM SlotsNeverShared == Spec => []SlotsDisjoint
<1>1. Inv => SlotsDisjoint
  <2>1. SUFFICES ASSUME Inv, NEW t \in LiveTables(bt), NEW u \in LiveTables(bt),
                        NEW i \in 0 .. MaxTokens, NEW j \in 0 .. MaxTokens,
                        IsMapped(bt, t, i, PageSize), IsMapped(bt, u, j, PageSize)
                 PROVE  /\ PhysicalTokenIndex(bt, t, i, PageSize) \in 0 .. (NumBlocks * PageSize - 1)
                        /\ PhysicalTokenIndex(bt, t, i, PageSize) = PhysicalTokenIndex(bt, u, j, PageSize)
                             => t = u /\ i = j
    BY DEF SlotsDisjoint
  <2>2. WellFormed(bt) /\ i \in Nat /\ j \in Nat
    BY <2>1 DEF Inv, TypeOK, BlockPartition, IndexStack, WellFormed
  <2>. QED BY <2>1, <2>2, PhysicalInjective
<1>. QED BY SpecInv, <1>1, PTL

-----------------------------------------------------------------------------
(* The table vectors grow only when every index is live, so their length   *)
(* stays within the peak of live tables.                                   *)
THEOREM TablesNeverOutgrow == Spec => []TablesBounded
<1>1. Init => TablesBounded
  BY DEF Init, TablesBounded, EmptyManager
<1>2. Inv /\ TablesBounded /\ [Next]_vars => TablesBounded'
  <2> SUFFICES ASSUME Inv, TablesBounded, [Next]_vars
               PROVE  Len(bt'.tables) <= MaxLive
    BY DEF TablesBounded
  <2>0. WellFormed(bt) /\ bt.tables \in Seq(Seq(Blocks)) /\ Len(bt.tables) \in Nat
        /\ DOMAIN bt.tables = 1 .. Len(bt.tables) /\ Len(bt.tables) <= MaxLive
    BY FieldTypes DEF Inv, TypeOK, BlockPartition, IndexStack, WellFormed, TablesBounded
  <2>1. CASE Allocate
    <3>1. CASE bt.free_table_indices # << >>
      BY <2>0, <2>1, <3>1, AllocateFrame DEF Allocate
    <3>2. CASE bt.free_table_indices = << >>
      <4>1. LiveTables(bt) = 1 .. Len(bt.tables)
        BY <2>0, <3>2 DEF LiveTables, WellFormed, IndicesStacked, UnusedStacked
      <4>2. Cardinality(LiveTables(bt)) = Len(bt.tables)
        BY <2>0, <4>1, FS_Interval
      <4>3. Len(bt.tables) < MaxLive
        BY <2>1, <4>2 DEF Allocate
      <4>4. Len(bt'.tables) = Len(bt.tables) + 1
        BY <2>0, <2>1, <3>2, AllocateFrame DEF Allocate
      <4>. QED BY <2>0, <4>3, <4>4
    <3>. QED BY <3>1, <3>2
  <2>2. ASSUME NEW t \in TableIndices, Free(t)
        PROVE  Len(bt'.tables) <= MaxLive
    BY <2>0, <2>2, FreeFrame DEF Free, FreeTableReturns
  <2>3. ASSUME NEW t \in TableIndices, NEW n \in 0 .. MaxTokens, Ensure(t, n)
        PROVE  Len(bt'.tables) <= MaxLive
    BY <2>0, <2>3, RequiredIsNat, EnsureFrame DEF Ensure
  <2>4. CASE Reset
    BY <2>4 DEF Reset, EmptyManager
  <2>5. CASE UNCHANGED bt
    BY <2>0, <2>5
  <2>. QED BY <2>1, <2>2, <2>3, <2>4, <2>5 DEF Next, FreeThrows, EnsureFails, vars
<1>. QED BY <1>1, <1>2, SpecInv, PTL DEF Spec

(* A cached token keeps its slot for as long as its table lives.           *)
THEOREM MappingNeverMoves == Spec => MappingStable
<1> DEFINE Stable == \A t \in LiveTables(bt) :
                       t \in LiveTables(bt)' =>
                         \A i \in DOMAIN bt.tables[t] :
                           i \in DOMAIN bt'.tables[t] /\ bt'.tables[t][i] = bt.tables[t][i]
<1>1. Inv /\ [Next]_vars => Stable
  <2> SUFFICES ASSUME Inv, [Next]_vars, NEW t \in LiveTables(bt), t \in LiveTables(bt'),
                      NEW i \in DOMAIN bt.tables[t]
               PROVE  i \in DOMAIN bt'.tables[t] /\ bt'.tables[t][i] = bt.tables[t][i]
    OBVIOUS
  <2>0. WellFormed(bt) /\ t \in DOMAIN bt.tables
    BY DEF Inv, TypeOK, BlockPartition, IndexStack, WellFormed, LiveTables
  <2>1. CASE Allocate
    BY <2>0, <2>1, AllocateFrame DEF Allocate
  <2>2. ASSUME NEW u \in TableIndices, Free(u)
        PROVE  bt'.tables[t] = bt.tables[t]
    BY <2>0, <2>2, FreeFrame DEF Free, FreeTableReturns
  <2>3. ASSUME NEW u \in TableIndices, NEW n \in 0 .. MaxTokens, Ensure(u, n)
        PROVE  i \in DOMAIN bt'.tables[t] /\ bt'.tables[t][i] = bt.tables[t][i]
    BY <2>0, <2>3, RequiredIsNat, EnsureFrame DEF Ensure
  <2>4. CASE Reset
    BY <2>4 DEF Reset, EmptyManager, LiveTables
  <2>5. CASE UNCHANGED bt
    BY <2>5
  <2>. QED BY <2>1, <2>2, <2>3, <2>4, <2>5 DEF Next, FreeThrows, EnsureFails, vars
<1>. QED BY <1>1, SpecInv, PTL DEF Spec, MappingStable

-----------------------------------------------------------------------------
(* The manager implements the block pool.                                  *)

(* ensure_blocks adds to its table as many free blocks as it lacks.        *)
LEMMA EnsureAdds ==
  ASSUME NEW m, WellFormed(m), NEW t, NEW required \in Nat, EnsureReturns(m, t, required),
         NeedBlocks(m, t, required) > 0
  PROVE  \E extra \in SUBSET BlocksOf(m.free_blocks) :
           /\ Cardinality(extra) = NeedBlocks(m, t, required)
           /\ BlocksOf(EnsureBlocks(m, t, required).tables[t]) = BlocksOf(m.tables[t]) \cup extra
<1> DEFINE n    == EnsureBlocks(m, t, required)
           need == NeedBlocks(m, t, required)
           P    == PoppedBlocks(m, need)
           nt   == m.tables[t] \o P
<1>0. /\ WellTyped(m) /\ t \in DOMAIN m.tables /\ IsTableUsed(m, t)
      /\ m.tables \in Seq(Seq(Blocks)) /\ m.tables[t] \in Seq(Blocks)
      /\ m.free_blocks \in Seq(Blocks)
  BY FieldTypes DEF WellFormed, EnsureReturns, IsTableUsed
<1>1. need \in Int
  BY <1>0 DEF NeedBlocks
<1>2. need \in 1 .. Len(m.free_blocks)
  BY <1>0, <1>1 DEF EnsureReturns, HasFreeBlocks
<1>3. ~ need <= 0
  BY <1>1
<1>4. n.tables = [m.tables EXCEPT ![t] = nt]
  BY <1>0, <1>3 DEF EnsureBlocks, GrowTable, WellTyped, ManagerType
<1> HIDE DEF need
<1>5. /\ P \in Seq(Blocks) /\ Len(P) = need
      /\ \A j \in DOMAIN P : \E i \in DOMAIN m.free_blocks : P[j] = m.free_blocks[i]
      /\ \A j, k \in DOMAIN P : P[j] = P[k] => j = k
  BY <1>2, PoppedElements
<1> HIDE DEF P
<1>6. /\ nt \in Seq(Blocks)
      /\ \A i \in DOMAIN m.tables[t] : i \in DOMAIN nt /\ nt[i] = m.tables[t][i]
      /\ \A j \in DOMAIN P : Len(m.tables[t]) + j \in DOMAIN nt /\ nt[Len(m.tables[t]) + j] = P[j]
      /\ \A k \in DOMAIN nt :
           \/ k \in DOMAIN m.tables[t] /\ nt[k] = m.tables[t][k]
           \/ \E j \in DOMAIN P : k = Len(m.tables[t]) + j /\ nt[k] = P[j]
  BY <1>0, <1>5, ConcatElements
<1> HIDE DEF nt, n
<1>7. n.tables[t] = nt
  BY <1>0, <1>4, <1>6, ReplaceElement
<1>8. BlocksOf(nt) = BlocksOf(m.tables[t]) \cup BlocksOf(P)
  BY <1>6 DEF BlocksOf
<1>9. BlocksOf(P) \in SUBSET BlocksOf(m.free_blocks) /\ Cardinality(BlocksOf(P)) = need
  <2>1. Cardinality(BlocksOf(P)) = need
    BY <1>5, BlocksCounted
  <2>2. BlocksOf(P) \in SUBSET BlocksOf(m.free_blocks)
    BY <1>5 DEF BlocksOf
  <2>. QED BY <2>1, <2>2
<1>. QED BY <1>7, <1>8, <1>9 DEF n, need

(* BlockPool counts as FiniteSets does.                                    *)
LEMMA SameCount == ASSUME NEW S PROVE Pool!Cardinality(S) = Cardinality(S)
BY DEF Pool!Cardinality, Cardinality

(* The tables that live have a handle each.                                *)
LEMMA LiveHandles ==
  ASSUME Inv, TablesBounded
  PROVE  /\ WellFormed(bt) /\ LiveTables(bt) \subseteq TableHandles
         /\ Owned = [h \in TableHandles |->
                       IF h \in LiveTables(bt) THEN BlocksOf(bt.tables[h]) ELSE {}]
         /\ Pool!FreePool = BlocksOf(bt.free_blocks)
<1>1. WellFormed(bt)
  BY DEF Inv, TypeOK, BlockPartition, IndexStack, WellFormed
<1>2. DOMAIN bt.tables = 1 .. Len(bt.tables) /\ Len(bt.tables) \in Nat
  BY <1>1, FieldTypes DEF WellFormed
<1>3. LiveTables(bt) \subseteq TableHandles
  BY <1>2, BoundsAssumption DEF LiveTables, TableHandles, TablesBounded
<1>4. Owned = [h \in TableHandles |->
                 IF h \in LiveTables(bt) THEN BlocksOf(bt.tables[h]) ELSE {}]
  BY DEF Owned, BlocksOf
<1>5. \A h \in LiveTables(bt) : Owned[h] = BlocksOf(bt.tables[h])
  BY <1>3, <1>4
<1>6. {Owned[h] : h \in LiveTables(bt)} = {BlocksOf(bt.tables[h]) : h \in LiveTables(bt)}
  BY <1>5
<1>7. Pool!FreePool = BlocksOf(bt.free_blocks)
  BY <1>1, <1>6, FreeIsUnowned DEF Pool!FreePool
<1>. QED BY <1>1, <1>3, <1>4, <1>7

(* A step that leaves all tables but one as they are, or adds or removes   *)
(* one, changes what that one owns and nothing else.                       *)
LEMMA OneOwner ==
  ASSUME Inv, TablesBounded, Inv', TablesBounded', NEW t \in TableHandles,
         LiveTables(bt') \ {t} = LiveTables(bt) \ {t},
         \A v \in LiveTables(bt) \ {t} : bt'.tables[v] = bt.tables[v]
  PROVE  /\ Owned \in [TableHandles -> SUBSET Blocks]
         /\ Owned' = [Owned EXCEPT ![t] = IF t \in LiveTables(bt')
                                          THEN BlocksOf(bt'.tables[t]) ELSE {}]
<1>1. /\ Owned = [h \in TableHandles |->
                    IF h \in LiveTables(bt) THEN BlocksOf(bt.tables[h]) ELSE {}]
      /\ WellFormed(bt)
  BY LiveHandles
<1>2. Owned' = [h \in TableHandles |->
                  IF h \in LiveTables(bt') THEN BlocksOf(bt'.tables[h]) ELSE {}]
  BY DEF Owned, BlocksOf
<1>3. \A h \in LiveTables(bt) : bt.tables[h] \in Seq(Blocks)
  BY <1>1, FieldTypes DEF WellFormed, LiveTables
<1>4. Owned \in [TableHandles -> SUBSET Blocks]
  BY <1>1, <1>3 DEF BlocksOf
<1>5. ASSUME NEW h \in TableHandles, h # t PROVE Owned'[h] = Owned[h]
  BY <1>1, <1>2, <1>5
<1>. QED BY ZenonT(60), <1>1, <1>2, <1>4, <1>5

(* The blocks a caller can ask for.                                        *)
LEMMA AskedFor ==
  ASSUME NEW n \in 0 .. MaxTokens
  PROVE  NumRequiredBlocks(n, PageSize) \in 0 .. NumRequiredBlocks(MaxTokens, PageSize)
<1>1. n \in Nat /\ MaxTokens \in Nat /\ n <= MaxTokens
  BY BoundsAssumption
<1>2. /\ NumRequiredBlocks(n, PageSize) \in Nat /\ NumRequiredBlocks(MaxTokens, PageSize) \in Nat
      /\ NumRequiredBlocks(n, PageSize) <= NumRequiredBlocks(MaxTokens, PageSize)
  BY <1>1, RequiredMonotone, PageSizeAssumption
<1>. QED BY <1>2

(* A refused call changes nothing and says why.                            *)
LEMMA RefusalMaps ==
  ASSUME Inv, TablesBounded, NEW t \in TableIndices, NEW n \in 0 .. MaxTokens,
         FreeThrows(t) \/ EnsureFails(t, n)
  PROVE  Pool!PoolNext
<1>1. /\ WellFormed(bt) /\ LiveTables(bt) \subseteq TableHandles
      /\ Pool!FreePool = BlocksOf(bt.free_blocks)
      /\ Owned = [h \in TableHandles |->
                    IF h \in LiveTables(bt) THEN BlocksOf(bt.tables[h]) ELSE {}]
  BY LiveHandles
<1>2. UNCHANGED <<LiveTables(bt), Owned>>
  BY DEF FreeThrows, EnsureFails, Owned, LiveTables
<1>3. t \in TableHandles \cup {0}
  BY BoundsAssumption DEF TableIndices, TableHandles
<1>4. IsTableUsed(bt, t) <=> t \in LiveTables(bt)
  BY DEF IsTableUsed, LiveTables
<1>5. CASE FreeThrows(t)
  <2>1. t \notin LiveTables(bt)
    BY <1>1, <1>4, <1>5, FreeReturns DEF FreeThrows
  <2>2. Pool!BadHandle(t, 0)
    BY <1>2, <1>5, <2>1 DEF FreeThrows, Reply, Pool!BadHandle, Pool!Answer
  <2>3. 0 \in 0 .. NumRequiredBlocks(MaxTokens, PageSize)
    BY BoundsAssumption, AskedFor
  <2>. QED BY <1>3, <2>2, <2>3 DEF Pool!PoolNext
<1>6. CASE EnsureFails(t, n)
  <2> DEFINE required == NumRequiredBlocks(n, PageSize)
  <2>1. required \in 0 .. NumRequiredBlocks(MaxTokens, PageSize)
    BY AskedFor
  <2>2. /\ ~ EnsureReturns(bt, t, required)
        /\ reply' = Reply(t, required, IF t \in LiveTables(bt) THEN "exhausted" ELSE "bad table")
    BY <1>4, <1>6 DEF EnsureFails
  <2> HIDE DEF required
  <2>3. CASE t \notin LiveTables(bt)
    <3>1. Pool!BadHandle(t, required)
      BY <1>2, <2>2, <2>3 DEF Reply, Pool!BadHandle, Pool!Answer
    <3>. QED BY <1>3, <2>1, <3>1 DEF Pool!PoolNext
  <2>4. CASE t \in LiveTables(bt)
    <3>1. t \in TableHandles /\ Owned[t] = BlocksOf(bt.tables[t])
      BY <1>1, <2>4
    <3>2. Cardinality(Owned[t]) = Len(bt.tables[t])
      BY <1>1, <2>4, <3>1, TableCounted
    <3>3. Cardinality(Pool!FreePool) = Len(bt.free_blocks) /\ Len(bt.free_blocks) \in Nat
      BY <1>1, FreeCounted, FieldTypes DEF WellFormed
    <3>4. required - Len(bt.tables[t]) > Len(bt.free_blocks)
      <4>1. ~ (required - Len(bt.tables[t]) <= Len(bt.free_blocks))
        BY <1>4, <2>2, <2>4 DEF EnsureReturns, HasFreeBlocks, NeedBlocks
      <4>2. Len(bt.tables[t]) \in Nat /\ required \in Nat
        BY <1>1, <2>1, <2>4, TableCounted
      <4> DEFINE had == Len(bt.tables[t])
                 free == Len(bt.free_blocks)
      <4>3. had \in Nat /\ free \in Nat /\ ~ (required - had <= free) /\ required \in Nat
        BY <3>3, <4>1, <4>2
      <4> HIDE DEF had, free
      <4>4. required - had > free
        BY <4>3
      <4>. QED BY <4>4 DEF had, free
    <3>5. Pool!Exhausted(t, required)
      BY <1>2, <2>2, <2>4, <3>2, <3>3, <3>4, SameCount
         DEF Reply, Pool!Exhausted, Pool!Answer, Pool!Missing
    <3>. QED BY <2>1, <3>1, <3>5 DEF Pool!PoolNext
  <2>. QED BY <2>3, <2>4
<1>. QED BY <1>5, <1>6

(* Every call does to the pool what BlockPool promises.                    *)
LEMMA CallMaps ==
  ASSUME Inv, TablesBounded, Inv', TablesBounded', Next
  PROVE  Pool!PoolNext
<1>1. /\ WellFormed(bt) /\ LiveTables(bt) \subseteq TableHandles
      /\ Pool!FreePool = BlocksOf(bt.free_blocks)
      /\ Owned = [h \in TableHandles |->
                    IF h \in LiveTables(bt) THEN BlocksOf(bt.tables[h]) ELSE {}]
  BY LiveHandles
<1>2. LiveTables(bt') \subseteq TableHandles
  <2>1. DOMAIN bt'.tables = 1 .. Len(bt'.tables) /\ Len(bt'.tables) \in Nat
    BY FieldTypes DEF Inv, TypeOK
  <2>. QED BY <2>1, BoundsAssumption DEF LiveTables, TableHandles, TablesBounded
<1>3. CASE Allocate
  <2> DEFINE t == AllocatedTable(bt)
  <2>1. /\ bt' = AllocateTable(bt) /\ reply' = Reply(t, 0, "ok")
        /\ LiveTables(bt') = LiveTables(bt) \cup {t} /\ bt'.tables[t] = << >>
        /\ t \notin LiveTables(bt)
        /\ \A v \in LiveTables(bt) : bt'.tables[v] = bt.tables[v]
    <3>1. bt' = AllocateTable(bt) /\ reply' = Reply(t, 0, "ok")
      BY <1>3 DEF Allocate
    <3>2. LiveTables(bt') = LiveTables(bt) \cup {t} /\ bt'.tables[t] = << >>
      BY <1>1, <3>1, AllocateLive
    <3>3. t \notin LiveTables(bt)
      BY <1>1, AllocateFresh DEF LiveTables, IsTableUsed
    <3>4. \A v \in LiveTables(bt) : bt'.tables[v] = bt.tables[v]
      BY <1>1, <3>1, AllocateFrame
    <3>. QED BY <3>1, <3>2, <3>3, <3>4
  <2> HIDE DEF t
  <2>2. t \in TableHandles /\ LiveTables(bt') \ {t} = LiveTables(bt) \ {t}
    BY <1>2, <2>1
  <2>3. /\ Owned \in [TableHandles -> SUBSET Blocks]
        /\ Owned' = [Owned EXCEPT ![t] = IF t \in LiveTables(bt')
                                         THEN BlocksOf(bt'.tables[t]) ELSE {}]
    BY <2>1, <2>2, OneOwner
  <2>4. Owned[t] = {} /\ BlocksOf(bt'.tables[t]) = {}
    BY <1>1, <2>1, <2>2 DEF BlocksOf
  <2>5. UNCHANGED Owned
    BY <2>2, <2>3, <2>4
  <2>6. Pool!Open(t)
    BY <2>1, <2>5 DEF Pool!Open, Pool!Answer, Reply
  <2>. QED BY <2>2, <2>6 DEF Pool!PoolNext
<1>4. ASSUME NEW t \in TableIndices, Free(t) PROVE Pool!PoolNext
  <2>1. /\ IsTableUsed(bt, t) /\ bt' = FreeTable(bt, t) /\ reply' = Reply(t, 0, "ok")
    BY <1>4 DEF Free, FreeTableReturns
  <2>2. t \in LiveTables(bt) /\ t \in TableHandles
    BY <1>1, <2>1 DEF IsTableUsed, LiveTables
  <2>3. LiveTables(bt') = LiveTables(bt) \ {t}
    BY <1>1, <2>1, FreeLive
  <2>4. \A v \in LiveTables(bt) \ {t} : bt'.tables[v] = bt.tables[v]
    BY <1>1, <2>1, FreeFrame DEF LiveTables
  <2>5. Owned' = [Owned EXCEPT ![t] = IF t \in LiveTables(bt')
                                      THEN BlocksOf(bt'.tables[t]) ELSE {}]
    BY <2>2, <2>3, <2>4, OneOwner
  <2>6. Owned' = [Owned EXCEPT ![t] = {}]
    BY <2>3, <2>5
  <2>7. Pool!Close(t)
    BY <2>1, <2>2, <2>3, <2>6 DEF Pool!Close, Pool!Answer, Reply
  <2>. QED BY <2>2, <2>7 DEF Pool!PoolNext
<1>5. ASSUME NEW t \in TableIndices, NEW n \in 0 .. MaxTokens, Ensure(t, n)
      PROVE  Pool!PoolNext
  <2> DEFINE required == NumRequiredBlocks(n, PageSize)
  <2>1. required \in 0 .. NumRequiredBlocks(MaxTokens, PageSize) /\ required \in Nat
    BY AskedFor, RequiredIsNat
  <2>2. /\ EnsureReturns(bt, t, required) /\ bt' = EnsureBlocks(bt, t, required)
        /\ reply' = Reply(t, required, "ok")
    BY <1>5 DEF Ensure
  <2> HIDE DEF required
  <2>3. t \in LiveTables(bt) /\ t \in TableHandles /\ t \in DOMAIN bt.tables
    BY <1>1, <2>2 DEF EnsureReturns, IsTableUsed, LiveTables
  <2>4. LiveTables(bt') = LiveTables(bt)
    BY <1>1, <2>1, <2>2, EnsureLive
  <2>5. Owned[t] = BlocksOf(bt.tables[t]) /\ Cardinality(Owned[t]) = Len(bt.tables[t])
    BY <1>1, <2>3, TableCounted
  <2>6. Pool!Missing(t, required) = NeedBlocks(bt, t, required) /\ NeedBlocks(bt, t, required) \in Int
    <3>1. Len(bt.tables[t]) \in Nat
      BY <1>1, <2>3, TableCounted
    <3>. QED BY <2>1, <2>5, <3>1, SameCount DEF Pool!Missing, NeedBlocks
  <2>7. CASE NeedBlocks(bt, t, required) <= 0
    <3>1. bt' = bt
      BY <2>2, <2>7 DEF EnsureBlocks
    <3>2. UNCHANGED <<LiveTables(bt), Owned>>
      BY <3>1 DEF Owned, LiveTables
    <3>3. Pool!Grow(t, required)
      BY <2>2, <2>3, <2>6, <2>7, <3>2 DEF Pool!Grow, Pool!Answer, Reply
    <3>. QED BY <2>1, <2>3, <3>3 DEF Pool!PoolNext
  <2>8. CASE ~ NeedBlocks(bt, t, required) <= 0
    <3>1. NeedBlocks(bt, t, required) > 0
      BY <2>6, <2>8
    <3>2. PICK extra \in SUBSET BlocksOf(bt.free_blocks) :
            /\ Cardinality(extra) = NeedBlocks(bt, t, required)
            /\ BlocksOf(bt'.tables[t]) = BlocksOf(bt.tables[t]) \cup extra
      BY <1>1, <2>1, <2>2, <3>1, EnsureAdds
    <3>3. \A v \in LiveTables(bt) \ {t} : bt'.tables[v] = bt.tables[v]
      BY <1>1, <2>1, <2>2, EnsureFrame DEF LiveTables
    <3>4. Owned' = [Owned EXCEPT ![t] = IF t \in LiveTables(bt')
                                        THEN BlocksOf(bt'.tables[t]) ELSE {}]
      BY <2>3, <2>4, <3>3, OneOwner
    <3>5. Owned' = [Owned EXCEPT ![t] = Owned[t] \cup extra]
      BY <2>3, <2>4, <2>5, <3>2, <3>4
    <3>6. Pool!Grow(t, required)
      BY <1>1, <2>2, <2>3, <2>4, <2>6, <2>8, <3>2, <3>5, SameCount DEF Pool!Grow, Pool!Answer, Reply
    <3>. QED BY <2>1, <2>3, <3>6 DEF Pool!PoolNext
  <2>. QED BY <2>7, <2>8
<1>6. CASE Reset
  <2>1. LiveTables(bt') = {} /\ reply' = Reply(0, 0, "ok")
    BY <1>6 DEF Reset, EmptyManager, LiveTables, NoTable
  <2>2. Owned' = [h \in TableHandles |-> {}]
    BY <2>1 DEF Owned
  <2>3. Pool!Clear
    BY <2>1, <2>2 DEF Pool!Clear, Pool!Answer, Reply
  <2>. QED BY <2>3 DEF Pool!PoolNext
<1>7. ASSUME NEW t \in TableIndices, FreeThrows(t) PROVE Pool!PoolNext
  BY <1>7, RefusalMaps, BoundsAssumption
<1>8. ASSUME NEW t \in TableIndices, NEW n \in 0 .. MaxTokens, EnsureFails(t, n)
      PROVE  Pool!PoolNext
  BY <1>8, RefusalMaps
<1>. QED BY <1>3, <1>4, <1>5, <1>6, <1>7, <1>8 DEF Next

(* Every call does to the block pool what BlockPool promises, for any      *)
(* number of blocks and tables.                                            *)
THEOREM ManagerImplementsPool == Spec => ImplementsPool
<1>1. Init => Pool!PoolInit
  <2> SUFFICES ASSUME Init PROVE Pool!PoolInit
    OBVIOUS
  <2>1. LiveTables(bt) = {} /\ reply = Reply(0, 0, "ok")
    BY DEF Init, EmptyManager, LiveTables, NoTable
  <2>2. Owned = [h \in TableHandles |-> {}]
    BY <2>1 DEF Owned
  <2>. QED BY <2>1, <2>2 DEF Pool!PoolInit, Reply
<1>2. Inv /\ TablesBounded /\ Inv' /\ TablesBounded' /\ [Next]_vars => [Pool!PoolNext]_(Pool!poolVars)
  <2>1. UNCHANGED vars => UNCHANGED Pool!poolVars
    BY DEF vars, Pool!poolVars, Owned, LiveTables
  <2>. QED BY <2>1, CallMaps
<1>. QED BY <1>1, <1>2, SpecInv, TablesNeverOutgrow, PTL DEF Spec, ImplementsPool, Pool!PoolSpec
=============================================================================
