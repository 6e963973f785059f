----------------------------- MODULE BlockTable -----------------------------
(***************************************************************************)
(* BlockTableManager (src/engine/block_table_manager.cpp) under every      *)
(* sequence of calls its public interface allows, with good and with stale *)
(* table indices.  The manager is used by one thread: a call is one step.  *)
(***************************************************************************)
EXTENDS BlockTableOps, FiniteSets

CONSTANTS PageSize,         \* tokens per block
          MaxTokens,        \* longest token_len a caller asks for (bound)
          MaxLive           \* tables in use at the same time (bound)

ASSUME PageSizeAssumption == PageSize \in Nat \ {0}
ASSUME BoundsAssumption == MaxTokens \in Nat /\ MaxLive \in Nat

VARIABLES bt,               \* the manager
          reply             \* the last call: its table, the blocks it asked for, its outcome

vars == <<bt, reply>>

TableIndices == 0 .. MaxLive   \* what callers pass: NoTable, stale or live

Outcomes == {"ok", "bad table", "exhausted"}

Reply(t, n, outcome) == [table |-> t, blocks |-> n, outcome |-> outcome]

Init ==
  /\ bt = EmptyManager
  /\ reply = Reply(NoTable, 0, "ok")

Allocate ==
  /\ Cardinality(LiveTables(bt)) < MaxLive
  /\ bt' = AllocateTable(bt)
  /\ reply' = Reply(AllocatedTable(bt), 0, "ok")

Free(t) ==
  /\ FreeTableReturns(bt, t)
  /\ bt' = FreeTable(bt, t)
  /\ reply' = Reply(t, 0, "ok")

(* free_block throws on a free block after it has given back the blocks    *)
(* before it.  The blocks of a live table are in use (BlockPartition), so  *)
(* it is the check of the index that throws, and nothing has changed.      *)
FreeThrows(t) ==
  /\ ~ FreeTableReturns(bt, t)
  /\ reply' = Reply(t, 0, "bad table")
  /\ UNCHANGED bt

Ensure(t, token_len) ==
  LET required == NumRequiredBlocks(token_len, PageSize)
  IN  /\ EnsureReturns(bt, t, required)
      /\ bt' = EnsureBlocks(bt, t, required)
      /\ reply' = Reply(t, required, "ok")

EnsureFails(t, token_len) ==
  LET required == NumRequiredBlocks(token_len, PageSize)
  IN  /\ ~ EnsureReturns(bt, t, required)
      /\ reply' = Reply(t, required, IF IsTableUsed(bt, t) THEN "exhausted" ELSE "bad table")
      /\ UNCHANGED bt

Reset ==
  /\ bt' = EmptyManager
  /\ reply' = Reply(NoTable, 0, "ok")

Next ==
  \/ Allocate
  \/ \E t \in TableIndices : Free(t) \/ FreeThrows(t)
  \/ \E t \in TableIndices, n \in 0 .. MaxTokens : Ensure(t, n) \/ EnsureFails(t, n)
  \/ Reset

Spec == Init /\ [][Next]_vars

-----------------------------------------------------------------------------
(* Type of the manager's fields (block_table_manager.hpp).                 *)
TypeOK ==
  /\ WellTyped(bt)
  /\ reply \in [table : Nat, blocks : Nat, outcome : Outcomes]

(* After any sequence of calls every block is either on the free stack or  *)
(* in exactly one place of one table: allocate_block and free_block never  *)
(* hand a block to two owners, free one twice, or lose one.                *)
BlockPartition == Partitioned(bt)

(* The stack of reusable indices lists each unused table once, and an      *)
(* unused table is empty: allocate_table never reuses a live index and     *)
(* free_table loses none.                                                  *)
IndexStack == IndicesStacked(bt)

(* The inductive invariant.                                                *)
Inv == TypeOK /\ BlockPartition /\ IndexStack

(* Indices are recycled: the vectors tables_ and table_used_ never outgrow *)
(* the largest number of tables that were live together.                   *)
TablesBounded == Len(bt.tables) <= MaxLive

(* Two tokens of live tables never share a slot of the pool, and every     *)
(* slot is inside it (physical_token_index).                               *)
SlotsDisjoint ==
  \A t, u \in LiveTables(bt) : \A i, j \in 0 .. MaxTokens :
    IsMapped(bt, t, i, PageSize) /\ IsMapped(bt, u, j, PageSize) =>
      /\ PhysicalTokenIndex(bt, t, i, PageSize) \in 0 .. (NumBlocks * PageSize - 1)
      /\ PhysicalTokenIndex(bt, t, i, PageSize) = PhysicalTokenIndex(bt, u, j, PageSize)
           => t = u /\ i = j

(* As long as a table lives, the slot of a token it maps never changes:    *)
(* growing a table keeps what is already cached where it is.               *)
MappingStable ==
  [][ \A t \in LiveTables(bt) :
        t \in LiveTables(bt)' =>
          \A i \in DOMAIN bt.tables[t] :
            i \in DOMAIN bt'.tables[t] /\ bt'.tables[t][i] = bt.tables[t][i] ]_vars

-----------------------------------------------------------------------------
(* The manager implements BlockPool: a table owns the set of its blocks.   *)
TableHandles == 1 .. MaxLive

Owned == [h \in TableHandles |->
            IF h \in LiveTables(bt)
            THEN {bt.tables[h][i] : i \in DOMAIN bt.tables[h]} ELSE {}]

Pool == INSTANCE BlockPool WITH
          PoolBlocks <- Blocks, Handles <- TableHandles,
          MaxBlocksPerTable <- NumRequiredBlocks(MaxTokens, PageSize),
          live <- LiveTables(bt), owned <- Owned

(* Every call does to the block pool what BlockPool promises.              *)
ImplementsPool == Pool!PoolSpec
=============================================================================
