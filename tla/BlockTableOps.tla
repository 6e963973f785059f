--------------------------- MODULE BlockTableOps ---------------------------
(***************************************************************************)
(* The operations of BlockTableManager (src/engine/block_table_manager.cpp)*)
(* as functions from one state of the manager to the next.  A manager is a *)
(* record with the fields of the C++ object:                               *)
(*                                                                         *)
(*   free_blocks         stack of free physical blocks, back = last element*)
(*   block_used          per block, whether some table holds it            *)
(*   tables              the block tables, each a sequence of blocks       *)
(*   table_used          per table, whether a request holds it             *)
(*   free_table_indices  stack of the table indices that can be reused     *)
(*                                                                         *)
(* Table index i of the code is index i + 1 here; NoTable stands for -1.   *)
(***************************************************************************)
EXTENDS Integers, Sequences

CONSTANT NumBlocks          \* physical blocks in the pool (num_blocks_)

ASSUME NumBlocksAssumption == NumBlocks \in Nat \ {0}

Blocks == 0 .. (NumBlocks - 1)
NoTable == 0

EmptyManager ==
  [ free_blocks        |-> [i \in 1 .. NumBlocks |-> NumBlocks - i],
    block_used         |-> [b \in Blocks |-> FALSE],
    tables             |-> << >>,
    table_used         |-> << >>,
    free_table_indices |-> << >> ]

IsTableUsed(m, t) == t \in DOMAIN m.tables /\ m.table_used[t]

LiveTables(m) == {t \in DOMAIN m.tables : m.table_used[t]}

-----------------------------------------------------------------------------
(* allocate_table: the index on top of the free stack, or a new table.     *)

AllocatedTable(m) ==
  IF m.free_table_indices # << >>
  THEN m.free_table_indices[Len(m.free_table_indices)]
  ELSE Len(m.tables) + 1

(* Mutants: the index stack is never used; table_used is not extended.     *)
AllocateTableAlwaysNew(m) ==
  [m EXCEPT !.tables = Append(@, << >>), !.table_used = Append(@, TRUE)]

AllocateTableNoFlag(m) == [m EXCEPT !.tables = Append(@, << >>)]

AllocateTable(m) ==
  IF m.free_table_indices # << >>
  THEN LET t == AllocatedTable(m)
       IN  [m EXCEPT !.tables[t] = << >>,
                     !.table_used[t] = TRUE,
                     !.free_table_indices = SubSeq(@, 1, Len(@) - 1)]
  ELSE [m EXCEPT !.tables = Append(@, << >>),
                 !.table_used = Append(@, TRUE)]

(* free_table: the blocks go back to the pool in table order.  The check   *)
(* in free_block throws on a block that is already free.                   *)

FreeTableReturns(m, t) ==
  /\ IsTableUsed(m, t)
  /\ \A i \in DOMAIN m.tables[t] : m.block_used[m.tables[t][i]]
  /\ \A i, j \in DOMAIN m.tables[t] : m.tables[t][i] = m.tables[t][j] => i = j

(* Mutant: the index is not pushed on the stack.                           *)
FreeTableNoIndex(m, t) ==
  [m EXCEPT !.free_blocks = @ \o m.tables[t],
            !.block_used = [b \in Blocks |->
               m.block_used[b] /\ \A i \in DOMAIN m.tables[t] : m.tables[t][i] # b],
            !.tables[t] = << >>,
            !.table_used[t] = FALSE]

FreeTable(m, t) ==
  [m EXCEPT !.free_blocks = @ \o m.tables[t],
            !.block_used = [b \in Blocks |->
               m.block_used[b] /\ \A i \in DOMAIN m.tables[t] : m.tables[t][i] # b],
            !.tables[t] = << >>,
            !.table_used[t] = FALSE,
            !.free_table_indices = Append(@, t)]

-----------------------------------------------------------------------------
(* ensure_blocks: all the missing blocks are popped, or none of them.      *)

NumRequiredBlocks(token_len, page_size) ==
  IF token_len = 0 THEN 0 ELSE (token_len + page_size - 1) \div page_size

NeedBlocks(m, t, required) == required - Len(m.tables[t])

(* Mutant: the last free block is never given out.                         *)
HasMoreFreeBlocks(m, n) == n < Len(m.free_blocks)

HasFreeBlocks(m, n) == n <= Len(m.free_blocks)

EnsureReturns(m, t, required) ==
  /\ IsTableUsed(m, t)
  /\ NeedBlocks(m, t, required) > 0 => HasFreeBlocks(m, NeedBlocks(m, t, required))

PoppedBlocks(m, n) ==
  [i \in 1 .. n |-> m.free_blocks[Len(m.free_blocks) + 1 - i]]

(* Mutants: the blocks stay on the free stack; they are put in front.      *)
GrowTableNoPop(m, t, n) == [m EXCEPT !.tables[t] = @ \o PoppedBlocks(m, n)]

GrowTableInFront(m, t, n) ==
  [m EXCEPT !.free_blocks = SubSeq(@, 1, Len(@) - n),
            !.block_used = [b \in Blocks |->
               m.block_used[b] \/ \E i \in 1 .. n : PoppedBlocks(m, n)[i] = b],
            !.tables[t] = PoppedBlocks(m, n) \o @]

GrowTable(m, t, n) ==
  [m EXCEPT !.free_blocks = SubSeq(@, 1, Len(@) - n),
            !.block_used = [b \in Blocks |->
               m.block_used[b] \/ \E i \in 1 .. n : PoppedBlocks(m, n)[i] = b],
            !.tables[t] = @ \o PoppedBlocks(m, n)]

EnsureBlocks(m, t, required) ==
  IF NeedBlocks(m, t, required) <= 0 THEN m
  ELSE GrowTable(m, t, NeedBlocks(m, t, required))

-----------------------------------------------------------------------------
(* physical_token_index: logical token -> slot of the pool.                *)

IsMapped(m, t, idx, page_size) ==
  IsTableUsed(m, t) /\ idx \in Nat /\ idx \div page_size < Len(m.tables[t])

(* Mutant: the block number is not scaled by the page size.                *)
UnscaledTokenIndex(m, t, idx, page_size) ==
  m.tables[t][(idx \div page_size) + 1] + (idx % page_size)

PhysicalTokenIndex(m, t, idx, page_size) ==
  m.tables[t][(idx \div page_size) + 1] * page_size + (idx % page_size)

-----------------------------------------------------------------------------
(* What makes a manager well formed.                                       *)

ManagerType ==
  [ free_blocks : Seq(Blocks), block_used : [Blocks -> BOOLEAN],
    tables : Seq(Seq(Blocks)), table_used : Seq(BOOLEAN),
    free_table_indices : Seq(Nat) ]

WellTyped(m) == m \in ManagerType /\ Len(m.table_used) = Len(m.tables)

FreeDistinct(m) ==
  \A i, j \in DOMAIN m.free_blocks : m.free_blocks[i] = m.free_blocks[j] => i = j

TablesDistinct(m) ==
  \A t, u \in DOMAIN m.tables :
    \A i \in DOMAIN m.tables[t], j \in DOMAIN m.tables[u] :
      m.tables[t][i] = m.tables[u][j] => t = u /\ i = j

UsedIffNotFree(m) ==
  \A b \in Blocks : m.block_used[b] <=> \A i \in DOMAIN m.free_blocks : m.free_blocks[i] # b

UsedIffInTable(m) ==
  \A b \in Blocks :
    m.block_used[b] <=> \E t \in DOMAIN m.tables :
                          \E i \in DOMAIN m.tables[t] : m.tables[t][i] = b

(* Every block is free or in exactly one place of one table, and           *)
(* block_used says which.                                                  *)
Partitioned(m) ==
  /\ FreeDistinct(m)
  /\ TablesDistinct(m)
  /\ UsedIffNotFree(m)
  /\ UsedIffInTable(m)

(* The reusable indices are the unused tables, each once, all empty.       *)
UnusedStacked(m) ==
  \A t \in DOMAIN m.tables :
    m.table_used[t] \/ \E i \in DOMAIN m.free_table_indices : m.free_table_indices[i] = t

StackedUnused(m) ==
  \A i \in DOMAIN m.free_table_indices :
    /\ m.free_table_indices[i] \in DOMAIN m.tables
    /\ ~ m.table_used[m.free_table_indices[i]]
    /\ m.tables[m.free_table_indices[i]] = << >>

StackDistinct(m) ==
  \A i, j \in DOMAIN m.free_table_indices :
    m.free_table_indices[i] = m.free_table_indices[j] => i = j

IndicesStacked(m) == UnusedStacked(m) /\ StackedUnused(m) /\ StackDistinct(m)

WellFormed(m) == WellTyped(m) /\ Partitioned(m) /\ IndicesStacked(m)
=============================================================================
