----------------------------- MODULE BlockPool ------------------------------
(***************************************************************************)
(* What the block-table manager promises its users, without stacks,        *)
(* indices or flags: every live table owns a set of physical blocks, no    *)
(* block has two owners, a table grows by exactly the blocks it lacks, and *)
(* a request for blocks fails only when the unowned blocks do not suffice, *)
(* in which case nothing changes.                                          *)
(***************************************************************************)
EXTENDS Integers, FiniteSets

CONSTANTS PoolBlocks,       \* the physical blocks
          Handles,          \* names a live table can have
          MaxBlocksPerTable \* largest number of blocks a call asks for

VARIABLES live,             \* handles in use
          owned,            \* the blocks each handle owns
          reply             \* the last call: its handle, the blocks it asked for, its outcome

poolVars == <<live, owned, reply>>

FreePool == PoolBlocks \ UNION {owned[h] : h \in live}

Missing(h, n) == n - Cardinality(owned[h])

Answer(h, n, outcome) == reply' = [table |-> h, blocks |-> n, outcome |-> outcome]

PoolInit ==
  /\ live = {}
  /\ owned = [h \in Handles |-> {}]
  /\ reply = [table |-> 0, blocks |-> 0, outcome |-> "ok"]

Open(h) ==
  /\ h \notin live
  /\ live' = live \cup {h}
  /\ Answer(h, 0, "ok")
  /\ UNCHANGED owned

Close(h) ==
  /\ h \in live
  /\ live' = live \ {h}
  /\ owned' = [owned EXCEPT ![h] = {}]
  /\ Answer(h, 0, "ok")

(* Afterwards h owns n blocks: those it had and as many unowned ones as it *)
(* lacked; nothing changes when it lacked none.                            *)
Grow(h, n) ==
  /\ h \in live
  /\ IF Missing(h, n) <= 0
     THEN UNCHANGED owned
     ELSE \E extra \in SUBSET FreePool :
            /\ Cardinality(extra) = Missing(h, n)
            /\ owned' = [owned EXCEPT ![h] = @ \cup extra]
  /\ Answer(h, n, "ok")
  /\ UNCHANGED live

Exhausted(h, n) ==
  /\ h \in live
  /\ Missing(h, n) > Cardinality(FreePool)
  /\ Answer(h, n, "exhausted")
  /\ UNCHANGED <<live, owned>>

BadHandle(h, n) ==
  /\ h \notin live
  /\ Answer(h, n, "bad table")
  /\ UNCHANGED <<live, owned>>

Clear ==
  /\ live' = {}
  /\ owned' = [h \in Handles |-> {}]
  /\ Answer(0, 0, "ok")

PoolNext ==
  \/ \E h \in Handles : Open(h) \/ Close(h)
  \/ \E h \in Handles, n \in 0 .. MaxBlocksPerTable : Grow(h, n) \/ Exhausted(h, n)
  \/ \E h \in Handles \cup {0}, n \in 0 .. MaxBlocksPerTable : BadHandle(h, n)
  \/ Clear

PoolSpec == PoolInit /\ [][PoolNext]_poolVars
=============================================================================
