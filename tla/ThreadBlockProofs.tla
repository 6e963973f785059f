------------------------- MODULE ThreadBlockProofs --------------------------
(***************************************************************************)
(* The kernels whose threads meet at barriers, for any power of two of     *)
(* threads: the threads of the attention kernels do not race, so one step  *)
(* for what a thread does between two barriers is enough, and what they    *)
(* compute together is the attention of the row; and the reductions over a *)
(* row give what the CPU gives.                                            *)
(***************************************************************************)
EXTENDS AttentionKernel, RowKernels, BlockTableOpsProofs, WellFoundedInduction

USE NumBlocksAssumption

Phases == {"init", "dot", "reduce", "score", "accumulate", "store", "done"}

(* In the tree, a stride never reaches beyond the array.                   *)
StrideFits ==
  /\ phase \in [at : Phases, key : Int, stride : Nat]
  /\ phase.at = "reduce" => 2 * phase.stride <= NumThreads

(* A block has at least one thread.                                        *)
LEMMA NumThreadsType == NumThreads \in Nat \ {0}
BY NumThreadsAssumption

(* Halving keeps a stride within the half of what it halves.               *)
LEMMA Halved ==
  ASSUME NEW n \in Nat
  PROVE  n \div 2 \in Nat /\ 2 * (n \div 2) <= n
OBVIOUS

(* The first stride of a tree reduction is half the array.                 *)
LEMMA ReducingFits ==
  ASSUME StrideFits, NEW s \in Nat, 2 * s <= NumThreads
  PROVE  /\ Reducing(s) \in [at : Phases, key : Int, stride : Nat]
         /\ 2 * Reducing(s).stride <= NumThreads
BY NumThreadsType DEF StrideFits, Reducing, At, Phases

(* The stride fits before the first barrier.                               *)
LEMMA InitFits == Init => StrideFits
BY DEF Init, StrideFits, Phases

(* Every barrier hands on a stride that fits the next phase.               *)
LEMMA BarrierFits ==
  ASSUME StrideFits, Barrier, phase.at # "done"
  PROVE  StrideFits'
<1>1. phase' = NextPhase
  BY DEF Barrier
<1>2. CASE phase.at = "dot"
  <2>1. FirstStride \in Nat /\ 2 * FirstStride <= NumThreads
    BY NumThreadsType, Halved DEF FirstStride
  <2>2. phase' = Reducing(FirstStride)
    BY <1>1, <1>2 DEF NextPhase
  <2>. QED BY <2>1, <2>2, ReducingFits DEF StrideFits
<1>3. CASE phase.at = "reduce"
  <2>1. NextStride(phase.stride) \in Nat /\ 2 * NextStride(phase.stride) <= NumThreads
    BY <1>3, NumThreadsType, Halved DEF StrideFits, NextStride
  <2>2. phase' = Reducing(NextStride(phase.stride))
    BY <1>1, <1>3 DEF NextPhase
  <2>. QED BY <2>1, <2>2, ReducingFits DEF StrideFits
<1>4. CASE phase.at \in {"init", "score", "accumulate", "store"}
  BY <1>1, <1>4 DEF StrideFits, NextPhase, At, Phases
<1>. QED BY <1>2, <1>3, <1>4 DEF StrideFits, Phases

(* A kernel that is done has no thread left at a barrier.                  *)
Inv == StrideFits /\ (phase.at = "done" => waiting = {})

(* A step of a thread, or of the barrier, keeps the invariant.             *)
LEMMA NextKeeps == Inv /\ [Next]_vars => Inv'
<1> SUFFICES ASSUME Inv, [Next]_vars PROVE Inv'
  OBVIOUS
<1>1. CASE UNCHANGED vars
  BY <1>1 DEF vars, Inv, StrideFits
<1>2. ASSUME NEW t \in Threads, NEW at \in Phases \ {"done"}, Working(t, at)
      PROVE  Inv'
  BY <1>2 DEF Inv, StrideFits, Working, Phases
<1>3. CASE \E t \in Threads : Clear(t) \/ Dot(t) \/ Fold(t) \/ Rescale(t) \/ Accumulate(t) \/ Store(t)
  <2>1. PICK t \in Threads :
          Clear(t) \/ Dot(t) \/ Fold(t) \/ Rescale(t) \/ Accumulate(t) \/ Store(t)
    BY <1>3
  <2>2. \E at \in Phases \ {"done"} : Working(t, at)
    BY <2>1 DEF Clear, Dot, Fold, Rescale, Accumulate, Store, Phases
  <2>. QED BY <1>2, <2>2
<1>4. CASE Barrier
  <2>1. waiting = Threads /\ waiting' = {}
    BY <1>4 DEF Barrier, Synchronise
  <2>2. Threads # {}
    BY NumThreadsType DEF Threads
  <2>3. phase.at # "done"
    BY <2>1, <2>2 DEF Inv
  <2>. QED BY <1>4, <2>1, <2>3, BarrierFits DEF Inv
<1>. QED BY <1>1, <1>3, <1>4 DEF Next

(* No two threads own an element of a strided loop.                        *)
LEMMA MineDisjoint ==
  ASSUME NEW t \in Threads, NEW u \in Threads, t # u
  PROVE  AccCells(t) \cap AccCells(u) = {}
BY DEF AccCells, Mine

(* While the stride fits, no two waiting threads touch one shared element. *)
LEMMA FitsRaceFree == StrideFits => RaceFree
<1> SUFFICES ASSUME StrideFits PROVE RaceFree
  OBVIOUS
<1>1. ASSUME NEW t \in Threads, NEW u \in Threads, t # u
      PROVE  Writes(t) \cap (Writes(u) \cup Reads(u)) = {}
  <2>1. CASE phase.at \in {"init", "accumulate"}
    BY <1>1, <2>1, MineDisjoint
       DEF Writes, Reads, AccCells, OfThread0, Softmax, Weights, Threads
  <2>2. CASE phase.at = "dot"
    BY <1>1, <2>2 DEF Writes, Reads, Reduce
  <2>3. CASE phase.at = "reduce"
    <3>1. t \in Int /\ u \in Int /\ t >= 0 /\ u >= 0 /\ phase.stride \in Nat
      BY NumThreadsType DEF Threads, StrideFits
    <3>2. t < phase.stride => t # u + phase.stride
      BY <3>1
    <3>. QED BY <1>1, <2>3, <3>2 DEF Writes, Reads, Reduce, Folds, Other
  <2>4. CASE phase.at = "score"
    BY <1>1, <2>4 DEF Writes, Reads, OfThread0
  <2>5. CASE phase.at \in {"store", "done"}
    BY <2>5 DEF Writes
  <2>. QED BY <2>1, <2>2, <2>3, <2>4, <2>5 DEF StrideFits, Phases
<1>2. ASSUME NEW t \in Threads, NEW c \in Reads(t), c[1] = "reduce"
      PROVE  c[2] \in Threads
  <2>1. CASE phase.at = "reduce"
    <3>1. Folds(t, phase.stride) /\ c \in Reduce({t, Other(t, phase.stride)})
      BY <1>2, <2>1 DEF Reads
    <3>2. t \in Threads /\ t + phase.stride \in Threads
      BY <2>1, <3>1, NumThreadsType DEF StrideFits, Folds, Threads
    <3>3. PICK s \in {t, t + phase.stride} : c = <<"reduce", s>>
      BY <3>1 DEF Reduce, Other
    <3>. QED BY <3>2, <3>3
  <2>2. CASE phase.at = "score"
    <3>1. t = 0 /\ c \in Softmax \cup Reduce({0})
      BY <1>2, <2>2 DEF Reads, OfThread0
    <3>2. c = <<"softmax", 0>> \/ c = <<"reduce", 0>>
      BY <3>1 DEF Softmax, Reduce
    <3>. QED BY <1>2, <3>1, <3>2
  <2>3. CASE phase.at \in {"accumulate", "store"}
    <3>1. c \in AccCells(t) \cup Weights \cup Softmax
      BY <1>2, <2>3 DEF Reads
    <3>2. c[1] # "reduce"
      BY <3>1 DEF AccCells, Weights, Softmax
    <3>. QED BY <1>2, <3>2
  <2>4. CASE phase.at \in {"init", "dot", "done"}
    BY <1>2, <2>4 DEF Reads
  <2>. QED BY <2>1, <2>2, <2>3, <2>4 DEF StrideFits, Phases
<1>. QED BY <1>1, <1>2 DEF RaceFree

-----------------------------------------------------------------------------
(* The kernels of attention.cu: between two __syncthreads no thread writes *)
(* a shared cell that another one touches, and the tree reads no cell that *)
(* is not there.                                                           *)
THEOREM AlwaysRaceFree == Spec => []RaceFree
<1>1. Init => Inv
  BY InitFits DEF Init, Inv
<1>2. Inv /\ [Next]_vars => Inv'
  BY NextKeeps
<1>3. Inv => RaceFree
  BY FitsRaceFree DEF Inv
<1>. QED BY <1>1, <1>2, <1>3, PTL DEF Spec

-----------------------------------------------------------------------------
(* What is in shared memory, phase by phase.                               *)

Tags(row, k) == [i \in 1 .. k |-> Tag(row, i - 1)]
Pairs(row, k) == [i \in 1 .. k |-> <<Tag(row, i - 1), Tag(row, i - 1)>>]
Terms(row, key, dims) == SetToBag({Tag(row, key)} \X dims)
Residue(s, t) == {d \in Dims : d % s = t}

(* The strides of a tree.                                                  *)
Strides == {1, 2, 4, 8, 16, 32, 64, 128, 256, 512}

PhaseHolds ==
  /\ job \in Jobs /\ phase.key \in 0 .. (KvSeqLen - 1) /\ waiting \subseteq Threads
  /\ phase.at = "reduce" => phase.stride \in Strides
  /\ phase.at = "init" => phase.key = 0

(* The accumulator has the tokens so far, each weighted by its own score;  *)
(* while it is extended, a thread that came to the barrier has done its    *)
(* share.                                                                  *)
AccKeys(d) ==
  CASE phase.at \in {"init", "store", "done"} -> KvSeqLen
    [] phase.at = "accumulate" /\ d % NumThreads \in waiting -> phase.key + 1
    [] OTHER -> phase.key

AccHolds ==
  /\ acc = [d \in Dims |-> acc[d]]
  /\ \A d \in Dims :
       IF phase.at = "init" THEN d % NumThreads \in waiting => acc[d] = << >>
       ELSE acc[d] = Pairs(job.row, AccKeys(d))

(* So has the softmax, which thread 0 extends.                             *)
Scored == phase.at = "accumulate" \/ (phase.at = "score" /\ 0 \in waiting)

SoftmaxHolds ==
  /\ phase.at = "init" /\ 0 \in waiting => softmax = << >>
  /\ phase.at \in {"dot", "reduce", "score", "accumulate"} =>
       softmax = Tags(job.row, IF Scored THEN phase.key + 1 ELSE phase.key)
  /\ phase.at \in {"store", "done"} => softmax = Tags(job.row, KvSeqLen)
  /\ Scored => weights = Tag(job.row, phase.key)

(* A partial dot product has the terms of the elements that are alike      *)
(* modulo the cells still in use.                                          *)
CellsInUse(t) == IF t < phase.stride /\ t \in waiting THEN phase.stride ELSE 2 * phase.stride

ReduceHolds ==
  /\ reduce = [t \in Threads |-> reduce[t]]
  /\ phase.at = "dot" => \A t \in waiting : reduce[t] = Terms(job.row, phase.key, Residue(NumThreads, t))
  /\ phase.at = "reduce" =>
       \A t \in Threads :
         t < 2 * phase.stride => reduce[t] = Terms(job.row, phase.key, Residue(CellsInUse(t), t))
  /\ phase.at = "score" => reduce[0] = Terms(job.row, phase.key, Dims)

Attended == <<Pairs(job.row, KvSeqLen), Tags(job.row, KvSeqLen)>>

OutputHolds ==
  /\ output = [d \in Dims |-> output[d]]
  /\ \A d \in Dims :
       phase.at = "done" \/ (phase.at = "store" /\ d % NumThreads \in waiting) =>
         output[d] = Attended

AttendInv == PhaseHolds /\ AccHolds /\ SoftmaxHolds /\ ReduceHolds /\ OutputHolds

-----------------------------------------------------------------------------
(* Where the tokens are.                                                   *)

(* A set of naturals with an element has a least one.                      *)
LEMMA LeastOf ==
  ASSUME NEW U \in SUBSET Nat, U # {}
  PROVE  \E u \in U : \A v \in U : u <= v
<1> DEFINE R == {ss \in Nat \X Nat : ss[1] < ss[2]}
<1>1. IsWellFoundedOn(R, Nat)
  BY NatLessThanWellFounded DEF OpToRel
<1>2. PICK u \in U : \A v \in U : ~ (<<v, u>> \in R)
  <2> HIDE DEF R
  <2>. QED BY <1>1, WFMin
<1>3. ASSUME NEW v \in U PROVE u <= v
  <2> DEFINE t == <<v, u>>
  <2>1. v \in Nat /\ u \in Nat /\ ~ (t \in R)
    BY <1>2
  <2>2. v < u => t \in R
    <3>1. SUFFICES ASSUME v < u PROVE t \in R
      OBVIOUS
    <3>2. t \in Nat \X Nat /\ t[1] < t[2]
      BY <2>1, <3>1
    <3> HIDE DEF t
    <3>. QED BY <3>2
  <2>. QED BY <2>1, <2>2
<1>. QED BY <1>3

(* A bounded set of naturals with an element has a largest one.            *)
LEMMA LargestOf ==
  ASSUME NEW n \in Nat, NEW T \in SUBSET (0 .. n), T # {}
  PROVE  \E x \in T : \A y \in T : y <= x
<1> DEFINE U == {n - y : y \in T}
<1>1. \A y \in T : y \in Nat /\ n - y \in Nat /\ n - y \in U
  OBVIOUS
<1>2. U \in SUBSET Nat /\ U # {}
  BY <1>1
<1>3. \A u \in U : \E y \in T : u = n - y
  OBVIOUS
<1> HIDE DEF U
<1>4. PICK u \in U : \A v \in U : u <= v
  BY <1>2, LeastOf
<1>5. PICK x \in T : u = n - x
  BY <1>3
<1>6. \A y \in T : n - x <= n - y
  BY <1>1, <1>4, <1>5
<1>. QED BY <1>1, <1>6

(* Division is the inverse of multiplication with a remainder.             *)
LEMMA TakenApart ==
  ASSUME NEW n \in Nat \ {0}, NEW q \in Nat, NEW r \in 0 .. (n - 1)
  PROVE  /\ q * n + r \in Nat
         /\ (q * n + r) \div n = q /\ (q * n + r) % n = r
<1> DEFINE o == q * n + r
           c == o \div n
           s == o % n
<1>1. q * n \in Nat /\ r \in Nat
  OBVIOUS
<1>2. o \in Nat
  BY <1>1
<1> HIDE DEF o
<1>3. c \in Nat /\ s \in 0 .. (n - 1) /\ o = (n * c) + s
  BY <1>2, PageAndOffset
<1> HIDE DEF c, s
<1>4. n * c = c * n
  BY <1>3
<1>5. q * n + r = c * n + s
  BY <1>3, <1>4 DEF o
<1>6. q = c /\ r = s
  BY <1>3, <1>5, SlotUnique
<1>. QED BY <1>2, <1>6 DEF c, s, o

(* Lines of a matrix do not overlap.                                       *)
LEMMA LaterRow ==
  ASSUME NEW n \in Nat \ {0}, NEW x \in Nat, NEW y \in Nat, x < y
  PROVE  x * n + n <= y * n
<1>1. y = x + 1 + (y - x - 1) /\ y - x - 1 \in Nat
  OBVIOUS
<1>2. \A d \in Nat : (x + 1 + d) * n = x * n + n + d * n /\ d * n >= 0
  OBVIOUS
<1>. QED BY <1>1, <1>2

(* The rows of a batch.                                                    *)
LEMMA RowTypes ==
  ASSUME job \in Jobs
  PROVE  /\ job.row \in 1 .. Rows /\ job.kind \in {"causal", "gathered", "dense"}
         /\ KvSeqLen \in Nat \ {0}
         /\ \A r \in 1 .. Rows :
              /\ job.lens[r] \in 1 .. MaxLen
              /\ job.tables[r] \in Seq(Blocks)
              /\ Needed(job.lens[r]) \in Nat \ {0}
              /\ Needed(job.lens[r]) <= Len(job.tables[r])
              /\ Len(job.tables[r]) <= NumBlocks
<1>1. /\ job.kind \in {"causal", "gathered", "dense"} /\ job.row \in 1 .. Rows
      /\ job.lens \in [1 .. Rows -> 1 .. MaxLen] /\ job.tables \in [1 .. Rows -> Tables]
      /\ \A r \in 1 .. Rows : Len(job.tables[r]) - Needed(job.lens[r]) \in {0, 1}
  <2>1. job \in [kind : {"causal", "gathered", "dense"}, row : 1 .. Rows,
                 lens : [1 .. Rows -> 1 .. MaxLen], tables : [1 .. Rows -> Tables]]
    BY DEF Jobs
  <2>2. \A r \in 1 .. Rows : Len(job.tables[r]) - Needed(job.lens[r]) \in {0, 1}
    BY DEF Jobs
  <2>. QED BY <2>1, <2>2
<1>2. ASSUME NEW r \in 1 .. Rows
      PROVE  /\ job.lens[r] \in 1 .. MaxLen /\ job.tables[r] \in Seq(Blocks)
             /\ Needed(job.lens[r]) \in Nat \ {0}
             /\ Needed(job.lens[r]) <= Len(job.tables[r])
             /\ Len(job.tables[r]) <= NumBlocks
  <2>1. PICK n \in 1 .. NumBlocks : job.tables[r] \in [1 .. n -> Blocks]
    <3>1. job.tables[r] \in Tables
      BY <1>1
    <3>2. job.tables[r] \in UNION {[1 .. n -> Blocks] : n \in 1 .. NumBlocks}
      BY <3>1 DEF Tables
    <3>. QED BY <3>2
  <2>2. job.tables[r] \in Seq(Blocks) /\ Len(job.tables[r]) = n
    BY <2>1
  <2>3. job.lens[r] \in Nat \ {0}
    BY <1>1, AttentionAssumption
  <2>4. Needed(job.lens[r]) \in Nat \ {0}
    <3> DEFINE len == job.lens[r]
               m == len + PageSize - 1
               c == m \div PageSize
    <3>1. m \in Nat /\ m >= PageSize /\ PageSize \in Nat \ {0}
      BY <2>3, AttentionAssumption
    <3> HIDE DEF m
    <3>2. c \in Nat /\ m % PageSize \in 0 .. (PageSize - 1) /\ m = (PageSize * c) + (m % PageSize)
      BY <3>1, PageAndOffset
    <3> DEFINE x == m % PageSize
    <3> HIDE DEF c, x
    <3>3. c # 0
      <4>1. PageSize * 0 = 0
        BY <3>1
      <4>. QED BY <3>1, <3>2, <4>1 DEF x
    <3>4. Needed(len) = c
      BY <2>3 DEF Needed, NumRequiredBlocks, c, m
    <3> HIDE DEF len
    <3>. QED BY <3>2, <3>3, <3>4 DEF len
  <2> DEFINE have == Len(job.tables[r])
             need == Needed(job.lens[r])
  <2>5. have - need \in {0, 1} /\ have \in Nat
    BY <1>1, <2>2
  <2>6. need <= have
    <3> HIDE DEF have
    <3>1. need \in Nat
      BY <2>4
    <3> HIDE DEF need
    <3>. QED BY <2>5, <3>1
  <2>7. have <= NumBlocks
    BY <2>2
  <2>8. job.lens[r] \in 1 .. MaxLen
    BY <1>1
  <2>. QED BY <2>2, <2>4, <2>6, <2>7, <2>8
<1>3. KvSeqLen \in Nat \ {0}
  BY <1>1, AttentionAssumption DEF KvSeqLen
<1>. QED BY <1>1, <1>2, <1>3

(* A position of a row is in one of the blocks the row needs.              *)
LEMMA PageNeeded ==
  ASSUME job \in Jobs, NEW r \in 1 .. Rows, NEW pos \in Nat, pos < job.lens[r]
  PROVE  /\ pos \div PageSize \in Nat /\ pos \div PageSize < Needed(job.lens[r])
         /\ pos \div PageSize + 1 \in DOMAIN job.tables[r]
         /\ job.tables[r][pos \div PageSize + 1] \in Blocks
         /\ pos % PageSize \in 0 .. (PageSize - 1)
         /\ pos = (PageSize * (pos \div PageSize)) + (pos % PageSize)
<1> DEFINE len == job.lens[r]
           P == PageSize
           q == pos \div P
           x == pos % P
           need == Needed(len)
           have == Len(job.tables[r])
<1>1. P \in Nat \ {0} /\ len \in Nat
  BY RowTypes, AttentionAssumption
<1>2. q \in Nat /\ x \in 0 .. (P - 1) /\ pos = (P * q) + x
  BY <1>1, PageAndOffset
<1>3. need \in Nat /\ need <= have /\ job.tables[r] \in Seq(Blocks) /\ have \in Nat
  BY RowTypes
<1> HIDE DEF q, x, P
<1>4. q < need
  <2> DEFINE m == len + P - 1
             c == m \div P
             y == m % P
  <2>1. m \in Nat
    BY <1>1
  <2>2. c \in Nat /\ y \in 0 .. (P - 1) /\ m = (P * c) + y
    BY <1>1, <2>1, PageAndOffset
  <2>3. c = need
    BY DEF Needed, NumRequiredBlocks, P
  <2>4. pos < len
    OBVIOUS
  <2> HIDE DEF len, c, y, need
  <2>5. P * q \in Nat /\ P * c \in Nat /\ x \in Nat /\ y \in Nat /\ y < P
    BY <1>1, <1>2, <2>2
  <2>6. (P * q) + P <= (P * c) + y
    BY <1>1, <1>2, <2>2, <2>4, <2>5
  <2>7. ASSUME c <= q PROVE FALSE
    <3>1. q = c + (q - c) /\ q - c \in Nat
      BY <1>2, <2>2, <2>7
    <3>2. \A d \in Nat : P * (c + d) = (P * c) + (P * d) /\ P * d >= 0
      BY <1>1, <2>2
    <3>3. P * q = (P * c) + (P * (q - c)) /\ P * (q - c) >= 0
      BY <3>1, <3>2
    <3>4. P * q >= P * c
      <4> DEFINE z == P * (q - c)
      <4>1. z \in Int
        BY <1>1, <3>1
      <4>2. P * q = (P * c) + z /\ z >= 0
        BY <3>3
      <4> HIDE DEF z
      <4>. QED BY <2>5, <4>1, <4>2
    <3>. QED BY <1>1, <2>5, <2>6, <3>4
  <2>. QED BY <1>2, <2>2, <2>3, <2>7
<1>5. q + 1 \in DOMAIN job.tables[r]
  <2>1. q + 1 <= have /\ q + 1 \in Nat /\ q + 1 >= 1
    <3> HIDE DEF need, have
    <3>. QED BY <1>2, <1>3, <1>4
  <2>2. DOMAIN job.tables[r] = 1 .. have
    BY <1>3
  <2> HIDE DEF have
  <2>. QED BY <1>3, <2>1, <2>2
<1>6. job.tables[r][q + 1] \in Blocks
  BY <1>3, <1>5
<1>. QED BY <1>2, <1>4, <1>5, <1>6 DEF q, x, P, need

(* No two tokens of a batch share a slot.                                  *)
LEMMA SlotsApart ==
  ASSUME job \in Jobs,
         NEW r \in 1 .. Rows, NEW i \in Nat, i < job.lens[r],
         NEW s \in 1 .. Rows, NEW k \in Nat, k < job.lens[s], SlotOf(r, i) = SlotOf(s, k)
  PROVE  r = s /\ i = k
<1> DEFINE P == PageSize
           b == job.tables[r][i \div P + 1]
           c == job.tables[s][k \div P + 1]
<1>1. P \in Nat \ {0}
  BY AttentionAssumption
<1>2. /\ b \in Blocks /\ c \in Blocks
      /\ i \div P + 1 \in DOMAIN job.tables[r] /\ k \div P + 1 \in DOMAIN job.tables[s]
      /\ i \div P \in Nat /\ k \div P \in Nat
      /\ i % P \in 0 .. (P - 1) /\ k % P \in 0 .. (P - 1)
      /\ i = (P * (i \div P)) + (i % P) /\ k = (P * (k \div P)) + (k % P)
  BY PageNeeded
<1>3. SlotOf(r, i) = b * P + (i % P) /\ SlotOf(s, k) = c * P + (k % P)
  BY DEF SlotOf, PhysicalTokenIndex
<1>4. b \in Nat /\ c \in Nat
  BY <1>2 DEF Blocks
<1> DEFINE x == i % P
           y == k % P
           p == i \div P
           q == k \div P
<1> HIDE DEF b, c, x, y, P
<1>5. b = c /\ x = y
  <2>1. x \in 0 .. (P - 1) /\ y \in 0 .. (P - 1)
    BY <1>2 DEF x, y
  <2>2. b * P + x = c * P + y
    BY <1>3 DEF x, y
  <2>. QED BY <1>1, <1>4, <2>1, <2>2, SlotUnique
<1>6. r = s
  <2>1. \A u, v \in 1 .. Rows : \A a \in DOMAIN job.tables[u], e \in DOMAIN job.tables[v] :
          job.tables[u][a] = job.tables[v][e] => u = v
    BY DEF Jobs
  <2>. QED BY <1>2, <1>5, <2>1 DEF b, c
<1>7. p + 1 = q + 1
  <2>1. job.tables[r] \in Tables
    BY DEF Jobs
  <2>2. \A a, e \in DOMAIN job.tables[r] : job.tables[r][a] = job.tables[r][e] => a = e
    BY <2>1 DEF Tables
  <2>. QED BY <1>2, <1>5, <1>6, <2>2 DEF b, c
<1>8. p = q
  <2>1. p \in Nat /\ q \in Nat
    BY <1>2
  <2> HIDE DEF p, q
  <2>. QED BY <1>7, <2>1
<1>. QED BY <1>2, <1>5, <1>6, <1>8 DEF x, y

(* So the pool holds a token where its row's table says it is.             *)
LEMMA PoolHolds ==
  ASSUME job \in Jobs, NEW r \in 1 .. Rows, NEW pos \in Nat, pos < job.lens[r]
  PROVE  Pool(SlotOf(r, pos)) = Tag(r, pos)
<1> DEFINE held == {w \in (1 .. Rows) \X (0 .. (MaxLen - 1)) :
                      w[2] < job.lens[w[1]] /\ SlotOf(w[1], w[2]) = SlotOf(r, pos)}
           x == <<r, pos>>
<1>1. x \in held
  <2>1. pos \in 0 .. (MaxLen - 1)
    BY RowTypes, AttentionAssumption
  <2>2. x \in (1 .. Rows) \X (0 .. (MaxLen - 1)) /\ x[1] = r /\ x[2] = pos
    BY <2>1
  <2>. QED BY <2>2
<1>2. ASSUME NEW w \in held PROVE w = x
  <2>1. w[1] \in 1 .. Rows /\ w[2] \in Nat /\ w[2] < job.lens[w[1]] /\ w = <<w[1], w[2]>>
    OBVIOUS
  <2>2. w[1] = r /\ w[2] = pos
    BY <2>1, SlotsApart
  <2>. QED BY <2>1, <2>2
<1> HIDE DEF held, x
<1>3. held # {} /\ (CHOOSE w \in held : TRUE) = x
  BY <1>1, <1>2
<1>. QED BY <1>3 DEF Pool, held, x, Tag

(* The lines of the dense table are as long as the longest row needs.      *)
LEMMA DenseWidthFits ==
  ASSUME job \in Jobs
  PROVE  /\ DenseWidth \in Nat \ {0}
         /\ \A r \in 1 .. Rows : Needed(job.lens[r]) <= DenseWidth
<1> DEFINE T == {Needed(job.lens[r]) : r \in 1 .. Rows}
<1>1. T \in SUBSET (0 .. NumBlocks) /\ T # {} /\ \A y \in T : y \in Nat \ {0}
  <2>1. \A r \in 1 .. Rows : Needed(job.lens[r]) \in 0 .. NumBlocks /\ Needed(job.lens[r]) # 0
    <3>1. TAKE r \in 1 .. Rows
    <3> DEFINE need == Needed(job.lens[r])
               have == Len(job.tables[r])
    <3>2. need \in Nat \ {0} /\ need <= have /\ have <= NumBlocks /\ have \in Nat
      BY RowTypes
    <3> HIDE DEF need, have
    <3>3. need \in 0 .. NumBlocks /\ need # 0
      BY <3>2
    <3>. QED BY <3>3 DEF need
  <2>2. 1 \in 1 .. Rows
    BY AttentionAssumption
  <2>. QED BY <2>1, <2>2
<1> HIDE DEF T
<1>2. PICK x \in T : \A y \in T : y <= x
  <2>1. NumBlocks \in Nat
    OBVIOUS
  <2>. QED BY <1>1, <2>1, LargestOf
<1>3. DenseWidth \in T /\ \A y \in T : DenseWidth >= y
  <2>1. DenseWidth = CHOOSE y \in T : \A z \in T : y >= z
    BY DEF DenseWidth, Max, T
  <2>2. \E y \in T : \A z \in T : y >= z
    BY <1>1, <1>2
  <2>. QED BY <2>1, <2>2
<1>. QED BY <1>1, <1>3 DEF T

(* The dense table has the blocks of a row where the kernel looks.         *)
LEMMA DenseFinds ==
  ASSUME job \in Jobs, NEW r \in 1 .. Rows, NEW pos \in Nat, pos < job.lens[r]
  PROVE  DenseSlot(r, pos) = SlotOf(r, pos)
<1> DEFINE W == DenseWidth
           q == pos \div PageSize
           i == (r - 1) * W + q
<1>1. W \in Nat \ {0} /\ Needed(job.lens[r]) <= W /\ Needed(job.lens[r]) \in Nat
  BY DenseWidthFits, RowTypes
<1>2. q \in Nat /\ q < Needed(job.lens[r])
  BY PageNeeded
<1> HIDE DEF W, q
<1>3. r - 1 \in Nat /\ q \in 0 .. (W - 1) /\ r <= Rows /\ Rows \in Nat \ {0}
  BY <1>1, <1>2, AttentionAssumption
<1>4. i \in Nat /\ i \div W = r - 1 /\ i % W = q
  BY <1>1, <1>3, TakenApart
<1>5. i \in 0 .. (Rows * W - 1)
  <2>1. (r - 1) * W \in Nat /\ Rows * W \in Nat
    BY <1>1, <1>3
  <2>2. (r - 1) * W + W <= Rows * W
    <3>1. r - 1 < Rows
      BY <1>3
    <3>. QED BY <1>1, <1>3, <3>1, LaterRow
  <2> DEFINE u == (r - 1) * W
             v == Rows * W
  <2> HIDE DEF u, v, i
  <2>3. u + W <= v /\ u \in Nat /\ v \in Nat /\ i \in Nat /\ i = u + q
    BY <1>4, <2>1, <2>2 DEF u, v, i
  <2>4. i \in 0 .. (v - 1)
    BY <1>1, <1>3, <2>3
  <2>. QED BY <2>4 DEF v
<1> HIDE DEF i
<1>6. Dense[i] = job.tables[r][q + 1]
  <2>1. (i \div W) + 1 = r
    BY <1>3, <1>4
  <2>2. Dense[i] = IF i % W < Needed(job.lens[(i \div W) + 1])
                   THEN job.tables[(i \div W) + 1][(i % W) + 1] ELSE -1
    BY <1>5 DEF Dense, W
  <2>. QED BY <1>2, <1>4, <2>1, <2>2
<1>7. DenseIndex(r, q) = i
  BY DEF DenseIndex, i, W
<1>. QED BY <1>6, <1>7 DEF DenseSlot, SlotOf, PhysicalTokenIndex, q

(* Each of the three kernels reads the token it should.                    *)
LEMMA KeyIsToken ==
  ASSUME job \in Jobs, NEW key \in 0 .. (KvSeqLen - 1)
  PROVE  KeyAt(key) = Tag(job.row, key) /\ Pool(SlotOf(job.row, key)) = Tag(job.row, key)
<1>1. job.row \in 1 .. Rows /\ key \in Nat /\ key < job.lens[job.row]
  BY RowTypes DEF KvSeqLen
<1>2. Pool(SlotOf(job.row, key)) = Tag(job.row, key) /\ DenseSlot(job.row, key) = SlotOf(job.row, key)
  BY <1>1, PoolHolds, DenseFinds
<1>. QED BY <1>1, <1>2, RowTypes DEF KeyAt

-----------------------------------------------------------------------------
(* The threads' shares.                                                    *)

(* The phases of a key, and their arithmetic.                              *)
LEMMA PhaseTypes ==
  ASSUME AttendInv
  PROVE  /\ KvSeqLen \in Nat \ {0} /\ phase.key \in Nat /\ phase.key < KvSeqLen
         /\ phase.key \in 0 .. (KvSeqLen - 1)
         /\ NumThreads \in Nat \ {0} /\ 0 \in Threads /\ HeadDim \in Nat \ {0}
         /\ \A d \in Dims : d \in Nat /\ d % NumThreads \in Threads
         /\ Threads = 0 .. (NumThreads - 1)
<1>1. KvSeqLen \in Nat \ {0} /\ phase.key \in 0 .. (KvSeqLen - 1)
  BY RowTypes DEF AttendInv, PhaseHolds
<1>2. NumThreads \in Nat \ {0} /\ HeadDim \in Nat \ {0}
  BY NumThreadsType, AttentionAssumption
<1>3. \A d \in Dims : d \in Nat
  BY <1>2 DEF Dims
<1>4. \A d \in Dims : d % NumThreads \in Threads
  BY <1>2, <1>3, PageAndOffset DEF Threads
<1>5. phase.key \in Nat /\ phase.key < KvSeqLen
  <2> DEFINE k == phase.key
             n == KvSeqLen
  <2>1. n \in Nat \ {0} /\ k \in 0 .. (n - 1)
    BY <1>1
  <2> HIDE DEF k, n
  <2>2. k \in Nat /\ k < n
    BY <2>1
  <2>. QED BY <2>2 DEF k, n
<1>6. 0 \in Threads
  BY <1>2 DEF Threads
<1>. QED BY <1>1, <1>2, <1>3, <1>4, <1>5, <1>6 DEF Threads

(* A thread's share of the elements is a residue class.                    *)
LEMMA MineIsResidue ==
  ASSUME NEW t
  PROVE  /\ Mine(t, HeadDim) = Residue(NumThreads, t)
         /\ \A d \in Dims : d \in Mine(t, HeadDim) <=> d % NumThreads = t
BY DEF Mine, Residue, Dims

(* Bags of terms of different elements add up to the bag of both.          *)
LEMMA TermsAdd ==
  ASSUME NEW row, NEW key, NEW A, NEW B, NEW C, C = A \cup B, A \cap B = {}
  PROVE  Terms(row, key, A) (+) Terms(row, key, B) = Terms(row, key, C)
<1> DEFINE x == Tag(row, key)
           S == {x} \X A
           T == {x} \X B
           U == {x} \X C
<1>1. U = S \cup T /\ S \cap T = {}
  OBVIOUS
<1> HIDE DEF S, T, U
<1>2. SetToBag(S) (+) SetToBag(T) = SetToBag(U)
  <2>1. DOMAIN SetToBag(S) = S /\ DOMAIN SetToBag(T) = T /\ DOMAIN SetToBag(U) = U
    BY DEF SetToBag
  <2>2. \A e \in U : (IF e \in S THEN SetToBag(S)[e] ELSE 0) + (IF e \in T THEN SetToBag(T)[e] ELSE 0) = 1
    BY <1>1 DEF SetToBag
  <2>3. SetToBag(S) (+) SetToBag(T)
          = [e \in S \cup T |-> (IF e \in S THEN SetToBag(S)[e] ELSE 0)
                                + (IF e \in T THEN SetToBag(T)[e] ELSE 0)]
    BY <2>1 DEF (+)
  <2>. QED BY <1>1, <2>2, <2>3 DEF SetToBag
<1>. QED BY <1>2 DEF Terms, S, T, U, x

(* Remainders modulo twice a stride refine those modulo the stride.        *)
LEMMA ClassesHalve ==
  ASSUME NEW S \in SUBSET Nat, NEW s \in Nat \ {0}, NEW t \in 0 .. (s - 1)
  PROVE  /\ {d \in S : d % s = t} = {d \in S : d % (2 * s) = t} \cup {d \in S : d % (2 * s) = t + s}
         /\ {d \in S : d % (2 * s) = t} \cap {d \in S : d % (2 * s) = t + s} = {}
<1>1. ASSUME NEW d \in Nat
      PROVE  d % s = t <=> d % (2 * s) = t \/ d % (2 * s) = t + s
  <2> DEFINE q == d \div (2 * s)
             r == d % (2 * s)
  <2>1. 2 * s \in Nat \ {0}
    OBVIOUS
  <2>2. q \in Nat /\ r \in 0 .. (2 * s - 1) /\ d = ((2 * s) * q) + r
    BY <2>1, PageAndOffset
  <2> HIDE DEF q, r
  <2>3. CASE r < s
    <3>1. r \in 0 .. (s - 1)
      BY <2>2, <2>3
    <3>2. d = (2 * q) * s + r /\ 2 * q \in Nat
      BY <2>2
    <3>3. d % s = r
      BY <3>1, <3>2, TakenApart
    <3>4. d % s = t <=> r = t
      BY <3>3
    <3>5. r # t + s
      BY <2>2, <2>3
    <3>. QED BY <3>4, <3>5 DEF r
  <2>4. CASE ~ (r < s)
    <3>1. r - s \in 0 .. (s - 1)
      BY <2>2, <2>4
    <3>2. d = (2 * q + 1) * s + (r - s) /\ 2 * q + 1 \in Nat
      BY <2>2
    <3>3. d % s = r - s
      BY <3>1, <3>2, TakenApart
    <3>4. d % s = t <=> r = t + s
      BY <2>2, <3>3
    <3>5. r # t
      BY <2>2, <2>4
    <3>. QED BY <3>4, <3>5 DEF r
  <2>. QED BY <2>3, <2>4
<1>2. \A d \in S : d \in Nat
  OBVIOUS
<1>3. t # t + s
  OBVIOUS
<1> DEFINE whole == 2 * s
           upper == t + s
<1>4. \A d \in S : /\ d % s = t <=> d % whole = t \/ d % whole = upper
                   /\ ~ (d % whole = t /\ d % whole = upper)
  BY <1>1, <1>2, <1>3
<1> HIDE DEF whole, upper
<1>5. /\ {d \in S : d % s = t} = {d \in S : d % whole = t} \cup {d \in S : d % whole = upper}
      /\ {d \in S : d % whole = t} \cap {d \in S : d % whole = upper} = {}
  BY <1>4
<1>. QED BY <1>5 DEF whole, upper

(* So do those of the elements of a head.                                  *)
LEMMA HalvesOfResidue ==
  ASSUME NEW s \in Nat \ {0}, NEW t \in 0 .. (s - 1)
  PROVE  /\ Residue(s, t) = Residue(2 * s, t) \cup Residue(2 * s, t + s)
         /\ Residue(2 * s, t) \cap Residue(2 * s, t + s) = {}
<1>1. Dims \in SUBSET Nat
  BY AttentionAssumption DEF Dims
<1>. QED BY <1>1, ClassesHalve DEF Residue

(* With one cell left it has every element.                                *)
LEMMA WholeResidue == Residue(1, 0) = Dims
<1>1. \A d \in Nat : d % 1 = 0
  OBVIOUS
<1>2. \A d \in Dims : d \in Nat
  BY AttentionAssumption DEF Dims
<1>. QED BY <1>1, <1>2 DEF Residue

(* A sequence with one element more.                                       *)
LEMMA GrownByOne ==
  ASSUME NEW T, NEW k \in Nat, NEW a \in [1 .. k -> T], NEW b \in [1 .. (k + 1) -> T],
         \A i \in 1 .. k : b[i] = a[i]
  PROVE  Append(a, b[k + 1]) = b
<1> DEFINE e == b[k + 1]
           c == Append(a, e)
<1>1. e \in T /\ a \in Seq(T) /\ Len(a) = k /\ b \in Seq(T) /\ Len(b) = k + 1
  OBVIOUS
<1> HIDE DEF e
<1>2. c \in Seq(T) /\ Len(c) = k + 1 /\ (\A i \in 1 .. k : c[i] = a[i]) /\ c[k + 1] = e
  BY <1>1, AppendProperties
<1> HIDE DEF c
<1>3. \A i \in 1 .. (k + 1) : c[i] = b[i]
  <2>1. \A i \in 1 .. (k + 1) : i \in 1 .. k \/ i = k + 1
    OBVIOUS
  <2>. QED BY <1>2, <2>1 DEF e
<1>4. c = b
  BY <1>1, <1>2, <1>3, SeqEqual
<1>. QED BY <1>4 DEF c, e

(* One more token.                                                         *)
LEMMA OneMore ==
  ASSUME NEW row, NEW k \in Nat
  PROVE  /\ Append(Tags(row, k), Tag(row, k)) = Tags(row, k + 1)
         /\ Append(Pairs(row, k), <<Tag(row, k), Tag(row, k)>>) = Pairs(row, k + 1)
         /\ Tags(row, 0) = << >> /\ Pairs(row, 0) = << >>
<1> DEFINE T == {row} \X Int
<1>1. \A i \in Int : Tag(row, i) \in T
  BY DEF Tag
<1>2. \A i \in 1 .. (k + 1) : i - 1 \in Int
  OBVIOUS
<1>3. (\A i \in 1 .. k : i \in 1 .. (k + 1)) /\ k + 1 \in 1 .. (k + 1) /\ (k + 1) - 1 = k
  OBVIOUS
<1> HIDE DEF T
<1>4. Append(Tags(row, k), Tag(row, k)) = Tags(row, k + 1)
  <2>1. /\ Tags(row, k) \in [1 .. k -> T] /\ Tags(row, k + 1) \in [1 .. (k + 1) -> T]
        /\ \A i \in 1 .. k : Tags(row, k + 1)[i] = Tags(row, k)[i]
    BY <1>1, <1>2, <1>3 DEF Tags
  <2>2. Tags(row, k + 1)[k + 1] = Tag(row, k)
    BY <1>3 DEF Tags
  <2>. QED BY <2>1, <2>2, GrownByOne
<1>5. Append(Pairs(row, k), <<Tag(row, k), Tag(row, k)>>) = Pairs(row, k + 1)
  <2> DEFINE P == T \X T
  <2>1. \A i \in Int : <<Tag(row, i), Tag(row, i)>> \in P
    BY <1>1
  <2> HIDE DEF P
  <2>2. /\ Pairs(row, k) \in [1 .. k -> P] /\ Pairs(row, k + 1) \in [1 .. (k + 1) -> P]
        /\ \A i \in 1 .. k : Pairs(row, k + 1)[i] = Pairs(row, k)[i]
    BY <1>2, <1>3, <2>1 DEF Pairs
  <2>3. Pairs(row, k + 1)[k + 1] = <<Tag(row, k), Tag(row, k)>>
    BY <1>3 DEF Pairs
  <2>. QED BY <2>2, <2>3, GrownByOne
<1>6. Tags(row, 0) = << >> /\ Pairs(row, 0) = << >>
  BY DEF Tags, Pairs
<1>. QED BY <1>4, <1>5, <1>6

-----------------------------------------------------------------------------
(* The steps of the kernel.                                                *)

(* Before the first barrier nothing is said of what is not cleared.        *)
LEMMA InitAttends == Init => AttendInv
<1> SUFFICES ASSUME Init PROVE AttendInv
  OBVIOUS
<1>1. job \in Jobs /\ phase = [at |-> "init", key |-> 0, stride |-> 0] /\ waiting = {}
  BY DEF Init
<1>2. KvSeqLen \in Nat \ {0}
  BY <1>1, RowTypes
<1>3. PhaseHolds
  BY <1>1, <1>2 DEF PhaseHolds
<1>4. AccHolds /\ SoftmaxHolds /\ ReduceHolds /\ OutputHolds
  BY <1>1 DEF Init, AccHolds, SoftmaxHolds, ReduceHolds, OutputHolds, Scored
<1>. QED BY <1>3, <1>4 DEF AttendInv

(* What a thread that arrives leaves as it is.                             *)
LEMMA Arrives ==
  ASSUME AttendInv, NEW t \in Threads, NEW at, Working(t, at)
  PROVE  /\ phase.at = at /\ phase' = phase /\ job' = job /\ KvSeqLen' = KvSeqLen
         /\ t \notin waiting /\ waiting' = waiting \cup {t}
         /\ PhaseHolds'
<1>1. phase.at = at /\ phase' = phase /\ job' = job /\ t \notin waiting /\ waiting' = waiting \cup {t}
  BY DEF Working, Runs, Arrive
<1>2. KvSeqLen' = KvSeqLen
  BY <1>1 DEF KvSeqLen
<1>. QED BY <1>1, <1>2 DEF AttendInv, PhaseHolds

(* Clearing.                                                               *)
LEMMA ClearKeeps ==
  ASSUME AttendInv, NEW t \in Threads, Clear(t)
  PROVE  AttendInv'
<1>1. Working(t, "init")
  BY DEF Clear
<1>2. /\ phase.at = "init" /\ phase' = phase /\ job' = job /\ KvSeqLen' = KvSeqLen
      /\ waiting' = waiting \cup {t} /\ PhaseHolds'
  BY <1>1, Arrives
<1>3. AccHolds'
  BY <1>2, MineIsResidue DEF Clear, AttendInv, AccHolds
<1>4. SoftmaxHolds'
  BY <1>2 DEF Clear, AttendInv, SoftmaxHolds, Scored
<1>5. ReduceHolds' /\ OutputHolds'
  BY <1>2 DEF Clear, AttendInv, ReduceHolds, OutputHolds
<1>. QED BY <1>2, <1>3, <1>4, <1>5 DEF AttendInv

(* Partial dot products.                                                   *)
LEMMA DotKeeps ==
  ASSUME AttendInv, NEW t \in Threads, Dot(t)
  PROVE  AttendInv'
<1>1. Working(t, "dot")
  BY DEF Dot
<1>2. /\ phase.at = "dot" /\ phase' = phase /\ job' = job /\ KvSeqLen' = KvSeqLen
      /\ waiting' = waiting \cup {t} /\ PhaseHolds' /\ UNCHANGED <<acc, softmax, weights, output>>
  BY <1>1, Arrives DEF Dot
<1>3. AccHolds'
  BY <1>2 DEF AttendInv, AccHolds, AccKeys
<1>4. SoftmaxHolds'
  BY <1>2 DEF AttendInv, SoftmaxHolds, Scored
<1>5. ReduceHolds'
  <2> DEFINE new == Terms(job.row, phase.key, Residue(NumThreads, t))
  <2>1. KeyAt(phase.key) = Tag(job.row, phase.key)
    BY KeyIsToken DEF AttendInv, PhaseHolds
  <2>2. reduce' = [reduce EXCEPT ![t] = new]
    BY <2>1, MineIsResidue DEF Dot, Terms
  <2> HIDE DEF new
  <2>3. reduce' = [u \in Threads |-> reduce'[u]] /\ reduce'[t] = new
        /\ \A u \in Threads \ {t} : reduce'[u] = reduce[u]
    BY <2>2 DEF AttendInv, ReduceHolds
  <2>4. \A u \in waiting : u \in Threads /\ reduce[u] = Terms(job.row, phase.key, Residue(NumThreads, u))
    BY <1>2 DEF AttendInv, ReduceHolds, PhaseHolds
  <2>5. \A u \in waiting' : reduce'[u] = Terms(job.row, phase.key, Residue(NumThreads, u))
    BY <1>2, <2>3, <2>4 DEF new
  <2>. QED BY <1>2, <2>3, <2>5 DEF ReduceHolds
<1>6. OutputHolds'
  BY <1>2 DEF AttendInv, OutputHolds
<1>. QED BY <1>2, <1>3, <1>4, <1>5, <1>6 DEF AttendInv

(* A level of the tree.                                                    *)
LEMMA FoldKeeps ==
  ASSUME AttendInv, StrideFits, NEW t \in Threads, Fold(t)
  PROVE  AttendInv'
<1> DEFINE s == phase.stride
           term(dims) == Terms(job.row, phase.key, dims)
<1>1. Working(t, "reduce")
  BY DEF Fold
<1>2. /\ phase.at = "reduce" /\ phase' = phase /\ job' = job /\ KvSeqLen' = KvSeqLen
      /\ waiting' = waiting \cup {t} /\ t \notin waiting
      /\ PhaseHolds' /\ UNCHANGED <<acc, softmax, weights, output>>
  BY <1>1, Arrives DEF Fold
<1>3. AccHolds'
  BY <1>2 DEF AttendInv, AccHolds, AccKeys
<1>4. SoftmaxHolds'
  BY <1>2 DEF AttendInv, SoftmaxHolds, Scored
<1>5. ReduceHolds'
  <2>1. s \in Nat \ {0} /\ 2 * s <= NumThreads /\ NumThreads \in Nat /\ Threads = 0 .. (NumThreads - 1)
    BY <1>2, NumThreadsType DEF AttendInv, PhaseHolds, Strides, StrideFits, Threads
  <2>2. \A u \in Threads :
          u < 2 * s => reduce[u] = term(Residue(IF u < s /\ u \in waiting THEN s ELSE 2 * s, u))
    BY <1>2 DEF AttendInv, ReduceHolds, CellsInUse
  <2>3. reduce = [u \in Threads |-> reduce[u]]
    BY DEF AttendInv, ReduceHolds
  <2>4. CASE t < s
    <3> DEFINE new == reduce[t] (+) reduce[t + s]
    <3>1. reduce' = [reduce EXCEPT ![t] = new]
      BY <2>4 DEF Fold, Folds, Other
    <3>2. new = term(Residue(s, t))
      <4>1. t \in 0 .. (s - 1) /\ t + s \in Threads /\ t < 2 * s /\ t + s < 2 * s /\ ~ (t + s < s)
        BY <2>1, <2>4
      <4>2. reduce[t] = term(Residue(2 * s, t)) /\ reduce[t + s] = term(Residue(2 * s, t + s))
        BY <1>2, <2>2, <4>1
      <4>3. /\ Residue(s, t) = Residue(2 * s, t) \cup Residue(2 * s, t + s)
            /\ Residue(2 * s, t) \cap Residue(2 * s, t + s) = {}
        BY <2>1, <4>1, HalvesOfResidue
      <4>. QED BY <4>2, <4>3, TermsAdd
    <3> HIDE DEF new, term
    <3>3. reduce' = [u \in Threads |-> reduce'[u]] /\ reduce'[t] = new
          /\ \A u \in Threads \ {t} : reduce'[u] = reduce[u]
      BY <2>3, <3>1
    <3>4. \A u \in Threads :
            u < 2 * s => reduce'[u] = term(Residue(IF u < s /\ u \in waiting' THEN s ELSE 2 * s, u))
      BY <1>2, <2>2, <2>4, <3>2, <3>3
    <3>. QED BY <1>2, <3>3, <3>4 DEF ReduceHolds, CellsInUse, term
  <2>5. CASE ~ (t < s)
    <3>1. reduce' = reduce
      BY <2>5 DEF Fold, Folds
    <3>2. \A u \in Threads :
            u < 2 * s => reduce'[u] = term(Residue(IF u < s /\ u \in waiting' THEN s ELSE 2 * s, u))
      BY <1>2, <2>2, <2>5, <3>1
    <3> HIDE DEF term
    <3>. QED BY <1>2, <2>3, <3>1, <3>2 DEF ReduceHolds, CellsInUse, term
  <2>. QED BY <2>4, <2>5
<1>6. OutputHolds'
  BY <1>2 DEF AttendInv, OutputHolds
<1>. QED BY <1>2, <1>3, <1>4, <1>5, <1>6 DEF AttendInv

(* The running softmax takes in the token, with its own score.             *)
LEMMA RescaleKeeps ==
  ASSUME AttendInv, NEW t \in Threads, Rescale(t)
  PROVE  AttendInv'
<1>1. Working(t, "score")
  BY DEF Rescale
<1>2. /\ phase.at = "score" /\ phase' = phase /\ job' = job /\ KvSeqLen' = KvSeqLen
      /\ waiting' = waiting \cup {t} /\ t \notin waiting
      /\ PhaseHolds' /\ UNCHANGED <<reduce, acc, output>>
  BY <1>1, Arrives DEF Rescale
<1>3. AccHolds'
  BY <1>2 DEF AttendInv, AccHolds, AccKeys
<1>4. SoftmaxHolds'
  <2>1. KeyAt(phase.key) = Tag(job.row, phase.key) /\ phase.key \in Nat
    BY KeyIsToken, PhaseTypes DEF AttendInv, PhaseHolds
  <2>2. reduce[0] = Terms(job.row, phase.key, Dims)
    BY <1>2 DEF AttendInv, ReduceHolds
  <2>3. ScoreOf(reduce[0]) = Tag(job.row, phase.key)
    BY <2>1, <2>2 DEF ScoreOf, Terms
  <2>4. CASE t = 0
    <3>1. softmax = Tags(job.row, phase.key)
      BY <1>2, <2>4 DEF AttendInv, SoftmaxHolds, Scored
    <3>2. softmax' = Tags(job.row, phase.key + 1) /\ weights' = Tag(job.row, phase.key)
      BY <2>1, <2>3, <2>4, <3>1, OneMore DEF Rescale
    <3>. QED BY <1>2, <2>4, <3>2 DEF SoftmaxHolds, Scored
  <2>5. CASE t # 0
    <3>1. UNCHANGED <<softmax, weights>> /\ (0 \in waiting' <=> 0 \in waiting)
      BY <1>2, <2>5 DEF Rescale
    <3>. QED BY <1>2, <3>1 DEF AttendInv, SoftmaxHolds, Scored
  <2>. QED BY <2>4, <2>5
<1>5. ReduceHolds' /\ OutputHolds'
  BY <1>2 DEF AttendInv, ReduceHolds, OutputHolds
<1>. QED BY <1>2, <1>3, <1>4, <1>5 DEF AttendInv

(* A thread adds the token to the elements it owns.                        *)
LEMMA AccumulateKeeps ==
  ASSUME AttendInv, NEW t \in Threads, Accumulate(t)
  PROVE  AttendInv'
<1>1. Working(t, "accumulate")
  BY DEF Accumulate
<1>2. /\ phase.at = "accumulate" /\ phase' = phase /\ job' = job /\ KvSeqLen' = KvSeqLen
      /\ waiting' = waiting \cup {t} /\ t \notin waiting
      /\ PhaseHolds' /\ UNCHANGED <<reduce, softmax, weights, output>>
  BY <1>1, Arrives DEF Accumulate
<1>3. AccHolds'
  <2> DEFINE tag == Tag(job.row, phase.key)
  <2>1. KeyAt(phase.key) = tag /\ phase.key \in Nat /\ weights = tag
    BY <1>2, KeyIsToken, PhaseTypes DEF AttendInv, PhaseHolds, SoftmaxHolds, Scored
  <2>2. acc' = [d \in Dims |-> IF d % NumThreads = t THEN Append(acc[d], <<tag, tag>>) ELSE acc[d]]
    BY <2>1, MineIsResidue DEF Accumulate
  <2>3. ASSUME NEW d \in Dims
        PROVE  acc'[d] = Pairs(job.row, IF d % NumThreads \in waiting' THEN phase.key + 1 ELSE phase.key)
    <3>1. acc[d] = Pairs(job.row, IF d % NumThreads \in waiting THEN phase.key + 1 ELSE phase.key)
      BY <1>2 DEF AttendInv, AccHolds, AccKeys
    <3>2. CASE d % NumThreads = t
      <4>1. acc[d] = Pairs(job.row, phase.key) /\ d % NumThreads \in waiting'
        BY <1>2, <3>1, <3>2
      <4>2. acc'[d] = Append(acc[d], <<tag, tag>>)
        BY <2>2, <3>2
      <4>. QED BY <2>1, <4>1, <4>2, OneMore
    <3>3. CASE d % NumThreads # t
      BY <1>2, <2>2, <3>1, <3>3
    <3>. QED BY <3>2, <3>3
  <2>. QED BY <1>2, <2>2, <2>3 DEF AccHolds, AccKeys
<1>4. SoftmaxHolds'
  BY <1>2 DEF AttendInv, SoftmaxHolds, Scored
<1>5. ReduceHolds' /\ OutputHolds'
  BY <1>2 DEF AttendInv, ReduceHolds, OutputHolds
<1>. QED BY <1>2, <1>3, <1>4, <1>5 DEF AttendInv

(* A thread stores the elements it owns.                                   *)
LEMMA StoreKeeps ==
  ASSUME AttendInv, NEW t \in Threads, Store(t)
  PROVE  AttendInv'
<1>1. Working(t, "store")
  BY DEF Store
<1>2. /\ phase.at = "store" /\ phase' = phase /\ job' = job /\ KvSeqLen' = KvSeqLen
      /\ waiting' = waiting \cup {t} /\ t \notin waiting
      /\ PhaseHolds' /\ UNCHANGED <<reduce, acc, softmax, weights>>
  BY <1>1, Arrives DEF Store
<1>3. AccHolds'
  BY <1>2 DEF AttendInv, AccHolds, AccKeys
<1>4. SoftmaxHolds' /\ ReduceHolds'
  BY <1>2 DEF AttendInv, SoftmaxHolds, Scored, ReduceHolds
<1>5. OutputHolds'
  <2>1. \A d \in Dims : <<acc[d], softmax>> = Attended
    BY <1>2 DEF AttendInv, AccHolds, AccKeys, SoftmaxHolds, Attended
  <2>2. output' = [d \in Dims |-> IF d % NumThreads = t THEN Attended ELSE output[d]]
    BY <2>1, MineIsResidue DEF Store
  <2>3. Attended' = Attended
    BY <1>2 DEF Attended
  <2>4. \A d \in Dims : d % NumThreads \in waiting => output[d] = Attended
    BY <1>2 DEF AttendInv, OutputHolds
  <2>5. \A d \in Dims : d % NumThreads \in waiting' => output'[d] = Attended
    BY <1>2, <2>2, <2>4
  <2>. QED BY <1>2, <2>2, <2>3, <2>5 DEF OutputHolds
<1>. QED BY <1>2, <1>3, <1>4, <1>5 DEF AttendInv

(* The tree reduces the array to the half of a stride, or is at its end.   *)
LEMMA ReducingIs ==
  ASSUME NEW s \in Nat
  PROVE  /\ s > 0 => Reducing(s) = [at |-> "reduce", key |-> phase.key, stride |-> s]
         /\ s = 0 => Reducing(s) = [at |-> "score", key |-> phase.key, stride |-> 0]
BY DEF Reducing, At

(* Halves of the powers of two.                                            *)
LEMMA StridesHalve ==
  /\ NumThreads = 1 \/ (FirstStride \in Strides /\ 2 * FirstStride = NumThreads)
  /\ NumThreads = 1 => FirstStride = 0
  /\ \A s \in Strides : /\ s \in Nat \ {0}
                        /\ \/ s = 1 /\ NextStride(s) = 0
                           \/ NextStride(s) \in Strides /\ 2 * NextStride(s) = s
BY NumThreadsAssumption DEF FirstStride, NextStride, Strides

(* What a barrier does to the parts which its next phase says alike of.    *)
LEMMA BarrierFacts ==
  ASSUME AttendInv, Barrier
  PROVE  /\ waiting = Threads /\ waiting' = {} /\ phase' = NextPhase /\ job' = job
         /\ KvSeqLen' = KvSeqLen /\ UNCHANGED <<reduce, acc, softmax, weights, output>>
         /\ \A d \in Dims : d % NumThreads \in waiting
         /\ 0 \in waiting /\ \A t \in Threads : t \in waiting
<1>1. waiting = Threads /\ waiting' = {} /\ phase' = NextPhase /\ job' = job
      /\ UNCHANGED <<reduce, acc, softmax, weights, output>>
  BY DEF Barrier, Synchronise
<1>2. KvSeqLen' = KvSeqLen
  BY <1>1 DEF KvSeqLen
<1>. QED BY <1>1, <1>2, PhaseTypes

(* Before the first key.                                                   *)
LEMMA BarrierAfterInit ==
  ASSUME AttendInv, Barrier, phase.at = "init"
  PROVE  AttendInv'
<1>1. phase' = [at |-> "dot", key |-> 0, stride |-> 0] /\ phase.key = 0
  BY BarrierFacts DEF NextPhase, At, AttendInv, PhaseHolds
<1>2. PhaseHolds'
  BY <1>1, BarrierFacts DEF AttendInv, PhaseHolds
<1>3. AccHolds'
  <2>1. \A d \in Dims : acc[d] = Pairs(job.row, 0)
    BY BarrierFacts, OneMore DEF AttendInv, AccHolds
  <2>. QED BY <1>1, <2>1, BarrierFacts DEF AttendInv, AccHolds, AccKeys
<1>4. SoftmaxHolds'
  <2>1. softmax = Tags(job.row, 0)
    BY BarrierFacts, OneMore DEF AttendInv, SoftmaxHolds
  <2>. QED BY <1>1, <2>1, BarrierFacts DEF SoftmaxHolds, Scored
<1>5. ReduceHolds' /\ OutputHolds'
  BY <1>1, BarrierFacts DEF AttendInv, ReduceHolds, OutputHolds
<1>. QED BY <1>2, <1>3, <1>4, <1>5 DEF AttendInv

(* Into the tree, down the tree, and out of it.                            *)
LEMMA BarrierInTree ==
  ASSUME AttendInv, StrideFits, Barrier, phase.at \in {"dot", "reduce"}
  PROVE  AttendInv'
<1> DEFINE term(dims) == Terms(job.row, phase.key, dims)
<1>1. PICK s \in Nat :
        /\ phase' = Reducing(s)
        /\ s = 0 \/ (s \in Strides /\ 2 * s <= NumThreads)
        /\ \A t \in Threads : t < 2 * s => reduce[t] = term(Residue(2 * s, t))
        /\ s = 0 => reduce[0] = term(Dims)
  <2>1. CASE phase.at = "dot"
    <3>1. phase' = Reducing(FirstStride)
      BY <2>1, BarrierFacts DEF NextPhase
    <3>2. \A t \in Threads : reduce[t] = term(Residue(NumThreads, t))
      BY <2>1, BarrierFacts DEF AttendInv, ReduceHolds
    <3>3. CASE NumThreads = 1
      <4>1. FirstStride = 0 /\ 0 \in Threads
        BY <3>3, StridesHalve, PhaseTypes
      <4>2. reduce[0] = term(Dims)
        BY <3>2, <3>3, <4>1, WholeResidue
      <4>3. \A t \in Threads : ~ (t < 2 * FirstStride)
        BY <3>3, <4>1 DEF Threads
      <4>. QED BY <3>1, <4>1, <4>2, <4>3
    <3>4. CASE NumThreads # 1
      <4>1. FirstStride \in Strides /\ 2 * FirstStride = NumThreads /\ FirstStride \in Nat \ {0}
        BY <3>4, StridesHalve
      <4>. QED BY <3>1, <3>2, <4>1, PhaseTypes
    <3>. QED BY <3>3, <3>4
  <2>2. CASE phase.at = "reduce"
    <3> DEFINE s == phase.stride
               n == NextStride(s)
    <3>1. phase' = Reducing(n)
      BY <2>2, BarrierFacts DEF NextPhase
    <3>2. s \in Strides /\ s \in Nat \ {0}
      BY <2>2, StridesHalve DEF AttendInv, PhaseHolds
    <3>3. \A t \in Threads : t < 2 * s => reduce[t] = term(Residue(IF t < s THEN s ELSE 2 * s, t))
      BY <2>2, BarrierFacts DEF AttendInv, ReduceHolds, CellsInUse
    <3> HIDE DEF term
    <3>4. \A t \in Threads : t < s => reduce[t] = term(Residue(s, t))
      BY <3>2, <3>3, PhaseTypes
    <3>5. CASE s = 1 /\ n = 0
      <4>1. reduce[0] = term(Dims)
        BY <3>4, <3>5, WholeResidue, PhaseTypes
      <4>2. \A t \in Threads : ~ (t < 2 * n)
        BY <3>5, PhaseTypes
      <4>. QED BY <3>1, <3>5, <4>1, <4>2 DEF term
    <3>6. CASE n \in Strides /\ 2 * n = s
      <4>1. n \in Nat \ {0}
        BY <3>6, StridesHalve
      <4>2. 2 * n <= NumThreads
        BY <2>2, <3>2, <3>6, NumThreadsType DEF StrideFits
      <4>. QED BY <3>1, <3>4, <3>6, <4>1, <4>2 DEF term
    <3>. QED BY <3>2, <3>5, <3>6, StridesHalve
  <2>. QED BY <2>1, <2>2
<1> HIDE DEF term
<1>2. /\ phase'.at \in {"reduce", "score"} /\ phase'.key = phase.key
      /\ phase'.at = "reduce" => phase'.stride = s /\ s \in Strides
      /\ phase'.at = "score" => s = 0
  BY <1>1, ReducingIs
<1>3. PhaseHolds'
  BY <1>2, BarrierFacts DEF AttendInv, PhaseHolds
<1>4. AccHolds'
  BY <1>2, BarrierFacts DEF AttendInv, AccHolds, AccKeys
<1>5. SoftmaxHolds'
  BY <1>2, BarrierFacts DEF AttendInv, SoftmaxHolds, Scored
<1>6. ReduceHolds'
  <2>1. Terms(job.row, phase.key, Dims)' = term(Dims)
        /\ \A c, t : Terms(job.row, phase.key, Residue(c, t))' = term(Residue(c, t))
    BY <1>2, BarrierFacts DEF term
  <2>2. /\ waiting' = {} /\ reduce' = reduce /\ Threads' = Threads
        /\ reduce = [t \in Threads |-> reduce[t]]
    BY BarrierFacts DEF AttendInv, ReduceHolds, Threads
  <2>3. CASE phase'.at = "reduce"
    <3>1. \A t \in Threads : CellsInUse(t)' = 2 * s
      BY <1>2, <2>2, <2>3 DEF CellsInUse
    <3>2. ASSUME NEW t \in Threads, t < 2 * phase'.stride
          PROVE  Terms(job.row, phase.key, Residue(CellsInUse(t), t))' = reduce'[t]
      <4>1. Residue(CellsInUse(t), t)' = Residue(2 * s, t)
        BY <3>1 DEF Residue
      <4>2. reduce'[t] = term(Residue(2 * s, t))
        BY <1>1, <1>2, <2>2, <2>3, <3>2
      <4>. QED BY <1>2, <4>1, <4>2, BarrierFacts DEF term
    <3>. QED BY <2>2, <2>3, <3>2 DEF ReduceHolds
  <2>4. CASE phase'.at = "score"
    BY <1>1, <1>2, <2>1, <2>2, <2>4 DEF ReduceHolds
  <2>. QED BY <1>2, <2>3, <2>4
<1>7. OutputHolds'
  BY <1>2, BarrierFacts DEF AttendInv, OutputHolds
<1>. QED BY <1>3, <1>4, <1>5, <1>6, <1>7 DEF AttendInv

(* The token has its score.                                                *)
LEMMA BarrierAfterScore ==
  ASSUME AttendInv, Barrier, phase.at = "score"
  PROVE  AttendInv'
<1>1. phase' = [at |-> "accumulate", key |-> phase.key, stride |-> 0]
  BY BarrierFacts DEF NextPhase, At
<1>2. PhaseHolds'
  BY <1>1, BarrierFacts DEF AttendInv, PhaseHolds
<1>3. AccHolds'
  BY <1>1, BarrierFacts DEF AttendInv, AccHolds, AccKeys
<1>4. SoftmaxHolds'
  BY <1>1, BarrierFacts DEF AttendInv, SoftmaxHolds, Scored
<1>5. ReduceHolds' /\ OutputHolds'
  BY <1>1, BarrierFacts DEF AttendInv, ReduceHolds, OutputHolds
<1>. QED BY <1>2, <1>3, <1>4, <1>5 DEF AttendInv

(* The next token, or the end of the row.                                  *)
LEMMA BarrierAfterKey ==
  ASSUME AttendInv, Barrier, phase.at = "accumulate"
  PROVE  AttendInv'
<1> DEFINE k == phase.key
           n == KvSeqLen
<1>1. k \in Nat /\ k < n /\ n \in Nat \ {0}
  BY PhaseTypes
<1>2. (\A d \in Dims : acc[d] = Pairs(job.row, k + 1)) /\ softmax = Tags(job.row, k + 1)
  BY BarrierFacts DEF AttendInv, AccHolds, AccKeys, SoftmaxHolds, Scored
<1>3. CASE k + 1 < n
  <2>1. phase' = [at |-> "dot", key |-> k + 1, stride |-> 0]
    BY <1>3, BarrierFacts DEF NextPhase, KeysLeft, At
  <2>2. k + 1 \in 0 .. (n - 1)
    <3> HIDE DEF k, n
    <3>. QED BY <1>1, <1>3
  <2>3. PhaseHolds'
    BY <2>1, <2>2, BarrierFacts DEF AttendInv, PhaseHolds
  <2>4. AccHolds'
    BY <1>2, <2>1, BarrierFacts DEF AttendInv, AccHolds, AccKeys
  <2>5. SoftmaxHolds' /\ ReduceHolds' /\ OutputHolds'
    BY <1>2, <2>1, BarrierFacts DEF AttendInv, SoftmaxHolds, Scored, ReduceHolds, OutputHolds
  <2>. QED BY <2>3, <2>4, <2>5 DEF AttendInv
<1>4. CASE ~ (k + 1 < n)
  <2>1. phase' = [at |-> "store", key |-> k, stride |-> 0]
    BY <1>4, BarrierFacts DEF NextPhase, KeysLeft, At
  <2>2. k + 1 = n
    <3> HIDE DEF k, n
    <3>. QED BY <1>1, <1>4
  <2>3. PhaseHolds'
    BY <2>1, BarrierFacts DEF AttendInv, PhaseHolds
  <2>4. AccHolds'
    BY <1>2, <2>1, <2>2, BarrierFacts DEF AttendInv, AccHolds, AccKeys
  <2>5. SoftmaxHolds' /\ ReduceHolds' /\ OutputHolds'
    BY <1>2, <2>1, <2>2, BarrierFacts DEF AttendInv, SoftmaxHolds, Scored, ReduceHolds, OutputHolds
  <2>. QED BY <2>3, <2>4, <2>5 DEF AttendInv
<1>. QED BY <1>3, <1>4

(* All is stored.                                                          *)
LEMMA BarrierAfterStore ==
  ASSUME AttendInv, Barrier, phase.at = "store"
  PROVE  AttendInv'
<1>1. phase' = [at |-> "done", key |-> phase.key, stride |-> 0]
  BY BarrierFacts DEF NextPhase, At
<1>2. PhaseHolds'
  BY <1>1, BarrierFacts DEF AttendInv, PhaseHolds
<1>3. AccHolds'
  BY <1>1, BarrierFacts DEF AttendInv, AccHolds, AccKeys
<1>4. SoftmaxHolds' /\ ReduceHolds'
  BY <1>1, BarrierFacts DEF AttendInv, SoftmaxHolds, Scored, ReduceHolds
<1>5. OutputHolds'
  <2>1. Attended' = Attended
    BY BarrierFacts DEF Attended
  <2>. QED BY <1>1, <2>1, BarrierFacts DEF AttendInv, OutputHolds
<1>. QED BY <1>2, <1>3, <1>4, <1>5 DEF AttendInv

(* Every step leaves in shared memory what its phase says.                 *)
LEMMA NextAttends == AttendInv /\ Inv /\ [Next]_vars => AttendInv'
<1> SUFFICES ASSUME AttendInv, Inv, [Next]_vars PROVE AttendInv'
  OBVIOUS
<1>1. CASE UNCHANGED vars
  <2>1. UNCHANGED <<waiting, job, phase, reduce, acc, softmax, weights, output>>
    BY <1>1 DEF vars
  <2>2. KvSeqLen' = KvSeqLen /\ Attended' = Attended
    BY <2>1 DEF KvSeqLen, Attended
  <2>3. PhaseHolds' /\ AccHolds'
    BY <2>1, <2>2 DEF AttendInv, PhaseHolds, AccHolds, AccKeys
  <2>4. SoftmaxHolds' /\ OutputHolds'
    BY <2>1, <2>2 DEF AttendInv, SoftmaxHolds, Scored, OutputHolds
  <2>5. ReduceHolds'
    BY <2>1 DEF AttendInv, ReduceHolds, CellsInUse
  <2>. QED BY <2>3, <2>4, <2>5 DEF AttendInv
<1>2. CASE \E t \in Threads : Clear(t) \/ Dot(t) \/ Fold(t) \/ Rescale(t) \/ Accumulate(t) \/ Store(t)
  BY <1>2, ClearKeeps, DotKeeps, FoldKeeps, RescaleKeeps, AccumulateKeeps, StoreKeeps DEF Inv
<1>3. CASE Barrier
  <2>1. phase.at # "done"
    BY <1>3, BarrierFacts DEF Inv
  <2>2. phase.at \in {"init", "dot", "reduce", "score", "accumulate", "store"}
    BY <2>1 DEF Inv, StrideFits, Phases
  <2>. QED BY <1>3, <2>2, BarrierAfterInit, BarrierInTree, BarrierAfterScore, BarrierAfterKey,
              BarrierAfterStore DEF Inv
<1>. QED BY <1>1, <1>2, <1>3 DEF Next

-----------------------------------------------------------------------------
(* The CPU.                                                                *)

(* It reads the tokens of the row in order.                                *)
LEMMA CpuKeysAre ==
  ASSUME job \in Jobs
  PROVE  CpuKeys = Tags(job.row, KvSeqLen)
<1>1. KvSeqLen \in Nat \ {0}
  BY RowTypes
<1>2. ASSUME NEW k \in 1 .. KvSeqLen
      PROVE  (IF job.kind = "causal" THEN Tag(job.row, k - 1) ELSE Pool(SlotOf(job.row, k - 1)))
               = Tag(job.row, k - 1)
  <2>1. k - 1 \in 0 .. (KvSeqLen - 1)
    <3> DEFINE n == KvSeqLen
    <3>1. n \in Nat \ {0} /\ k \in 1 .. n
      BY <1>1
    <3> HIDE DEF n
    <3>2. k - 1 \in 0 .. (n - 1)
      BY <3>1
    <3>. QED BY <3>2 DEF n
  <2>. QED BY <2>1, KeyIsToken
<1>. QED BY <1>2 DEF CpuKeys, Tags

(* What the first k steps of its pass leave.                               *)
CpuAfter(k) == [softmax |-> Tags(job.row, k), acc |-> [d \in Dims |-> Pairs(job.row, k)]]

CpuStep(f, k) ==
  IF k = 0 THEN [softmax |-> << >>, acc |-> [d \in Dims |-> << >>]]
  ELSE [softmax |-> Append(f[k - 1].softmax, CpuKeys[k]),
        acc |-> [d \in Dims |-> Append(f[k - 1].acc[d], <<CpuKeys[k], CpuKeys[k]>>)]]

(* A step appends the next token.                                          *)
LEMMA CpuStepIs ==
  ASSUME job \in Jobs, NEW f, NEW k \in 0 .. KvSeqLen, k # 0 => f[k - 1] = CpuAfter(k - 1)
  PROVE  CpuStep(f, k) = CpuAfter(k)
<1>1. CASE k = 0
  BY <1>1, OneMore DEF CpuStep, CpuAfter
<1>2. CASE k # 0
  <2>0. KvSeqLen \in Nat
    BY RowTypes
  <2>1. k \in 1 .. KvSeqLen /\ k - 1 \in Nat /\ (k - 1) + 1 = k
    <3> DEFINE n == KvSeqLen
    <3>1. n \in Nat /\ k \in 0 .. n
      BY <2>0
    <3> HIDE DEF n
    <3>2. k \in 1 .. n /\ k - 1 \in Nat /\ (k - 1) + 1 = k
      BY <1>2, <3>1
    <3>. QED BY <3>2 DEF n
  <2>2. CpuKeys[k] = Tag(job.row, k - 1)
    BY <2>1, CpuKeysAre DEF Tags
  <2>3. /\ Append(Tags(job.row, k - 1), CpuKeys[k]) = Tags(job.row, k)
        /\ Append(Pairs(job.row, k - 1), <<CpuKeys[k], CpuKeys[k]>>) = Pairs(job.row, k)
    BY <2>1, <2>2, OneMore
  <2>4. f[k - 1].softmax = Tags(job.row, k - 1)
        /\ \A d \in Dims : f[k - 1].acc[d] = Pairs(job.row, k - 1)
    BY <1>2 DEF CpuAfter
  <2>. QED BY <1>2, <2>3, <2>4 DEF CpuStep, CpuAfter
<1>. QED BY <1>1, <1>2

(* The recursive function is what its definition says.                     *)
LEMMA CpuRunIs ==
  ASSUME job \in Jobs
  PROVE  CpuRun = [k \in 0 .. KvSeqLen |-> CpuStep(CpuRun, k)]
<1> DEFINE F == [k \in 0 .. KvSeqLen |-> CpuAfter(k)]
<1>1. F = [k \in 0 .. KvSeqLen |-> CpuStep(F, k)]
  <2>1. ASSUME NEW k \in 0 .. KvSeqLen PROVE CpuStep(F, k) = CpuAfter(k)
    <3>1. k # 0 => k - 1 \in 0 .. KvSeqLen
      <4> DEFINE n == KvSeqLen
      <4>1. n \in Nat /\ k \in 0 .. n
        BY RowTypes
      <4> HIDE DEF n
      <4>2. k # 0 => k - 1 \in 0 .. n
        BY <4>1
      <4>. QED BY <4>2 DEF n
    <3>2. k # 0 => F[k - 1] = CpuAfter(k - 1)
      BY <3>1
    <3> HIDE DEF F
    <3>. QED BY <3>2, CpuStepIs
  <2>. QED BY <2>1
<1>2. CpuRun = CHOOSE f : f = [k \in 0 .. KvSeqLen |-> CpuStep(f, k)]
  BY DEF CpuRun, CpuStep
<1> HIDE DEF F
<1>. QED BY <1>1, <1>2

(* By the first step that would be otherwise.                              *)
LEMMA CpuRunAttends ==
  ASSUME job \in Jobs, NEW k \in 0 .. KvSeqLen
  PROVE  CpuRun[k] = CpuAfter(k)
<1> DEFINE bad == {i \in 0 .. KvSeqLen : CpuRun[i] # CpuAfter(i)}
<1>1. KvSeqLen \in Nat
  BY RowTypes
<1>2. SUFFICES ASSUME bad # {} PROVE FALSE
  OBVIOUS
<1>3. bad \in SUBSET Nat
  BY <1>1
<1>4. PICK u \in bad : \A v \in bad : u <= v
  <2> HIDE DEF bad
  <2>. QED BY <1>2, <1>3, LeastOf
<1>5. u \in 0 .. KvSeqLen /\ CpuRun[u] # CpuAfter(u)
  BY <1>4
<1>6. u # 0 => u - 1 \in 0 .. KvSeqLen /\ ~ (u <= u - 1)
  <2> DEFINE n == KvSeqLen
  <2>1. n \in Nat /\ u \in 0 .. n
    BY <1>1, <1>5
  <2> HIDE DEF n
  <2>2. u # 0 => u - 1 \in 0 .. n /\ ~ (u <= u - 1)
    BY <2>1
  <2>. QED BY <2>2 DEF n
<1>7. u # 0 => CpuRun[u - 1] = CpuAfter(u - 1)
  BY <1>4, <1>6
<1>8. CpuStep(CpuRun, u) = CpuAfter(u)
  <2> HIDE DEF bad
  <2>. QED BY <1>5, <1>7, CpuStepIs
<1>9. CpuRun[u] = CpuStep(CpuRun, u)
  <2> HIDE DEF bad
  <2>. QED BY <1>5, CpuRunIs
<1>. QED BY <1>5, <1>8, <1>9

(* Both of its ways compute what a kernel leaves in the output.            *)
LEMMA CpuAttends ==
  ASSUME job \in Jobs
  PROVE  CpuOnePass = [d \in Dims |-> Attended] /\ CpuTwoPasses = [d \in Dims |-> Attended]
<1>1. CpuRun[KvSeqLen] = CpuAfter(KvSeqLen)
  <2>1. KvSeqLen \in 0 .. KvSeqLen
    BY RowTypes
  <2>. QED BY <2>1, CpuRunAttends
<1>2. CpuOnePass = [d \in Dims |-> Attended]
  BY <1>1 DEF CpuOnePass, CpuAfter, Attended
<1>3. CpuTwoPasses = [d \in Dims |-> Attended]
  BY CpuKeysAre DEF CpuTwoPasses, Attended, Tags, Pairs
<1>. QED BY <1>2, <1>3

-----------------------------------------------------------------------------
(* The kernels of attention.cu compute the attention of their row, which   *)
(* is what the CPU computes: every element of the output is the values of  *)
(* the row's own tokens, in order and once, each with the weight of its    *)
(* own score, over the sum of the same scores.  For any power of two of    *)
(* threads, any head dimension, page size and batch of block tables.       *)
THEOREM KernelAttends == Spec => []Attends
<1>1. Init => Inv /\ AttendInv
  BY InitFits, InitAttends DEF Init, Inv
<1>2. Inv /\ AttendInv /\ [Next]_vars => Inv' /\ AttendInv'
  BY NextKeeps, NextAttends
<1>3. AttendInv => Attends
  <2>1. SUFFICES ASSUME AttendInv, phase.at = "done"
                 PROVE  /\ output = [d \in Dims |-> Attended]
                        /\ CpuOutputs = {output}
    BY DEF Attends, Attended, Tags, Pairs
  <2>2. output = [d \in Dims |-> Attended]
    BY <2>1 DEF AttendInv, OutputHolds
  <2>. QED BY <2>1, <2>2, CpuAttends DEF CpuOutputs, AttendInv, PhaseHolds
<1>. QED BY <1>1, <1>2, <1>3, PTL DEF Spec

-----------------------------------------------------------------------------
(* The reductions over a row.                                              *)

RowClass(s, t) == {i \in Ids : i % s = t}

(* A cell has the best logit of a class of ids, with its id, or how often  *)
(* each square of the class was added.                                     *)
BestValue(ids) == IF Best(ids, NegFltMax) = {} THEN NegFltMax ELSE Logit(BestOr(ids, NegFltMax, 0))

CellHas(t, ids) ==
  IF kernel = "rms_norm" THEN values[t] = SquaresOf(ids)
  ELSE values[t] = BestValue(ids) /\ indices[t] = BestOr(ids, NegFltMax, 0)

ClassHeld(t, s) == CellHas(t, RowClass(s, t))
RowHeld == CellHas(0, Ids)
RowBest == BestOr(Ids, NegFltMax, 0)
RowSquares == SquaresOf(Ids)

RowTypesHold ==
  /\ kernel \in {"argmax", "rms_norm"} /\ logits \in Seq(Floats) /\ Vocab # 0
  /\ waiting \subseteq Threads
  /\ stage.at \in {"scan", "reduce", "store", "done"}
  /\ stage.at = "reduce" => stage.stride \in Strides /\ 2 * stage.stride <= NumThreads
  /\ stage.at = "done" => waiting = {}

(* With stage.stride cells left, a cell below it has its class modulo the  *)
(* stride or, if its thread has still to come, modulo twice the stride.    *)
Modulus(t) ==
  IF t < stage.stride /\ t \in waiting THEN stage.stride ELSE 2 * stage.stride

CellsHold ==
  /\ values = [t \in Threads |-> values[t]] /\ indices = [t \in Threads |-> indices[t]]
  /\ stage.at = "scan" => \A t \in waiting : ClassHeld(t, NumThreads)
  /\ stage.at = "reduce" =>
       \A t \in Threads, s \in 1 .. NumThreads :
         t < 2 * stage.stride /\ s = Modulus(t) => ClassHeld(t, s)
  /\ stage.at \in {"store", "done"} => RowHeld

Stored(t) == stage.at = "done" \/ (stage.at = "store" /\ t \in waiting)

ResultsHold ==
  /\ kernel = "argmax" /\ Stored(0) => token = RowBest
  /\ normed = [h \in Ids |-> normed[h]]
  /\ kernel = "rms_norm" =>
       \A h \in Ids : Stored(h % NumThreads) => normed[h] = <<h, RowSquares>>

RowInv == RowTypesHold /\ CellsHold /\ ResultsHold

(* Rows and their ids.                                                     *)
LEMMA RowFacts ==
  ASSUME RowTypesHold
  PROVE  /\ Vocab \in Nat \ {0} /\ Ids \in SUBSET Nat /\ 0 \in Ids
         /\ \A i \in Ids : Logit(i) \in Int /\ Logit(i) \in Floats /\ i < Vocab
         /\ \A i \in Ids : i % NumThreads \in Threads
<1>1. Vocab \in Nat \ {0} /\ logits \in [1 .. Vocab -> Floats]
  BY DEF RowTypesHold, Vocab
<1>2. Ids \in SUBSET Nat /\ 0 \in Ids /\ \A i \in Ids : i + 1 \in 1 .. Vocab /\ i < Vocab
  <2> DEFINE n == Vocab
  <2>1. n \in Nat \ {0} /\ Ids = 0 .. (n - 1)
    BY <1>1 DEF Ids
  <2> HIDE DEF n
  <2>2. Ids \in SUBSET Nat /\ 0 \in Ids /\ \A i \in Ids : i + 1 \in 1 .. n /\ i < n
    BY <2>1
  <2>. QED BY <2>2 DEF n
<1>3. Floats \in SUBSET Int
  BY ArgmaxAssumption DEF Floats, NaN
<1>4. \A i \in Ids : Logit(i) \in Floats
  BY <1>1, <1>2 DEF Logit
<1>5. \A i \in Ids : i % NumThreads \in Threads
  BY <1>2, NumThreadsType, PageAndOffset DEF Threads
<1>. QED BY <1>1, <1>2, <1>3, <1>4, <1>5

(* If a logit of a set is above the start, one of them is the best.        *)
LEMMA BestExists ==
  ASSUME RowTypesHold, NEW ids \in SUBSET Ids, NEW start \in Floats,
         NEW j \in ids, Above(Logit(j), start)
  PROVE  Best(ids, start) # {}
<1> DEFINE up == {i \in ids : Above(Logit(i), start)}
           T == {Logit(i) : i \in up}
<1>1. /\ \A i \in ids : i \in Ids /\ i \in Nat /\ Logit(i) \in Int /\ Logit(i) \in Floats
      /\ Larger \in Nat
  BY RowFacts, ArgmaxAssumption
<1>2. T \in SUBSET (0 .. Larger) /\ T # {}
  <2>1. \A i \in up : Logit(i) \in 0 .. Larger
    BY <1>1 DEF Above, Floats, NaN
  <2>. QED BY <2>1
<1> HIDE DEF T
<1>3. PICK x \in T : \A y \in T : y <= x
  BY <1>1, <1>2, LargestOf
<1> DEFINE U == {i \in up : Logit(i) = x}
<1>4. U \in SUBSET Nat /\ U # {}
  BY <1>1, <1>3 DEF T
<1>5. PICK u \in U : \A v \in U : u <= v
  <2> HIDE DEF U
  <2>. QED BY <1>4, LeastOf
<1>6. u \in ids /\ Above(Logit(u), start) /\ Logit(u) = x
  BY <1>5
<1>7. ASSUME NEW k \in ids
      PROVE  ~ Above(Logit(k), Logit(u)) /\ (Same(Logit(k), Logit(u)) => u <= k)
  <2>1. Above(Logit(k), Logit(u)) => Above(Logit(k), start)
    BY <1>1, <1>6 DEF Above, Floats, NaN
  <2>2. Above(Logit(k), start) => Logit(k) <= x
    BY <1>3 DEF T
  <2>3. ~ Above(Logit(k), Logit(u))
    BY <1>1, <1>6, <2>1, <2>2 DEF Above
  <2>4. Same(Logit(k), Logit(u)) => k \in U
    BY <1>6 DEF Same
  <2>. QED BY <1>5, <2>3, <2>4
<1>. QED BY <1>6, <1>7 DEF Best

(* There is one best logit only.                                           *)
LEMMA BestUnique ==
  ASSUME RowTypesHold, NEW ids \in SUBSET Ids, NEW start \in Floats,
         NEW i \in Best(ids, start), NEW k \in Best(ids, start)
  PROVE  i = k
<1>1. /\ i \in Nat /\ k \in Nat /\ i \in ids /\ k \in ids
      /\ Logit(i) \in Int /\ Logit(k) \in Int
  BY RowFacts DEF Best
<1>2. /\ Logit(i) # NaN /\ Logit(k) # NaN
      /\ ~ Above(Logit(k), Logit(i)) /\ ~ Above(Logit(i), Logit(k))
      /\ Same(Logit(k), Logit(i)) => i <= k
      /\ Same(Logit(i), Logit(k)) => k <= i
  BY <1>1 DEF Best, Above
<1>. QED BY <1>1, <1>2 DEF Above, Same

(* Hence a loop finds it.                                                  *)
LEMMA BestFound ==
  ASSUME RowTypesHold, NEW ids \in SUBSET Ids, NEW start \in Floats, NEW id,
         NEW i \in Best(ids, start)
  PROVE  BestOr(ids, start, id) = i
BY BestUnique DEF BestOr

(* The better of the best of two sets is the best of both.                 *)
LEMMA BestOfBoth ==
  ASSUME RowTypesHold, NEW A \in SUBSET Ids, NEW B \in SUBSET Ids, NEW C, C = A \cup B
  PROVE  LET takes == \/ Above(BestValue(B), BestValue(A))
                      \/ /\ Same(BestValue(B), BestValue(A))
                         /\ BestOr(B, NegFltMax, 0) < BestOr(A, NegFltMax, 0)
             W == IF takes THEN B ELSE A
         IN  BestValue(C) = BestValue(W) /\ BestOr(C, NegFltMax, 0) = BestOr(W, NegFltMax, 0)
<1> DEFINE takes == \/ Above(BestValue(B), BestValue(A))
                    \/ /\ Same(BestValue(B), BestValue(A))
                       /\ BestOr(B, NegFltMax, 0) < BestOr(A, NegFltMax, 0)
           W == IF takes THEN B ELSE A
<1>0. NegFltMax \in Floats /\ NegFltMax = 0 /\ C \in SUBSET Ids
  BY ArgmaxAssumption DEF NegFltMax, Floats, NaN
<1>1. \A i \in Ids : i \in Nat /\ Logit(i) \in Int
  BY RowFacts
<1>2. ASSUME NEW S \in SUBSET Ids, Best(S, NegFltMax) = {}
      PROVE  /\ \A i \in S : ~ Above(Logit(i), NegFltMax)
             /\ BestValue(S) = NegFltMax /\ BestOr(S, NegFltMax, 0) = 0
  <2>1. \A i \in S : ~ Above(Logit(i), NegFltMax)
    BY <1>0, <1>2, BestExists
  <2>. QED BY <1>2, <2>1 DEF BestValue, BestOr
<1>3. ASSUME NEW S \in SUBSET Ids, NEW i \in Best(S, NegFltMax)
      PROVE  /\ BestValue(S) = Logit(i) /\ BestOr(S, NegFltMax, 0) = i
             /\ Logit(i) > 0 /\ Above(Logit(i), NegFltMax) /\ i \in S
             /\ \A k \in S : ~ Above(Logit(k), Logit(i)) /\ (Same(Logit(k), Logit(i)) => i <= k)
  <2>1. BestOr(S, NegFltMax, 0) = i
    BY <1>0, <1>3, BestFound
  <2>2. /\ Above(Logit(i), NegFltMax) /\ i \in S
        /\ \A k \in S : ~ Above(Logit(k), Logit(i)) /\ (Same(Logit(k), Logit(i)) => i <= k)
    BY <1>3 DEF Best
  <2>3. BestValue(S) = Logit(i)
    BY <1>3, <2>1 DEF BestValue
  <2>. QED BY <1>0, <2>1, <2>2, <2>3 DEF Above
<1>4. CASE Best(A, NegFltMax) = {} /\ Best(B, NegFltMax) = {}
  <2>1. Best(C, NegFltMax) = {}
    BY <1>2, <1>4 DEF Best
  <2>2. ~ takes
    BY <1>0, <1>2, <1>4 DEF Above, Same
  <2>. QED BY <1>0, <1>2, <1>4, <2>1, <2>2
<1>5. ASSUME NEW i \in Best(A, NegFltMax), Best(B, NegFltMax) = {}
      PROVE  BestValue(C) = BestValue(W) /\ BestOr(C, NegFltMax, 0) = BestOr(W, NegFltMax, 0)
  <2>1. \A k \in B : ~ Above(Logit(k), NegFltMax)
    BY <1>2, <1>5
  <2>2. i \in A /\ Logit(i) > 0 /\ BestValue(A) = Logit(i) /\ BestOr(A, NegFltMax, 0) = i
        /\ Above(Logit(i), NegFltMax)
        /\ \A k \in A : ~ Above(Logit(k), Logit(i)) /\ (Same(Logit(k), Logit(i)) => i <= k)
    BY <1>3
  <2>3. \A k \in B : ~ Above(Logit(k), Logit(i)) /\ ~ Same(Logit(k), Logit(i))
    BY <1>0, <1>1, <2>1, <2>2 DEF Above, Same
  <2>4. i \in Best(C, NegFltMax)
    BY <2>2, <2>3 DEF Best
  <2>5. ~ takes
    BY <1>0, <1>1, <1>2, <1>5, <2>2 DEF Above, Same
  <2>. QED BY <1>0, <1>3, <2>2, <2>4, <2>5
<1>6. ASSUME NEW k \in Best(B, NegFltMax), Best(A, NegFltMax) = {}
      PROVE  BestValue(C) = BestValue(W) /\ BestOr(C, NegFltMax, 0) = BestOr(W, NegFltMax, 0)
  <2>1. \A i \in A : ~ Above(Logit(i), NegFltMax)
    BY <1>2, <1>6
  <2>2. k \in B /\ Logit(k) > 0 /\ BestValue(B) = Logit(k) /\ BestOr(B, NegFltMax, 0) = k
        /\ Above(Logit(k), NegFltMax)
        /\ \A i \in B : ~ Above(Logit(i), Logit(k)) /\ (Same(Logit(i), Logit(k)) => k <= i)
    BY <1>3
  <2>3. \A i \in A : ~ Above(Logit(i), Logit(k)) /\ ~ Same(Logit(i), Logit(k))
    BY <1>0, <1>1, <2>1, <2>2 DEF Above, Same
  <2>4. k \in Best(C, NegFltMax)
    BY <2>2, <2>3 DEF Best
  <2>5. takes
    BY <1>0, <1>2, <1>6, <2>2 DEF Above
  <2>. QED BY <1>0, <1>3, <2>2, <2>4, <2>5
<1>7. ASSUME NEW i \in Best(A, NegFltMax), NEW k \in Best(B, NegFltMax)
      PROVE  BestValue(C) = BestValue(W) /\ BestOr(C, NegFltMax, 0) = BestOr(W, NegFltMax, 0)
  <2>1. i \in A /\ Logit(i) > 0 /\ BestValue(A) = Logit(i) /\ BestOr(A, NegFltMax, 0) = i
        /\ Above(Logit(i), NegFltMax)
        /\ \A e \in A : ~ Above(Logit(e), Logit(i)) /\ (Same(Logit(e), Logit(i)) => i <= e)
    BY <1>3
  <2>2. k \in B /\ Logit(k) > 0 /\ BestValue(B) = Logit(k) /\ BestOr(B, NegFltMax, 0) = k
        /\ Above(Logit(k), NegFltMax)
        /\ \A e \in B : ~ Above(Logit(e), Logit(k)) /\ (Same(Logit(e), Logit(k)) => k <= e)
    BY <1>3
  <2>3. i \in Nat /\ k \in Nat /\ Logit(i) \in Int /\ Logit(k) \in Int
    BY <1>1, <2>1, <2>2
  <2>4. CASE takes
    <3>1. Logit(k) > Logit(i) \/ (Logit(k) = Logit(i) /\ k < i)
      BY <2>1, <2>2, <2>4 DEF Above, Same
    <3>2. \A e \in A : ~ Above(Logit(e), Logit(k)) /\ (Same(Logit(e), Logit(k)) => k <= e)
      BY <1>1, <2>1, <2>2, <2>3, <3>1 DEF Above, Same, NaN
    <3>3. k \in Best(C, NegFltMax)
      BY <2>2, <3>2 DEF Best
    <3>. QED BY <1>0, <1>3, <2>2, <2>4, <3>3
  <2>5. CASE ~ takes
    <3>1. Logit(i) > Logit(k) \/ (Logit(k) = Logit(i) /\ i <= k)
      BY <2>1, <2>2, <2>3, <2>5 DEF Above, Same, NaN
    <3>2. \A e \in B : ~ Above(Logit(e), Logit(i)) /\ (Same(Logit(e), Logit(i)) => i <= e)
      BY <1>1, <2>1, <2>2, <2>3, <3>1 DEF Above, Same, NaN
    <3>3. i \in Best(C, NegFltMax)
      BY <2>1, <3>2 DEF Best
    <3>. QED BY <1>0, <1>3, <2>1, <2>5, <3>3
  <2>. QED BY <2>4, <2>5
<1>8. BestValue(C) = BestValue(W) /\ BestOr(C, NegFltMax, 0) = BestOr(W, NegFltMax, 0)
  BY <1>4, <1>5, <1>6, <1>7
<1>. QED BY <1>8

(* The counts of two classes add up.                                       *)
LEMMA SquaresAdd ==
  ASSUME NEW A, NEW B, A \cap B = {}
  PROVE  [i \in Ids |-> SquaresOf(A)[i] + SquaresOf(B)[i]] = SquaresOf(A \cup B)
<1>1. \A i \in Ids : SquaresOf(A)[i] + SquaresOf(B)[i] = IF i \in A \cup B THEN 1 ELSE 0
  BY DEF SquaresOf
<1>. QED BY <1>1 DEF SquaresOf

(* Classes of ids: a thread's own, the halves of one, and all of them.     *)
LEMMA RowClasses ==
  ASSUME RowTypesHold
  PROVE  /\ \A s, t : RowClass(s, t) \in SUBSET Ids
         /\ \A t : Mine(t, Vocab) = RowClass(NumThreads, t)
         /\ RowClass(1, 0) = Ids
         /\ \A s \in Nat \ {0} : \A t \in 0 .. (s - 1) :
              /\ RowClass(s, t) = RowClass(2 * s, t) \cup RowClass(2 * s, t + s)
              /\ RowClass(2 * s, t) \cap RowClass(2 * s, t + s) = {}
<1>1. Ids \in SUBSET Nat
  BY RowFacts
<1>2. \A d \in Nat : d % 1 = 0
  OBVIOUS
<1>3. ASSUME NEW s \in Nat \ {0}, NEW t \in 0 .. (s - 1)
      PROVE  /\ RowClass(s, t) = RowClass(2 * s, t) \cup RowClass(2 * s, t + s)
             /\ RowClass(2 * s, t) \cap RowClass(2 * s, t + s) = {}
  BY <1>1, <1>3, ClassesHalve DEF RowClass
<1>4. RowClass(1, 0) = Ids
  BY <1>1, <1>2 DEF RowClass
<1>. QED BY <1>3, <1>4 DEF RowClass, Mine, Ids

-----------------------------------------------------------------------------
(* The steps of the reductions.                                            *)

(* The row stays, and what is said of it.                                  *)
LEMMA RowStays ==
  ASSUME UNCHANGED <<kernel, logits>>
  PROVE  /\ Vocab' = Vocab /\ Ids' = Ids /\ RowBest' = RowBest /\ RowSquares' = RowSquares
         /\ RowTypesHold /\ UNCHANGED stage /\ waiting' \subseteq Threads
              /\ (stage.at = "done" => waiting' = {}) => RowTypesHold'
<1>1. Vocab' = Vocab /\ Ids' = Ids
  BY DEF Vocab, Ids
<1>2. RowBest' = RowBest
  BY DEF RowBest, BestOr, Best, Ids, Vocab, Logit
<1>3. RowSquares' = RowSquares
  BY <1>1 DEF RowSquares, SquaresOf
<1>. QED BY <1>1, <1>2, <1>3 DEF RowTypesHold, Threads

(* A cell that is not written has what it had.                             *)
LEMMA CellStays ==
  ASSUME UNCHANGED <<kernel, logits>>, NEW t, NEW s, values'[t] = values[t], indices'[t] = indices[t]
  PROVE  ClassHeld(t, s) => ClassHeld(t, s)'
BY DEF ClassHeld, CellHas, BestValue, BestOr, Best, SquaresOf, RowClass, Ids, Vocab, Logit

(* So has cell 0.                                                          *)
LEMMA RowHeldStays ==
  ASSUME UNCHANGED <<kernel, logits>>, values'[0] = values[0], indices'[0] = indices[0]
  PROVE  RowHeld => RowHeld'
BY DEF RowHeld, CellHas, BestValue, BestOr, Best, SquaresOf, Ids, Vocab, Logit

(* A cell that is written.                                                 *)
LEMMA CellWritten ==
  ASSUME UNCHANGED <<kernel, logits>>, NEW t, NEW s, NEW ids, ids = RowClass(s, t),
         IF kernel = "rms_norm" THEN values'[t] = SquaresOf(ids)
         ELSE values'[t] = BestValue(ids) /\ indices'[t] = BestOr(ids, NegFltMax, 0)
  PROVE  ClassHeld(t, s)'
<1>1. RowClass(s, t)' = ids
  BY DEF RowClass, Ids, Vocab
<1>2. SquaresOf(ids)' = SquaresOf(ids) /\ BestValue(ids)' = BestValue(ids)
      /\ BestOr(ids, NegFltMax, 0)' = BestOr(ids, NegFltMax, 0)
  BY DEF BestValue, BestOr, Best, SquaresOf, Ids, Vocab, Logit
<1>3. CellHas(t, ids)'
  BY <1>2 DEF CellHas
<1>. QED BY <1>1, <1>3 DEF ClassHeld

(* What a thread that arrives leaves as it is.                             *)
LEMMA RowArrives ==
  ASSUME RowInv, NEW t \in Threads, NEW at, RowWorking(t, at), at # "done"
  PROVE  /\ stage.at = at /\ UNCHANGED <<kernel, logits, stage>>
         /\ t \notin waiting /\ waiting' = waiting \cup {t}
         /\ RowTypesHold /\ RowTypesHold' /\ Ids' = Ids /\ Vocab' = Vocab
<1>1. stage.at = at /\ UNCHANGED <<kernel, logits, stage>> /\ t \notin waiting
      /\ waiting' = waiting \cup {t}
  BY DEF RowWorking, Runs, Arrive
<1>2. RowTypesHold /\ waiting' \subseteq Threads
  BY <1>1 DEF RowInv, RowTypesHold
<1>. QED BY <1>1, <1>2, RowStays

(* Before the threads begin.                                               *)
LEMMA RowInitHolds == RowInit => RowInv
<1> SUFFICES ASSUME RowInit PROVE RowInv
  OBVIOUS
<1>1. /\ kernel \in {"argmax", "rms_norm"} /\ waiting = {}
      /\ stage = [at |-> "scan", stride |-> 0]
      /\ values = [t \in Threads |-> NaN] /\ indices = [t \in Threads |-> 0]
      /\ normed = [h \in Ids |-> NaN]
  BY DEF RowInit
<1>2. logits \in Seq(Floats) /\ Vocab # 0
  <2> DEFINE R == IF kernel = "argmax" THEN Floats ELSE {NegFltMax}
  <2>1. R \subseteq Floats
    BY ArgmaxAssumption DEF Floats, NaN, NegFltMax
  <2>2. PICK n \in 1 .. MaxVocab : logits \in [1 .. n -> R]
    BY DEF RowInit
  <2>3. n \in Nat \ {0}
    BY <2>2, ArgmaxAssumption
  <2> HIDE DEF R
  <2>4. logits \in [1 .. n -> Floats]
    BY <2>1, <2>2
  <2>. QED BY <2>3, <2>4 DEF Vocab
<1>3. RowTypesHold
  BY <1>1, <1>2 DEF RowTypesHold
<1>4. CellsHold
  BY <1>1 DEF CellsHold
<1>5. ResultsHold
  BY <1>1 DEF ResultsHold, Stored
<1>. QED BY <1>3, <1>4, <1>5 DEF RowInv

(* The loops of the threads.                                               *)
LEMMA ScanKeeps ==
  ASSUME RowInv, NEW t \in Threads, Scan(t) \/ SumSquares(t)
  PROVE  RowInv'
<1> DEFINE ids == RowClass(NumThreads, t)
<1>1. RowWorking(t, "scan") /\ UNCHANGED <<token, normed>>
  BY DEF Scan, SumSquares
<1>2. /\ stage.at = "scan" /\ UNCHANGED <<kernel, logits, stage>>
      /\ waiting' = waiting \cup {t} /\ t \notin waiting
      /\ RowTypesHold /\ RowTypesHold' /\ Ids' = Ids /\ Vocab' = Vocab
  BY <1>1, RowArrives
<1>3. Mine(t, Vocab) = ids
  BY <1>2, RowClasses
<1> HIDE DEF ids
<1>4. /\ IF kernel = "rms_norm" THEN values'[t] = SquaresOf(ids)
         ELSE values'[t] = BestValue(ids) /\ indices'[t] = BestOr(ids, NegFltMax, 0)
      /\ values' = [u \in Threads |-> values'[u]] /\ indices' = [u \in Threads |-> indices'[u]]
      /\ \A u \in Threads : u # t => values'[u] = values[u] /\ indices'[u] = indices[u]
  <2>1. values = [u \in Threads |-> values[u]] /\ indices = [u \in Threads |-> indices[u]]
    BY DEF RowInv, CellsHold
  <2>2. CASE Scan(t)
    <3>1. /\ kernel = "argmax" /\ values' = [values EXCEPT ![t] = BestValue(ids)]
          /\ indices' = [indices EXCEPT ![t] = BestOr(ids, NegFltMax, 0)]
      BY <1>3, <2>2 DEF Scan, BestValue
    <3>. QED BY <2>1, <3>1
  <2>3. CASE SumSquares(t)
    <3>1. /\ kernel = "rms_norm" /\ values' = [values EXCEPT ![t] = SquaresOf(ids)]
          /\ indices' = indices
      BY <1>3, <2>3 DEF SumSquares
    <3>. QED BY <2>1, <3>1
  <2>. QED BY <2>2, <2>3
<1>5. ClassHeld(t, NumThreads)'
  BY <1>2, <1>4, CellWritten DEF ids
<1>6. ASSUME NEW u \in waiting PROVE ClassHeld(u, NumThreads)'
  <2>1. u \in Threads /\ u # t /\ ClassHeld(u, NumThreads)
    BY <1>2 DEF RowInv, RowTypesHold, CellsHold
  <2>. QED BY <1>2, <1>4, <2>1, CellStays
<1>7. CellsHold'
  BY <1>2, <1>4, <1>5, <1>6 DEF CellsHold
<1>8. ResultsHold'
  BY <1>1, <1>2 DEF RowInv, ResultsHold, Stored
<1>. QED BY <1>2, <1>7, <1>8 DEF RowInv

(* A level of the tree: a cell takes in the cell a stride above.           *)
LEMMA FoldBestKeeps ==
  ASSUME RowInv, NEW t \in Threads, FoldBest(t) \/ Add(t)
  PROVE  RowInv'
<1> DEFINE s == stage.stride
<1>1. RowWorking(t, "reduce") /\ UNCHANGED <<token, normed>>
  BY DEF FoldBest, Add
<1>2. /\ stage.at = "reduce" /\ UNCHANGED <<kernel, logits, stage>>
      /\ waiting' = waiting \cup {t} /\ t \notin waiting
      /\ RowTypesHold /\ RowTypesHold' /\ Ids' = Ids /\ Vocab' = Vocab
  BY <1>1, RowArrives
<1>3. s \in Nat \ {0} /\ 2 * s <= NumThreads /\ NumThreads \in Nat /\ Threads = 0 .. (NumThreads - 1)
  BY <1>2, NumThreadsType DEF RowTypesHold, Strides, Threads
<1>4. values = [u \in Threads |-> values[u]] /\ indices = [u \in Threads |-> indices[u]]
  BY DEF RowInv, CellsHold
<1>5. \A u \in Threads : u < 2 * s => ClassHeld(u, IF u < s /\ u \in waiting THEN s ELSE 2 * s)
  <2> SUFFICES ASSUME NEW u \in Threads, u < 2 * s
               PROVE  ClassHeld(u, IF u < s /\ u \in waiting THEN s ELSE 2 * s)
    OBVIOUS
  <2> DEFINE c == IF u < s /\ u \in waiting THEN s ELSE 2 * s
  <2>1. c \in 1 .. NumThreads /\ c = Modulus(u)
    BY <1>3 DEF Modulus
  <2>. QED BY <1>2, <2>1 DEF RowInv, CellsHold
<1>6. SUFFICES /\ values' = [u \in Threads |-> values'[u]] /\ indices' = [u \in Threads |-> indices'[u]]
               /\ \A u \in Threads \ {t} : values'[u] = values[u] /\ indices'[u] = indices[u]
               /\ t < s => ClassHeld(t, s)'
               /\ ~ (t < s) => values'[t] = values[t] /\ indices'[t] = indices[t]
  <2>1. ASSUME /\ values' = [u \in Threads |-> values'[u]] /\ indices' = [u \in Threads |-> indices'[u]]
               /\ \A u \in Threads \ {t} : values'[u] = values[u] /\ indices'[u] = indices[u]
               /\ t < s => ClassHeld(t, s)'
               /\ ~ (t < s) => values'[t] = values[t] /\ indices'[t] = indices[t]
        PROVE  RowInv'
    <3>1. ASSUME NEW u \in Threads, NEW c \in 1 .. NumThreads, u < 2 * s,
                 c = IF u < s /\ u \in waiting' THEN s ELSE 2 * s
          PROVE  ClassHeld(u, c)'
      <4>1. CASE u = t /\ t < s
        <5>1. c = s
          BY <1>2, <3>1, <4>1
        <5>. QED BY <1>2, <2>1, <4>1, <5>1
      <4>2. CASE ~ (u = t /\ t < s)
        <5>1. values'[u] = values[u] /\ indices'[u] = indices[u]
          BY <2>1, <4>2
        <5>2. c = IF u < s /\ u \in waiting THEN s ELSE 2 * s
          BY <1>2, <3>1, <4>2
        <5>3. ClassHeld(u, c)
          BY <1>5, <3>1, <5>2
        <5>. QED BY <1>2, <5>1, <5>3, CellStays
      <4>. QED BY <4>1, <4>2
    <3>2. CellsHold'
      BY <1>2, <2>1, <3>1 DEF CellsHold, Modulus
    <3>3. ResultsHold'
      BY <1>1, <1>2 DEF RowInv, ResultsHold, Stored
    <3>. QED BY <1>2, <3>2, <3>3 DEF RowInv
  <2>. QED BY <2>1
<1>7. CASE ~ (t < s)
  <2>1. values' = values /\ indices' = indices
    BY <1>7 DEF FoldBest, Add, Folds
  <2>. QED BY <1>4, <1>7, <2>1
<1>8. CASE t < s
  <2> DEFINE u == t + s
             A == RowClass(2 * s, t)
             B == RowClass(2 * s, u)
             C == RowClass(s, t)
  <2>1. t \in 0 .. (s - 1) /\ u \in Threads /\ u # t /\ t < 2 * s /\ u < 2 * s /\ ~ (u < s)
    BY <1>3, <1>8
  <2>2. CellHas(t, A) /\ CellHas(u, B)
    BY <1>2, <1>5, <2>1 DEF ClassHeld
  <2>3. A \in SUBSET Ids /\ B \in SUBSET Ids /\ C = A \cup B /\ A \cap B = {}
    BY <1>2, <1>3, <2>1, RowClasses
  <2> HIDE DEF A, B, C
  <2>4. /\ values' = [v \in Threads |-> values'[v]] /\ indices' = [v \in Threads |-> indices'[v]]
        /\ \A v \in Threads \ {t} : values'[v] = values[v] /\ indices'[v] = indices[v]
        /\ IF kernel = "rms_norm" THEN values'[t] = SquaresOf(C)
           ELSE values'[t] = BestValue(C) /\ indices'[t] = BestOr(C, NegFltMax, 0)
    <3>1. CASE FoldBest(t)
      <4>1. /\ kernel = "argmax"
            /\ values[t] = BestValue(A) /\ indices[t] = BestOr(A, NegFltMax, 0)
            /\ values[u] = BestValue(B) /\ indices[u] = BestOr(B, NegFltMax, 0)
        BY <2>2, <3>1 DEF FoldBest, CellHas
      <4>2. LET W == IF Better(t, u) THEN B ELSE A
            IN  BestValue(C) = BestValue(W) /\ BestOr(C, NegFltMax, 0) = BestOr(W, NegFltMax, 0)
        BY <1>2, <2>3, <4>1, BestOfBoth DEF Better
      <4>3. IF Better(t, u)
            THEN /\ values' = [values EXCEPT ![t] = values[u]]
                 /\ indices' = [indices EXCEPT ![t] = indices[u]]
            ELSE UNCHANGED <<values, indices>>
        BY <1>8, <3>1 DEF FoldBest, Folds, Other
      <4>4. CASE Better(t, u)
        <5>1. /\ values' = [values EXCEPT ![t] = BestValue(C)]
              /\ indices' = [indices EXCEPT ![t] = BestOr(C, NegFltMax, 0)]
          BY <4>1, <4>2, <4>3, <4>4
        <5>. QED BY <1>4, <4>1, <5>1
      <4>5. CASE ~ Better(t, u)
        BY <1>4, <4>1, <4>2, <4>3, <4>5
      <4>. QED BY <4>4, <4>5
    <3>2. CASE Add(t)
      <4>1. /\ kernel = "rms_norm" /\ values[t] = SquaresOf(A) /\ values[u] = SquaresOf(B)
            /\ indices' = indices
        BY <2>2, <3>2 DEF Add, CellHas
      <4>2. values' = [values EXCEPT ![t] = [i \in Ids |-> values[t][i] + values[u][i]]]
        BY <1>8, <1>4, <3>2 DEF Add, Folds, Other
      <4>3. [i \in Ids |-> values[t][i] + values[u][i]] = SquaresOf(C)
        BY <2>3, <4>1, SquaresAdd
      <4>4. values' = [values EXCEPT ![t] = SquaresOf(C)]
        BY <4>2, <4>3
      <4>. QED BY <1>4, <4>1, <4>4
    <3>. QED BY <3>1, <3>2
  <2>5. ClassHeld(t, s)'
    BY <1>2, <2>4, CellWritten DEF C
  <2>. QED BY <1>8, <2>4, <2>5
<1>. QED BY <1>7, <1>8

(* The results.                                                            *)
LEMMA StoreTokenKeeps ==
  ASSUME RowInv, NEW t \in Threads, StoreToken(t) \/ Scale(t)
  PROVE  RowInv'
<1>1. RowWorking(t, "store") /\ UNCHANGED <<values, indices>>
  BY DEF StoreToken, Scale
<1>2. /\ stage.at = "store" /\ UNCHANGED <<kernel, logits, stage>>
      /\ waiting' = waiting \cup {t} /\ t \notin waiting
      /\ RowTypesHold /\ RowTypesHold' /\ Ids' = Ids /\ Vocab' = Vocab
  BY <1>1, RowArrives
<1>3. CellsHold'
  BY <1>1, <1>2, RowHeldStays DEF RowInv, CellsHold
<1>4. RowBest' = RowBest /\ RowSquares' = RowSquares
  BY <1>2, RowStays
<1>5. RowHeld
  BY <1>2 DEF RowInv, CellsHold
<1>6. CASE StoreToken(t)
  <2>1. kernel = "argmax" /\ token' = (IF t = 0 THEN RowBest ELSE token) /\ normed' = normed
    BY <1>5, <1>6 DEF StoreToken, RowHeld, CellHas, RowBest
  <2>. QED BY <1>2, <1>3, <1>4, <2>1 DEF RowInv, ResultsHold, Stored
<1>7. CASE Scale(t)
  <2>1. /\ kernel = "rms_norm" /\ values[0] = RowSquares
        /\ normed' = [h \in Ids |-> IF h \in Mine(t, Vocab) THEN <<h, values[0]>> ELSE normed[h]]
    BY <1>5, <1>7 DEF Scale, RowHeld, CellHas, RowSquares
  <2>2. \A h \in Ids : h \in Mine(t, Vocab) <=> h % NumThreads = t
    BY <1>2, RowClasses DEF RowClass
  <2>3. normed' = [h \in Ids |-> IF h % NumThreads = t THEN <<h, RowSquares>> ELSE normed[h]]
    BY <2>1, <2>2
  <2>4. \A h \in Ids : h % NumThreads \in waiting => normed[h] = <<h, RowSquares>>
    BY <1>2, <2>1 DEF RowInv, ResultsHold, Stored
  <2>5. \A h \in Ids : h % NumThreads \in waiting' => normed'[h] = <<h, RowSquares>>
    BY <1>2, <2>3, <2>4
  <2>. QED BY <1>2, <1>3, <1>4, <2>1, <2>3, <2>5 DEF RowInv, ResultsHold, Stored
<1>. QED BY <1>6, <1>7

(* A barrier hands the cells of one stretch to the next.                   *)
LEMMA RowBarrierKeeps ==
  ASSUME RowInv, RowBarrier
  PROVE  RowInv'
<1>1. /\ waiting = Threads /\ waiting' = {} /\ stage' = NextStage
      /\ UNCHANGED <<kernel, logits, values, indices, token, normed>>
  BY DEF RowBarrier, Synchronise
<1>2. /\ Vocab' = Vocab /\ Ids' = Ids /\ RowBest' = RowBest /\ RowSquares' = RowSquares
      /\ NumThreads \in Nat \ {0} /\ 0 \in Threads /\ Threads = 0 .. (NumThreads - 1)
  BY <1>1, RowStays, NumThreadsType DEF Threads
<1>3. stage.at \in {"scan", "reduce", "store"}
  BY <1>1, <1>2 DEF RowInv, RowTypesHold
<1>4. /\ kernel' \in {"argmax", "rms_norm"} /\ logits' \in Seq(Floats) /\ Vocab' # 0
      /\ waiting' \subseteq Threads
      /\ values' = [t \in Threads |-> values'[t]] /\ indices' = [t \in Threads |-> indices'[t]]
      /\ normed' = [h \in Ids' |-> normed'[h]]
  BY <1>1, <1>2 DEF RowInv, RowTypesHold, CellsHold, ResultsHold
<1>5. \A t, c : ClassHeld(t, c) => ClassHeld(t, c)'
  BY <1>1, CellStays
<1>6. RowHeld => RowHeld'
  BY <1>1, RowHeldStays
<1>7. CASE stage.at \in {"scan", "reduce"}
  <2> DEFINE cells == IF stage.at = "scan" THEN NumThreads ELSE stage.stride
             half == cells \div 2
  <2>1. /\ stage' = RowReducing(half)
        /\ \A t \in Threads : t < cells => ClassHeld(t, cells)
        /\ \/ cells = 1 /\ half = 0
           \/ half \in Strides /\ cells = 2 * half /\ cells <= NumThreads
    <3>1. CASE stage.at = "scan"
      <4>1. stage' = RowReducing(FirstStride) /\ cells = NumThreads /\ half = FirstStride
        BY <1>1, <3>1 DEF NextStage, FirstStride
      <4>2. \A t \in Threads : ClassHeld(t, NumThreads)
        BY <1>1, <3>1 DEF RowInv, CellsHold
      <4>3. (NumThreads = 1 /\ FirstStride = 0) \/ (FirstStride \in Strides /\ 2 * FirstStride = NumThreads)
        BY StridesHalve
      <4>. QED BY <1>2, <4>1, <4>2, <4>3
    <3>2. CASE stage.at = "reduce"
      <4> DEFINE s == stage.stride
      <4>1. stage' = RowReducing(NextStride(s)) /\ cells = s /\ half = NextStride(s)
        BY <1>1, <3>2 DEF NextStage, NextStride
      <4>2. s \in Strides /\ 2 * s <= NumThreads
        BY <3>2 DEF RowInv, RowTypesHold
      <4>3. /\ s \in Nat \ {0}
            /\ (s = 1 /\ NextStride(s) = 0) \/ (NextStride(s) \in Strides /\ 2 * NextStride(s) = s)
        BY <4>2, StridesHalve
      <4>4. \A t \in Threads, c \in 1 .. NumThreads : t < 2 * s /\ c = Modulus(t) => ClassHeld(t, c)
        BY <3>2 DEF RowInv, CellsHold
      <4>5. ASSUME NEW t \in Threads, t < s PROVE ClassHeld(t, s)
        <5>1. s \in 1 .. NumThreads /\ t < 2 * s /\ s = Modulus(t)
          BY <1>1, <1>2, <4>2, <4>3, <4>5 DEF Modulus
        <5>. QED BY <4>4, <5>1
      <4>. QED BY <1>2, <4>1, <4>2, <4>3, <4>5
    <3>. QED BY <1>7, <3>1, <3>2
  <2> HIDE DEF half, cells
  <2>2. CASE cells = 1 /\ half = 0
    <3>1. stage' = [at |-> "store", stride |-> 0]
      BY <2>1, <2>2 DEF RowReducing
    <3>2. ClassHeld(0, 1)
      BY <1>2, <2>1, <2>2
    <3>3. RowHeld
      BY <3>2, RowClasses DEF ClassHeld, RowHeld, RowInv
    <3>4. RowTypesHold'
      BY <1>1, <1>2, <1>4, <3>1 DEF RowTypesHold
    <3>5. CellsHold'
      BY <1>1, <1>4, <1>6, <3>1, <3>3 DEF CellsHold
    <3>6. ResultsHold'
      BY <1>1, <1>4, <3>1 DEF ResultsHold, Stored
    <3>. QED BY <3>4, <3>5, <3>6 DEF RowInv
  <2>3. CASE half \in Strides /\ cells = 2 * half /\ cells <= NumThreads
    <3>1. half \in Nat \ {0}
      BY <2>3 DEF Strides
    <3>2. stage' = [at |-> "reduce", stride |-> half]
      BY <2>1, <3>1 DEF RowReducing
    <3>3. RowTypesHold'
      BY <1>1, <1>2, <1>4, <2>3, <3>2 DEF RowTypesHold
    <3>4. ASSUME NEW t \in Threads, NEW c \in 1 .. NumThreads, t < 2 * half, c = Modulus(t)'
          PROVE  ClassHeld(t, c)'
      <4>1. c = cells
        BY <1>1, <2>3, <3>2, <3>4 DEF Modulus
      <4>. QED BY <1>5, <2>1, <2>3, <3>4, <4>1
    <3>5. CellsHold'
      BY <1>1, <1>4, <3>2, <3>4 DEF CellsHold
    <3>6. ResultsHold'
      BY <1>1, <1>4, <3>2 DEF ResultsHold, Stored
    <3>. QED BY <3>3, <3>5, <3>6 DEF RowInv
  <2>. QED BY <2>1, <2>2, <2>3
<1>8. CASE stage.at = "store"
  <2>1. stage' = [at |-> "done", stride |-> 0]
    BY <1>1, <1>8 DEF NextStage
  <2>2. RowTypesHold'
    BY <1>1, <1>2, <1>4, <2>1 DEF RowTypesHold
  <2>3. CellsHold'
    BY <1>1, <1>4, <1>6, <1>8, <2>1 DEF RowInv, CellsHold
  <2>4. kernel = "argmax" => token = RowBest
    BY <1>1, <1>2, <1>8 DEF RowInv, ResultsHold, Stored
  <2>5. \A h \in Ids : h % NumThreads \in waiting
    BY <1>1, RowFacts DEF RowInv
  <2>6. kernel = "rms_norm" => \A h \in Ids : normed[h] = <<h, RowSquares>>
    BY <1>8, <2>5 DEF RowInv, ResultsHold, Stored
  <2>7. ResultsHold'
    BY <1>1, <1>2, <1>4, <2>1, <2>4, <2>6 DEF ResultsHold, Stored
  <2>. QED BY <2>2, <2>3, <2>7 DEF RowInv
<1>. QED BY <1>3, <1>7, <1>8

(* Nothing a thread or a barrier does breaks the invariant.                *)
LEMMA RowNextKeeps == RowInv /\ [RowNext]_rowVars => RowInv'
<1> SUFFICES ASSUME RowInv, [RowNext]_rowVars PROVE RowInv'
  OBVIOUS
<1>1. CASE UNCHANGED rowVars
  <2>1. UNCHANGED <<kernel, logits, stage, waiting, values, indices, token, normed>>
    BY <1>1 DEF rowVars
  <2>2. /\ Vocab' = Vocab /\ Ids' = Ids /\ RowBest' = RowBest /\ RowSquares' = RowSquares
        /\ RowTypesHold'
    BY <2>1, RowStays DEF RowInv, RowTypesHold
  <2>3. \A t, c : ClassHeld(t, c) => ClassHeld(t, c)'
    BY <2>1, CellStays
  <2>4. RowHeld => RowHeld'
    BY <2>1, RowHeldStays
  <2>5. CellsHold'
    BY <2>1, <2>3, <2>4 DEF RowInv, CellsHold, Modulus
  <2>6. ResultsHold'
    BY <2>1, <2>2 DEF RowInv, ResultsHold, Stored
  <2>. QED BY <2>2, <2>5, <2>6 DEF RowInv
<1>2. CASE RowNext
  BY <1>2, ScanKeeps, FoldBestKeeps, StoreTokenKeeps, RowBarrierKeeps DEF RowNext
<1>. QED BY <1>1, <1>2

(* The best above -FLT_MAX is what the CPU finds from the first logit on.  *)
LEMMA BestIsCpus ==
  ASSUME RowTypesHold, Logit(0) # NaN, NEW j \in Ids, Above(Logit(j), NegFltMax)
  PROVE  RowBest = CpuToken
<1>1. /\ NegFltMax \in Floats /\ 0 \in Ids /\ Ids \in SUBSET Nat
      /\ \A i \in Ids : Logit(i) \in Int /\ Logit(i) \in Floats
  BY RowFacts, ArgmaxAssumption DEF Floats, NaN, NegFltMax
<1>2. PICK i : i \in Best(Ids, NegFltMax)
  BY <1>1, BestExists
<1>3. RowBest = i
  BY <1>1, <1>2, BestFound DEF RowBest
<1>4. /\ i \in Ids /\ Above(Logit(i), NegFltMax)
      /\ \A k \in Ids : ~ Above(Logit(k), Logit(i)) /\ (Same(Logit(k), Logit(i)) => i <= k)
  BY <1>2 DEF Best
<1>5. CASE i = 0
  <2>1. Best(Ids \ {0}, Logit(0)) = {}
    BY <1>4, <1>5 DEF Best
  <2>. QED BY <1>3, <1>5, <2>1 DEF CpuToken, BestOr
<1>6. CASE i # 0
  <2>1. Above(Logit(i), Logit(0))
    <3>1. ~ (i <= 0) /\ ~ Above(Logit(0), Logit(i)) /\ ~ Same(Logit(0), Logit(i))
      BY <1>1, <1>4, <1>6
    <3>2. Logit(i) # NaN /\ Logit(i) \in Int /\ Logit(0) \in Int
      BY <1>1, <1>4 DEF Above
    <3>. QED BY <3>1, <3>2 DEF Above, Same
  <2>2. i \in Best(Ids \ {0}, Logit(0))
    BY <1>4, <1>6, <2>1 DEF Best
  <2>3. CpuToken = i
    BY <1>1, <2>2, BestFound DEF CpuToken
  <2>. QED BY <1>3, <2>3
<1>. QED BY <1>5, <1>6

(* For any power of two of threads, any row and any order of the threads,  *)
(* argmax on the device picks the token of argmax on the CPU, and rms_norm *)
(* scales by the same squares, each once.                                  *)
THEOREM ReductionsSameAsCpu == RowSpec => []SameAsCpu
<1>1. RowInv => SameAsCpu
  <2> SUFFICES ASSUME RowInv, stage.at = "done"
               PROVE  IF kernel = "rms_norm" THEN normed = CpuNormed
                      ELSE Logit(0) # NaN /\ (\E i \in Ids : Above(Logit(i), NegFltMax)) => token = CpuToken
    BY DEF SameAsCpu
  <2>1. CASE kernel = "rms_norm"
    <3>1. normed = [h \in Ids |-> normed[h]] /\ \A h \in Ids : normed[h] = <<h, RowSquares>>
      BY <2>1 DEF RowInv, ResultsHold, Stored
    <3>2. normed = [h \in Ids |-> <<h, RowSquares>>]
      BY <3>1
    <3>. QED BY <2>1, <3>2 DEF CpuNormed, RowSquares
  <2>2. CASE kernel # "rms_norm"
    <3>1. token = RowBest
      BY <2>2 DEF RowInv, RowTypesHold, ResultsHold, Stored
    <3>. QED BY <2>2, <3>1, BestIsCpus DEF RowInv
  <2>. QED BY <2>1, <2>2
<1>. QED BY <1>1, RowInitHolds, RowNextKeeps, PTL DEF RowSpec
=============================================================================
