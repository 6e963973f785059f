------------------------ MODULE ElementKernelsProofs ------------------------
(***************************************************************************)
(* The kernels without barriers compute what the CPU loops compute, for    *)
(* tensors of any shape whose threads an int can count, blocks of any size *)
(* and any order of the threads.  The loops nest rows and columns, the     *)
(* kernels take a flat index apart: both enumerate the offsets once.       *)
(***************************************************************************)
EXTENDS ElementKernels, TLAPS

-----------------------------------------------------------------------------
(* Flat indices.                                                           *)

(* Division by the length of a row gives the row and the column.           *)
LEMMA RowAndColumn ==
  ASSUME NEW n \in Nat \ {0}, NEW o \in Nat
  PROVE  o \div n \in Nat /\ o % n \in Offsets(n) /\ o = (o \div n) * n + (o % n)
<1>1. o \div n \in Nat /\ o % n \in 0 .. (n - 1)
  BY SMTT(30)
<1>2. o = (o \div n) * n + (o % n)
  BY SMTT(30)
<1>. QED BY <1>1, <1>2 DEF Offsets

(* Rows do not overlap.                                                    *)
LEMMA LaterRow ==
  ASSUME NEW n \in Nat \ {0}, NEW x \in Nat, NEW y \in Nat, x < y
  PROVE  x * n + n <= y * n
<1>1. y = x + 1 + (y - x - 1) /\ y - x - 1 \in Nat
  OBVIOUS
<1>2. \A d \in Nat : (x + 1 + d) * n = x * n + n + d * n /\ d * n >= 0
  OBVIOUS
<1>. QED BY <1>1, <1>2

(* A row and a column give back themselves.                                *)
LEMMA IndexTakenApart ==
  ASSUME NEW n \in Nat \ {0}, NEW q \in Nat, NEW r \in Offsets(n)
  PROVE  /\ q * n + r \in Nat
         /\ (q * n + r) \div n = q /\ (q * n + r) % n = r
<1> DEFINE o == q * n + r
           c == o \div n
           s == o % n
<1>1. q * n \in Nat /\ r \in Nat /\ r < n
  BY DEF Offsets
<1>2. o \in Nat
  BY <1>1
<1> HIDE DEF o
<1>3. c \in Nat /\ s \in Offsets(n) /\ o = c * n + s
  BY <1>2, RowAndColumn
<1> HIDE DEF c, s
<1>4. s \in Nat /\ s < n /\ c * n \in Nat
  BY <1>3 DEF Offsets
<1>5. q * n + r = c * n + s
  BY <1>3 DEF o
<1>6. ~ c < q /\ ~ q < c
  <2>1. c < q => c * n + n <= q * n
    BY <1>3, LaterRow
  <2>2. q < c => q * n + n <= c * n
    BY <1>3, LaterRow
  <2>. QED BY <1>1, <1>4, <1>5, <2>1, <2>2
<1>7. c = q
  BY <1>3, <1>6
<1>8. s = r
  BY <1>1, <1>4, <1>5, <1>7
<1>. QED BY <1>2, <1>7, <1>8 DEF c, s, o

(* The offsets of a matrix are those of its rows and columns.              *)
LEMMA InMatrix ==
  ASSUME NEW m \in Nat, NEW n \in Nat \ {0}
  PROVE  /\ \A q \in Offsets(m), r \in Offsets(n) : q * n + r \in Offsets(m * n)
         /\ \A o \in Offsets(m * n) : o \div n \in Offsets(m)
<1>0. m * n \in Nat
  OBVIOUS
<1>1. ASSUME NEW q \in Offsets(m), NEW r \in Offsets(n)
      PROVE  q * n + r \in Offsets(m * n)
  <2>1. q \in Nat /\ q < m /\ r \in Nat /\ r < n /\ q * n \in Nat
    BY DEF Offsets
  <2>2. q * n + n <= m * n
    BY <2>1, LaterRow
  <2>. QED BY <1>0, <2>1, <2>2 DEF Offsets
<1>2. ASSUME NEW o \in Offsets(m * n)
      PROVE  o \div n \in Offsets(m)
  <2> DEFINE c == o \div n
             s == o % n
  <2>1. o \in Nat /\ o < m * n
    BY <1>0 DEF Offsets
  <2>2. c \in Nat /\ s \in Nat /\ o = c * n + s
    BY <2>1, RowAndColumn DEF Offsets
  <2> HIDE DEF c, s
  <2>3. c < m
    <3>1. c * n \in Nat
      BY <2>2
    <3>2. m = c => c * n = m * n
      OBVIOUS
    <3>3. m < c => m * n + n <= c * n
      BY <2>2, LaterRow
    <3>. QED BY <1>0, <2>1, <2>2, <3>1, <3>2, <3>3
  <2>. QED BY <2>2, <2>3 DEF c, Offsets
<1>. QED BY <1>1, <1>2

-----------------------------------------------------------------------------
(* The jobs.                                                               *)

(* The shapes of a job.                                                    *)
LEMMA JobFacts ==
  ASSUME job \in Jobs
  PROVE  /\ job.op \in {"embedding", "rotary", "linear", "silu_and_mul", "add"}
         /\ job.op = "embedding" =>
              /\ job.ids \in Seq(Int) /\ job.vocab_size \in Nat \ {0}
              /\ job.hidden_size \in Nat \ {0}
         /\ job.op = "rotary" =>
              /\ job.num_tokens \in Nat /\ job.num_heads \in Nat
              /\ job.head_dim \in Nat \ {0} /\ job.head_dim % 2 = 0
         /\ job.op = "linear" =>
              /\ job.m \in Nat /\ job.k \in Nat \ {0} /\ job.n \in Nat \ {0}
              /\ job.has_bias \in BOOLEAN
         /\ job.op \in {"silu_and_mul", "add"} => job.length \in Nat
<1>1. CASE job \in [op : {"embedding"}, ids : Lookups.ids, vocab_size : Lookups.vocab_size,
                    hidden_size : Lookups.hidden_size]
  BY <1>1, ShapesAssumption
<1>2. CASE job \in [op : {"rotary"}, num_tokens : Rotations.num_tokens,
                    num_heads : Rotations.num_heads, head_dim : Rotations.head_dim]
  BY <1>2, ShapesAssumption
<1>3. CASE job \in [op : {"linear"}, m : Products.m, k : Products.k, n : Products.n,
                    has_bias : BOOLEAN]
  BY <1>3, ShapesAssumption
<1>4. CASE job \in [op : {"silu_and_mul"}, length : Lengths]
  BY <1>4, ShapesAssumption
<1>5. CASE job \in [op : {"add"}, length : Lengths \ {0}]
  BY <1>5, ShapesAssumption
<1>. QED BY <1>1, <1>2, <1>3, <1>4, <1>5 DEF Jobs

(* The halves of a head.                                                   *)
LEMMA Halves ==
  ASSUME NEW d \in Nat \ {0}, d % 2 = 0
  PROVE  d \div 2 \in Nat \ {0} /\ d = (d \div 2) + (d \div 2)
BY SMTT(30)

(* There are that many elements and threads.                               *)
LEMMA Sizes ==
  ASSUME job \in Jobs
  PROVE  Elements(job) \in Nat /\ Total(job) \in Nat
<1>1. CASE job.op = "embedding"
  BY <1>1, JobFacts DEF Elements, Total
<1>2. CASE job.op = "rotary"
  <2>1. /\ job.num_tokens \in Nat /\ job.num_heads \in Nat /\ job.head_dim \in Nat
        /\ job.head_dim \div 2 \in Nat
    BY <1>2, JobFacts, Halves
  <2>2. \A a, b, c \in Nat : a * b * c \in Nat
    OBVIOUS
  <2>. QED BY <1>2, <2>1, <2>2 DEF Elements, Total
<1>3. CASE job.op = "linear"
  BY <1>3, JobFacts DEF Elements, Total
<1>4. CASE job.op \in {"silu_and_mul", "add"}
  BY <1>4, JobFacts DEF Elements, Total
<1>. QED BY <1>1, <1>2, <1>3, <1>4, JobFacts

(* If an int counts the threads, the grid has them all.                    *)
LEMMA GridCovers ==
  ASSUME job \in Jobs, FitsInt(Total(job))
  PROVE  Active = Offsets(Total(job)) /\ Launched
<1> DEFINE n == Total(job)
           h == 2^(IntBits - 1)
           w == 2^IntBits
           last == n + BlockDim - 1
           c == last \div BlockDim
<1>1. /\ n \in Nat /\ h \in Nat \ {0} /\ w = h + h /\ BlockDim \in Nat \ {0} /\ last < h
  BY Sizes, IntAssumption, ElementKernelsAssumption DEF FitsInt
<1>2. Blocks(n) = c
  <2> HIDE DEF h, w, n
  <2>1. (n + h) % w = n + h
    <3> DEFINE s == n + h
    <3>1. s \in 0 .. (w - 1) /\ w \in Nat \ {0}
      BY <1>1
    <3> HIDE DEF s
    <3>2. s = 0 * w + s /\ s \in Offsets(w)
      BY <3>1 DEF Offsets
    <3>3. (0 * w + s) % w = s
      BY <3>1, <3>2, IndexTakenApart
    <3>. QED BY <3>2, <3>3 DEF s
  <2>2. ((n + h) % w) - h = n
    BY <1>1, <2>1
  <2>3. Narrowed(n) = n
    BY <2>2 DEF Narrowed, h, w
  <2>. QED BY <1>1, <2>3 DEF Blocks
<1>3. c \in Nat /\ last < c * BlockDim + BlockDim
  <2> HIDE DEF n
  <2>1. last \in Nat
    BY <1>1
  <2> HIDE DEF last
  <2> DEFINE r == last % BlockDim
             p == c * BlockDim
  <2>2. c \in Nat /\ r \in Offsets(BlockDim) /\ last = p + r
    BY <1>1, <2>1, RowAndColumn
  <2>3. p \in Nat
    BY <1>1, <2>2
  <2> HIDE DEF r, p, c
  <2>4. r \in Nat /\ r < BlockDim
    BY <1>1, <2>2 DEF Offsets
  <2>. QED BY <1>1, <2>2, <2>3, <2>4 DEF p
<1>4. n <= c * BlockDim /\ c * BlockDim \in Nat
  <2> HIDE DEF n, c
  <2> DEFINE p == c * BlockDim
  <2>1. p \in Nat
    BY <1>1, <1>3
  <2>2. n + BlockDim - 1 < p + BlockDim
    BY <1>3
  <2> HIDE DEF p
  <2>3. n <= p
    BY <1>1, <2>1, <2>2
  <2>. QED BY <2>1, <2>3 DEF p
<1>5. Active = Offsets(n)
  <2> HIDE DEF n, c
  <2>1. Threads = Offsets(c * BlockDim)
    BY <1>2 DEF Threads, n
  <2>2. Active = {idx \in Threads : idx < n}
    BY DEF Active, n
  <2> DEFINE p == c * BlockDim
  <2>3. n <= p /\ p \in Nat /\ n \in Nat /\ Threads = 0 .. (p - 1)
    BY <1>1, <1>4, <2>1 DEF Offsets
  <2> HIDE DEF p
  <2>. QED BY <2>2, <2>3 DEF Offsets
<1>6. n = 0 \/ Blocks(n) > 0
  <2> HIDE DEF n, c
  <2>1. n # 0 => c # 0
    BY <1>1, <1>4
  <2>. QED BY <1>2, <1>3, <2>1
<1>. QED BY <1>5, <1>6 DEF Launched

(* Whatever the grid, no thread goes beyond the total.                     *)
LEMMA ActiveWithin == job \in Jobs => Active \subseteq Offsets(Total(job))
<1> SUFFICES ASSUME job \in Jobs, NEW idx \in Active
             PROVE  idx \in Offsets(Total(job))
  OBVIOUS
<1>1. idx \in 0 .. (Blocks(Total(job)) * BlockDim - 1) /\ idx < Total(job)
  BY DEF Active, Threads, Offsets
<1>2. idx \in Nat
  BY <1>1
<1>. QED BY <1>1, <1>2, Sizes DEF Offsets

-----------------------------------------------------------------------------
(* What is in the output when some of the threads have run.                *)

Half == job.head_dim \div 2

(* The thread that writes an offset: in a rotation, the two halves of a    *)
(* head have a thread for each pair.                                       *)
Writer(o) ==
  IF job.op = "rotary" THEN (o \div job.head_dim) * Half + ((o % job.head_dim) % Half) ELSE o

(* An embedding leaves out the row of a token that is not there.           *)
Skipped(o) == job.op = "embedding" /\ OutOfRange(EmbeddingToken(o))

(* What is at an offset before its thread ran, and after.                  *)
First(o) == IF job.op = "linear" THEN Product(job)[o] ELSE Unwritten

RotaryValue(o) ==
  LET i == (o % job.head_dim) % Half
      base == (o \div job.head_dim) * job.head_dim
      r == Rotated(base + i, base + i + Half, i, (o \div job.head_dim) \div job.num_heads)
  IN  IF o % job.head_dim < Half THEN r.first ELSE r.second

Value(o) ==
  CASE job.op = "embedding" ->
         <<"w", EmbeddingToken(o) * job.hidden_size + (o % job.hidden_size)>>
    [] job.op = "rotary"    -> RotaryValue(o)
    [] job.op = "linear"    -> [Product(job)[o] EXCEPT !.bias = o % job.n]
    [] OTHER                -> <<job.op, o, o>>

Cell(o) == IF Writer(o) \in ran /\ ~ Skipped(o) THEN Value(o) ELSE First(o)

OutWritten == out = [o \in Offsets(Elements(job)) |-> Cell(o)]

FlagRaised == error_flag # 0 <=> \E idx \in ran : Skipped(idx)

HostWaited ==
  /\ host = "threw" /\ Launched => error_flag # 0
  /\ host = "returned" =>
       Launched /\ (job.op = "embedding" => Active \subseteq ran /\ error_flag = 0)

Inv == job \in Jobs /\ ran \subseteq Active /\ OutWritten /\ FlagRaised /\ HostWaited

(* A head has two elements for each of its threads.                        *)
LEMMA Heads ==
  ASSUME job \in Jobs, job.op = "rotary"
  PROVE  /\ Half \in Nat \ {0} /\ job.head_dim = Half + Half
         /\ job.num_tokens \in Nat /\ job.num_heads \in Nat
         /\ job.num_tokens * job.num_heads \in Nat
         /\ Elements(job) = (job.num_tokens * job.num_heads) * job.head_dim
         /\ Total(job) = (job.num_tokens * job.num_heads) * Half
<1>1. job.num_tokens \in Nat /\ job.num_heads \in Nat
  BY JobFacts
<1>2. Half \in Nat \ {0} /\ job.head_dim = Half + Half
  BY JobFacts, Halves DEF Half
<1>. QED BY <1>1, <1>2 DEF Elements, Total, Half

(* Each offset is written by a thread there is, if any launch was needed.  *)
LEMMA WriterActs ==
  ASSUME job \in Jobs, NEW o \in Offsets(Elements(job)), job.op = "linear" => job.has_bias
  PROVE  Writer(o) \in Offsets(Total(job))
<1>1. CASE job.op # "rotary"
  BY <1>1, JobFacts DEF Writer, Elements, Total
<1>2. CASE job.op = "rotary"
  <2> DEFINE all == job.num_tokens * job.num_heads
             d == job.head_dim
             h == Half
             q == o \div d
             r == o % d
  <2>1. /\ all \in Nat /\ d \in Nat \ {0} /\ h \in Nat \ {0}
        /\ Elements(job) = all * d /\ Total(job) = all * h
    BY <1>2, Heads
  <2> HIDE DEF all, d, h
  <2>2. o \in Offsets(all * d)
    BY <2>1
  <2>3. o \in Nat /\ q \in Offsets(all)
    <3>1. o \in Nat
      BY <2>1, <2>2 DEF Offsets
    <3>. QED BY <2>1, <2>2, <3>1, InMatrix
  <2>4. r \in Nat
    BY <2>1, <2>3, RowAndColumn DEF Offsets
  <2> HIDE DEF q, r
  <2>5. r % h \in Offsets(h)
    BY <2>1, <2>4, RowAndColumn
  <2>6. q * h + (r % h) \in Offsets(all * h)
    BY <2>1, <2>3, <2>5, InMatrix
  <2>7. Writer(o) = q * h + (r % h)
    BY <1>2 DEF Writer, q, r, d, h
  <2>. QED BY <2>1, <2>6, <2>7
<1>. QED BY <1>1, <1>2

(* The offset that a rotary thread writes first is that of its pair.       *)
LEMMA RotaryPlaces ==
  ASSUME job \in Jobs, job.op = "rotary", NEW idx \in Offsets(Total(job))
  PROVE  LET at == (idx \div Half) * job.head_dim + (idx % Half)
         IN  /\ at \in Offsets(Elements(job)) /\ at + Half \in Offsets(Elements(job))
             /\ at \div job.head_dim = idx \div Half
             /\ (at + Half) \div job.head_dim = idx \div Half
             /\ at % job.head_dim = idx % Half
             /\ (at + Half) % job.head_dim = (idx % Half) + Half
             /\ (idx % Half) % Half = idx % Half
             /\ ((idx % Half) + Half) % Half = idx % Half
             /\ idx % Half \in Offsets(Half) /\ idx \div Half \in Nat
             /\ idx = (idx \div Half) * Half + (idx % Half)
<1> DEFINE all == job.num_tokens * job.num_heads
           d == job.head_dim
           h == Half
           q == idx \div h
           r == idx % h
           at == q * d + r
<1>1. /\ all \in Nat /\ d \in Nat \ {0} /\ h \in Nat \ {0} /\ d = h + h
      /\ Elements(job) = all * d /\ Total(job) = all * h
  BY Heads
<1> HIDE DEF all, d, h
<1>2. idx \in Offsets(all * h) /\ idx \in Nat
  BY <1>1 DEF Offsets
<1>3. q \in Offsets(all) /\ r \in Offsets(h) /\ idx = q * h + r
  BY <1>1, <1>2, InMatrix, RowAndColumn
<1> HIDE DEF q, r
<1>4. /\ q \in Nat /\ r \in Nat /\ r < h
      /\ r \in Offsets(d) /\ r + h \in Offsets(d)
  BY <1>1, <1>3 DEF Offsets
<1>5. /\ q * d + r \in Offsets(all * d) /\ q * d + (r + h) \in Offsets(all * d)
      /\ (q * d + r) \div d = q /\ (q * d + r) % d = r
      /\ (q * d + (r + h)) \div d = q /\ (q * d + (r + h)) % d = r + h
  BY ZenonT(60), <1>1, <1>3, <1>4, InMatrix, IndexTakenApart
<1>6. q * d \in Nat
  BY <1>1, <1>4
<1>7. q * d + (r + h) = at + h
  BY <1>1, <1>4, <1>6
<1>8. r % h = r /\ (r + h) % h = r
  <2>1. (0 * h + r) % h = r /\ (1 * h + r) % h = r
    BY <1>1, <1>3, IndexTakenApart
  <2>2. 0 * h + r = r /\ 1 * h + r = r + h
    BY <1>1, <1>4
  <2>. QED BY <2>1, <2>2
<1>9. /\ at \in Offsets(Elements(job)) /\ at + h \in Offsets(Elements(job))
      /\ at \div d = q /\ (at + h) \div d = q /\ at % d = r /\ (at + h) % d = r + h
  BY <1>1, <1>5, <1>7
<1>. QED BY <1>3, <1>4, <1>8, <1>9 DEF q, r, d, h, at

(* No other offset has that thread.                                        *)
LEMMA RotaryWriter ==
  ASSUME job \in Jobs, job.op = "rotary", NEW idx \in Offsets(Total(job)),
         NEW o \in Offsets(Elements(job)), Writer(o) = idx
  PROVE  LET at == (idx \div Half) * job.head_dim + (idx % Half)
         IN  o = at \/ o = at + Half
<1> DEFINE all == job.num_tokens * job.num_heads
           d == job.head_dim
           h == Half
           q == o \div d
           r == o % d
           s == r % h
<1>1. /\ all \in Nat /\ d \in Nat \ {0} /\ h \in Nat \ {0} /\ d = h + h
      /\ Elements(job) = all * d
  BY Heads
<1> HIDE DEF all, d, h
<1>2. o \in Offsets(all * d) /\ o \in Nat
  BY <1>1 DEF Offsets
<1>3. q \in Nat /\ r \in Offsets(d) /\ o = q * d + r
  BY <1>1, <1>2, RowAndColumn
<1> HIDE DEF q, r
<1>4. r \in Nat /\ r < h + h
  BY <1>1, <1>3 DEF Offsets
<1>5. s \in Offsets(h)
  BY <1>1, <1>4, RowAndColumn
<1>6. r = s \/ r = s + h
  <2>1. CASE r < h
    <3>1. r = 0 * h + r /\ r \in Offsets(h)
      BY <1>1, <1>4, <2>1 DEF Offsets
    <3>. QED BY <1>1, <3>1, IndexTakenApart
  <2>2. CASE ~ r < h
    <3> DEFINE x == r - h
    <3>1. r = 1 * h + x /\ x \in Offsets(h)
      BY <1>1, <1>4, <2>2 DEF Offsets
    <3> HIDE DEF x
    <3>2. (1 * h + x) % h = x
      BY <1>1, <3>1, IndexTakenApart
    <3>. QED BY <1>1, <1>4, <3>1, <3>2 DEF x
  <2>. QED BY <2>1, <2>2
<1> HIDE DEF s
<1>7. idx = q * h + s
  BY DEF Writer, q, r, s, d, h
<1>8. idx \div h = q /\ idx % h = s
  <2>1. (q * h + s) \div h = q /\ (q * h + s) % h = s
    BY <1>1, <1>3, <1>5, IndexTakenApart
  <2>. QED BY <1>7, <2>1
<1>9. q * d \in Nat /\ s \in Nat
  BY <1>1, <1>3, <1>5 DEF Offsets
<1>10. o = q * d + s \/ o = q * d + s + h
  BY <1>1, <1>3, <1>6, <1>9
<1>. QED BY <1>8, <1>10 DEF d, h

(* cuBLAS writes all of the output, each element from its row of the input *)
(* and its row of the weight.                                              *)
LEMMA ProductShape ==
  ASSUME job \in Jobs, job.op = "linear"
  PROVE  /\ Product(job) = [o \in Offsets(Elements(job)) |-> Product(job)[o]]
         /\ \A row \in Offsets(job.m), col \in Offsets(job.n) :
              Product(job)[row * job.n + col]
                = [sum |-> [p \in 1 .. job.k |-> <<row * job.k + p - 1, col * job.k + p - 1>>],
                   bias |-> "none"]
<1>1. job.m \in Nat /\ job.k \in Nat /\ job.n \in Nat \ {0} /\ Elements(job) = job.m * job.n
  BY JobFacts DEF Elements
<1> DEFINE term(c, i, p) == <<p - 1 + c * job.k, p - 1 + i * job.k>>
           cell(i, c) == [sum |-> [p \in 1 .. job.k |-> term(c, i, p)], bias |-> "none"]
           all == {i + c * job.n : i \in Offsets(job.n), c \in Offsets(job.m)}
<1>2. Product(job) = [o \in all |-> cell(o % job.n, o \div job.n)]
  BY DEF Product, Gemm
<1>3. all = Offsets(job.m * job.n)
  <2>1. ASSUME NEW i \in Offsets(job.n), NEW c \in Offsets(job.m)
        PROVE  i + c * job.n \in Offsets(job.m * job.n)
    <3>1. c * job.n + i \in Offsets(job.m * job.n)
      BY <1>1, InMatrix
    <3>2. c * job.n \in Int /\ i \in Int
      BY <1>1 DEF Offsets
    <3>3. c * job.n + i = i + c * job.n
      BY <3>2
    <3>. QED BY <3>1, <3>3
  <2>2. ASSUME NEW o \in Offsets(job.m * job.n)
        PROVE  \E i \in Offsets(job.n), c \in Offsets(job.m) : o = i + c * job.n
    <3> DEFINE i == o % job.n
               c == o \div job.n
    <3>0. o \in Nat
      BY <1>1 DEF Offsets
    <3>1. i \in Offsets(job.n) /\ c \in Offsets(job.m) /\ o = c * job.n + i
      BY <1>1, <3>0, InMatrix, RowAndColumn
    <3> HIDE DEF i, c
    <3>2. c * job.n \in Int /\ i \in Int
      BY <1>1, <3>1 DEF Offsets
    <3>3. c * job.n + i = i + c * job.n
      BY <3>2
    <3>. QED BY <3>1, <3>3
  <2>. QED BY <2>1, <2>2
<1>4. ASSUME NEW row \in Offsets(job.m), NEW col \in Offsets(job.n)
      PROVE  Product(job)[row * job.n + col]
               = [sum |-> [p \in 1 .. job.k |-> <<row * job.k + p - 1, col * job.k + p - 1>>],
                  bias |-> "none"]
  <2> DEFINE o == row * job.n + col
  <2>1. o \in all /\ o \div job.n = row /\ o % job.n = col
    <3>1. row \in Nat
      BY <1>1 DEF Offsets
    <3>2. o \in Offsets(job.m * job.n)
      BY <1>1, InMatrix
    <3>3. o \div job.n = row /\ o % job.n = col
      BY <1>1, <3>1, IndexTakenApart
    <3> HIDE DEF o, all
    <3>. QED BY <1>3, <3>2, <3>3
  <2> HIDE DEF o, all
  <2>2. Product(job)[o] = cell(col, row)
    BY <1>2, <2>1
  <2>3. \A p \in 1 .. job.k : term(row, col, p) = <<row * job.k + p - 1, col * job.k + p - 1>>
    <3>1. row * job.k \in Int /\ col * job.k \in Int
      BY <1>1 DEF Offsets
    <3> DEFINE a == row * job.k
               b == col * job.k
    <3>2. \A p \in 1 .. job.k : p - 1 + a = a + p - 1 /\ p - 1 + b = b + p - 1
      <4> HIDE DEF a, b
      <4>. QED BY <3>1 DEF a, b
    <3>. QED BY <3>2
  <2> HIDE DEF term
  <2>. QED BY <2>2, <2>3 DEF o
<1> HIDE DEF cell, all
<1>. QED BY <1>1, <1>2, <1>3, <1>4

(* Cells that agree are a tensor.                                          *)
LEMMA CellsAgree ==
  ASSUME NEW cells, \A c, e \in cells : c[1] = e[1] => c[2] = e[2]
  PROVE  \A c \in cells : AsTensor(cells)[c[1]] = c[2]
<1> SUFFICES ASSUME NEW c \in cells PROVE AsTensor(cells)[c[1]] = c[2]
  OBVIOUS
<1> DEFINE e == CHOOSE e \in cells : e[1] = c[1]
<1>1. e \in cells /\ e[1] = c[1]
  OBVIOUS
<1>2. AsTensor(cells)[c[1]] = e[2]
  BY DEF AsTensor
<1> HIDE DEF e
<1>. QED BY <1>1, <1>2

(* Storing cells that agree changes the tensor where they are.             *)
LEMMA CellsStored ==
  ASSUME NEW tensor, NEW cells, \A c, e \in cells : c[1] = e[1] => c[2] = e[2],
         \A c \in cells : c[1] \in DOMAIN tensor
  PROVE  /\ Stored(tensor, cells) = [o \in DOMAIN tensor |-> Stored(tensor, cells)[o]]
         /\ \A c \in cells : Stored(tensor, cells)[c[1]] = c[2]
         /\ \A o \in DOMAIN tensor :
              (\A c \in cells : c[1] # o) => Stored(tensor, cells)[o] = tensor[o]
<1> DEFINE new == AsTensor(cells)
<1>1. DOMAIN new = {c[1] : c \in cells}
  BY DEF AsTensor
<1>2. \A c \in cells : new[c[1]] = c[2]
  BY CellsAgree
<1> HIDE DEF new
<1>3. DOMAIN tensor \cup DOMAIN new = DOMAIN tensor
  BY <1>1
<1>4. Stored(tensor, cells) = [o \in DOMAIN tensor |-> IF o \in DOMAIN new THEN new[o] ELSE tensor[o]]
  BY <1>3 DEF Stored, new
<1>. QED BY <1>1, <1>2, <1>4

(* A thread writes its offsets, and nothing else.                          *)
LEMMA ThreadWrites ==
  ASSUME Inv, NEW idx \in Active \ ran
  PROVE  Stored(out, Thread(idx))
           = [o \in Offsets(Elements(job)) |->
                IF Writer(o) = idx /\ ~ Skipped(o) THEN Value(o) ELSE out[o]]
<1>1. /\ job \in Jobs /\ idx \notin ran /\ idx \in Offsets(Total(job))
      /\ out = [o \in Offsets(Elements(job)) |-> Cell(o)]
  BY ActiveWithin DEF Inv, OutWritten
<1> DEFINE D == Offsets(Elements(job))
<1>2. DOMAIN out = D /\ \A o \in D : out[o] = Cell(o)
  BY <1>1
<1>3. ASSUME job.op # "rotary", Thread(idx) = IF Skipped(idx) THEN {} ELSE {<<idx, Value(idx)>>}
      PROVE  Stored(out, Thread(idx))
               = [o \in D |-> IF Writer(o) = idx /\ ~ Skipped(o) THEN Value(o) ELSE out[o]]
  <2>1. \A o \in D : Writer(o) = o
    BY <1>3 DEF Writer
  <2>2. idx \in D
    <3>1. CASE job.op = "linear"
      <4>1. job.has_bias \/ Total(job) = 0
        BY <3>1, <1>1, JobFacts DEF Total
      <4>2. job.has_bias
        BY <1>1, <4>1 DEF Offsets
      <4>. QED BY <1>1, <3>1, <4>2 DEF Total
    <3>. QED BY <1>1, <1>3, <3>1 DEF Total
  <2> HIDE DEF D
  <2>3. Thread(idx) \in {{}, {<<idx, Value(idx)>>}}
    BY <1>3
  <2>4. /\ \A c, e \in Thread(idx) : c[1] = e[1] => c[2] = e[2]
        /\ \A c \in Thread(idx) : c[1] \in DOMAIN out
    BY <1>2, <2>2, <2>3
  <2> DEFINE new == Stored(out, Thread(idx))
  <2>5. /\ new = [o \in D |-> new[o]]
        /\ \A c \in Thread(idx) : new[c[1]] = c[2]
        /\ \A o \in D : (\A c \in Thread(idx) : c[1] # o) => new[o] = out[o]
    BY <1>2, <2>4, CellsStored
  <2> HIDE DEF new
  <2>6. ASSUME NEW o \in D
        PROVE  new[o] = IF Writer(o) = idx /\ ~ Skipped(o) THEN Value(o) ELSE out[o]
    <3>1. CASE o = idx /\ ~ Skipped(idx)
      <4>1. <<idx, Value(idx)>> \in Thread(idx)
        BY <1>3, <3>1
      <4>2. new[idx] = Value(idx)
        BY <2>5, <4>1
      <4>. QED BY <2>1, <3>1, <4>2
    <3>2. CASE ~ (o = idx /\ ~ Skipped(idx))
      <4>1. \A c \in Thread(idx) : c[1] # o
        BY <1>3, <3>2
      <4>. QED BY <2>1, <2>5, <3>2, <4>1
    <3>. QED BY <3>1, <3>2
  <2>. QED BY <2>5, <2>6 DEF new
<1>4. CASE job.op = "embedding"
  BY <1>1, <1>3, <1>4 DEF Thread, EmbeddingThread, Skipped, Value
<1>5. CASE job.op = "linear"
  <2>1. ~ Skipped(idx)
    BY <1>5 DEF Skipped
  <2>2. out[idx] = Product(job)[idx]
    <3>1. job.has_bias \/ Total(job) = 0
      BY <1>1, <1>5, JobFacts DEF Total
    <3>2. idx \in D
      BY <1>1, <1>5, <3>1 DEF Offsets, Total
    <3>3. Writer(idx) = idx
      BY <1>5 DEF Writer
    <3>. QED BY <1>1, <1>2, <1>5, <3>2, <3>3 DEF Cell, First
  <2>3. Thread(idx) = {<<idx, Value(idx)>>}
    BY <1>5, <2>2 DEF Thread, BiasThread, Value
  <2>. QED BY <1>3, <1>5, <2>1, <2>3
<1>6. CASE job.op \in {"silu_and_mul", "add"}
  <2>1. ~ Skipped(idx) /\ Thread(idx) = {<<idx, Value(idx)>>}
    BY <1>6 DEF Skipped, Thread, PointwiseThread, Value
  <2>. QED BY <1>3, <1>6, <2>1
<1>7. CASE job.op = "rotary"
  <2> DEFINE i == idx % Half
             tmp == idx \div Half
             d == job.head_dim
             base == tmp * d
             at == base + i
             r == Rotated(base + i, base + i + Half, i, tmp \div job.num_heads)
  <2>1. /\ at \in D /\ at + Half \in D
        /\ at \div d = tmp /\ (at + Half) \div d = tmp
        /\ at % d = i /\ (at + Half) % d = i + Half
        /\ i % Half = i /\ (i + Half) % Half = i
        /\ i \in Offsets(Half) /\ tmp \in Nat /\ idx = tmp * Half + i
    BY <1>1, <1>7, RotaryPlaces
  <2>2. Half \in Nat \ {0} /\ d \in Nat \ {0} /\ job.num_heads \in Nat \ {0}
    <3>1. /\ Half \in Nat \ {0} /\ d = Half + Half /\ job.num_heads \in Nat
          /\ job.num_tokens \in Nat /\ Total(job) = (job.num_tokens * job.num_heads) * Half
      BY <1>1, <1>7, Heads
    <3>2. job.num_heads # 0
      <4>1. ASSUME job.num_heads = 0  PROVE FALSE
        <5>1. job.num_tokens * 0 = 0 /\ 0 * Half = 0
          BY <3>1
        <5>2. Total(job) = 0
          BY <3>1, <4>1, <5>1
        <5>. QED BY <1>1, <5>2 DEF Offsets
      <4>. QED BY <4>1
    <3> HIDE DEF d
    <3>. QED BY <3>1, <3>2
  <2>3. Thread(idx) = {<<at, r.first>>, <<at + Half, r.second>>}
    <3>1. base = (((tmp \div job.num_heads) * job.num_heads) + (tmp % job.num_heads)) * d
      BY <2>1, <2>2, RowAndColumn
    <3>. QED BY <1>7, <3>1 DEF Thread, RotaryThread, Half
  <2>4. i \in Nat /\ i < Half
    BY <2>1, <2>2 DEF Offsets
  <2>5. at # at + Half
    <3>1. at \in Int
      BY <2>1 DEF Offsets
    <3> HIDE DEF at
    <3>. QED BY <2>2, <3>1
  <2>6. Writer(at) = idx /\ Writer(at + Half) = idx
    <3> HIDE DEF at, i, tmp
    <3>. QED BY <1>7, <2>1 DEF Writer
  <2>7. Value(at) = r.first /\ Value(at + Half) = r.second
    <3>1. RotaryValue(at) = r.first
      <4> HIDE DEF at, i, tmp
      <4>1. (at % d) % Half = i /\ (at \div d) * d = base /\ at % d < Half
        BY <2>1, <2>4
      <4>. QED BY <2>1, <4>1 DEF RotaryValue
    <3>2. RotaryValue(at + Half) = r.second
      <4>0. ~ i + Half < Half
        <5> HIDE DEF i
        <5>. QED BY <2>2, <2>4
      <4> HIDE DEF at, i, tmp
      <4>1. /\ ((at + Half) % d) % Half = i /\ ((at + Half) \div d) * d = base
            /\ ~ (at + Half) % d < Half
        BY <2>1, <4>0
      <4>. QED BY <2>1, <4>1 DEF RotaryValue
    <3>. QED BY <1>7, <3>1, <3>2 DEF Value
  <2>8. \A o \in D : Writer(o) = idx => o = at \/ o = at + Half
    BY <1>1, <1>7, RotaryWriter
  <2>9. \A o \in D : ~ Skipped(o)
    BY <1>7 DEF Skipped
  <2> HIDE DEF at, r, D
  <2> DEFINE new == Stored(out, Thread(idx))
  <2>10. /\ new = [o \in D |-> new[o]]
         /\ new[at] = r.first /\ new[at + Half] = r.second
         /\ \A o \in D : o # at /\ o # at + Half => new[o] = out[o]
    <3>1. /\ \A c, e \in Thread(idx) : c[1] = e[1] => c[2] = e[2]
          /\ \A c \in Thread(idx) : c[1] \in DOMAIN out
      BY <1>2, <2>1, <2>3, <2>5
    <3>2. /\ new = [o \in D |-> new[o]]
          /\ \A c \in Thread(idx) : new[c[1]] = c[2]
          /\ \A o \in D : (\A c \in Thread(idx) : c[1] # o) => new[o] = out[o]
      BY <1>2, <3>1, CellsStored
    <3> HIDE DEF new
    <3>3. <<at, r.first>> \in Thread(idx) /\ <<at + Half, r.second>> \in Thread(idx)
      BY <2>3
    <3>4. new[at] = r.first /\ new[at + Half] = r.second
      BY <3>2, <3>3
    <3>5. \A o \in D : o # at /\ o # at + Half => \A c \in Thread(idx) : c[1] # o
      BY <2>3
    <3>. QED BY <3>2, <3>4, <3>5
  <2> HIDE DEF new
  <2>11. ASSUME NEW o \in D
         PROVE  new[o] = IF Writer(o) = idx /\ ~ Skipped(o) THEN Value(o) ELSE out[o]
    BY <2>6, <2>7, <2>8, <2>9, <2>10
  <2>. QED BY <2>10, <2>11 DEF D, new
<1>. QED BY <1>1, <1>4, <1>5, <1>6, <1>7, JobFacts

-----------------------------------------------------------------------------
(* The invariant.                                                          *)

(* Nothing has run yet.                                                    *)
LEMMA InitInv == Init => Inv
<1> SUFFICES ASSUME Init PROVE Inv
  OBVIOUS
<1>1. job \in Jobs /\ error_flag = 0 /\ ran = {} /\ host = "launched"
  BY DEF Init
<1>2. \A o : Cell(o) = First(o)
  BY <1>1 DEF Cell
<1>3. out = [o \in Offsets(Elements(job)) |-> First(o)]
  <2>1. CASE job.op # "linear"
    BY <2>1 DEF Init, First
  <2>2. CASE job.op = "linear"
    <3>1. out = Product(job)
      BY <2>2 DEF Init
    <3>2. \A o : First(o) = Product(job)[o]
      BY <2>2 DEF First
    <3>3. Product(job) = [o \in Offsets(Elements(job)) |-> Product(job)[o]]
      BY <1>1, <2>2, ProductShape
    <3>. QED BY <3>1, <3>2, <3>3
  <2>. QED BY <2>1, <2>2
<1>. QED BY <1>1, <1>2, <1>3 DEF Inv, OutWritten, FlagRaised, HostWaited

(* What the definitions above say of an offset does not change with what   *)
(* the threads and the host do.                                            *)
LEMMA JobStays ==
  ASSUME UNCHANGED job
  PROVE  /\ Jobs' = Jobs /\ Elements(job)' = Elements(job) /\ Active' = Active
         /\ Launched' = Launched /\ Offsets(Elements(job))' = Offsets(Elements(job))
         /\ \A o : /\ Writer(o)' = Writer(o) /\ Skipped(o)' = Skipped(o)
                   /\ Value(o)' = Value(o) /\ First(o)' = First(o)
<1>1. PICK j : j = job
  OBVIOUS
<1>2. job' = j /\ job = j
  BY <1>1
<1>3. /\ Elements(job)' = Elements(job) /\ Total(job)' = Total(job)
      /\ Product(job)' = Product(job)
  BY <1>2
<1>. QED
  BY <1>2, <1>3 DEF Jobs, Active, Threads, Launched, Offsets, Writer, Half, Skipped, OutOfRange,
     EmbeddingToken, Value, RotaryValue, Rotated, First

(* A thread adds its cells, and raises the flag if it skipped its own.     *)
LEMMA RunKeeps ==
  ASSUME Inv, NEW idx \in Threads, Run(idx)
  PROVE  Inv'
<1>1. /\ idx \in Active \ ran /\ out' = Stored(out, Thread(idx)) /\ ran' = ran \cup {idx}
      /\ UNCHANGED <<job, host>> /\ Launched
      /\ error_flag' = IF Skipped(idx) THEN 1 ELSE error_flag
  BY DEF Run, Skipped
<1>2. /\ Jobs' = Jobs /\ Active' = Active /\ Launched' = Launched
      /\ Offsets(Elements(job))' = Offsets(Elements(job))
      /\ \A o : /\ Writer(o)' = Writer(o) /\ Skipped(o)' = Skipped(o)
                /\ Value(o)' = Value(o) /\ First(o)' = First(o)
  BY <1>1, JobStays
<1>3. OutWritten'
  <2> DEFINE D == Offsets(Elements(job))
  <2>1. out = [o \in D |-> Cell(o)]
    BY DEF Inv, OutWritten
  <2>2. out' = [o \in D |-> IF Writer(o) = idx /\ ~ Skipped(o) THEN Value(o) ELSE out[o]]
    BY <1>1, ThreadWrites
  <2>3. \A o : Cell(o)' = IF Writer(o) \in ran' /\ ~ Skipped(o) THEN Value(o) ELSE First(o)
    BY <1>2 DEF Cell
  <2>4. \A o \in D : out'[o] = Cell(o)'
    BY <1>1, <2>1, <2>2, <2>3 DEF Cell
  <2>. QED BY <1>2, <2>2, <2>4 DEF OutWritten
<1>4. FlagRaised'
  <2>1. (\E i \in ran' : Skipped(i)') <=> (\E i \in ran : Skipped(i)) \/ Skipped(idx)
    BY <1>1, <1>2
  <2>. QED BY <1>1, <2>1 DEF Inv, FlagRaised
<1>5. HostWaited'
  BY <1>1, <1>2 DEF Inv, HostWaited
<1>. QED BY <1>1, <1>2, <1>3, <1>4, <1>5 DEF Inv

(* The host reads the flag when all threads have run.                      *)
LEMMA HostKeeps ==
  ASSUME Inv, LaunchFails \/ ReadFlag \/ ReturnAtOnce \/ UNCHANGED vars
  PROVE  Inv'
<1>1. UNCHANGED <<job, out, error_flag, ran>>
  BY DEF LaunchFails, ReadFlag, ReturnAtOnce, vars
<1>2. /\ Jobs' = Jobs /\ Active' = Active /\ Launched' = Launched
      /\ Offsets(Elements(job))' = Offsets(Elements(job))
      /\ \A o : /\ Writer(o)' = Writer(o) /\ Skipped(o)' = Skipped(o)
                /\ Value(o)' = Value(o) /\ First(o)' = First(o)
  BY <1>1, JobStays
<1>3. OutWritten'
  <2>1. \A o : Cell(o)' = Cell(o)
    BY <1>1, <1>2 DEF Cell
  <2>. QED BY <1>1, <1>2, <2>1 DEF Inv, OutWritten
<1>4. FlagRaised'
  BY <1>1, <1>2 DEF Inv, FlagRaised
<1>5. HostWaited'
  <2>1. job'.op = job.op
    BY <1>1
  <2>. QED BY <1>1, <1>2, <2>1
           DEF Inv, HostWaited, LaunchFails, ReadFlag, ReturnAtOnce, FlagReadable, vars
<1>. QED BY <1>1, <1>2, <1>3, <1>4, <1>5 DEF Inv

(* Cells, offsets, flag and host stay as the invariant says.               *)
THEOREM SpecInv == Spec => []Inv
<1>1. Init => Inv
  BY InitInv
<1>2. Inv /\ [Next]_vars => Inv'
  BY RunKeeps, HostKeeps DEF Next
<1>. QED BY <1>1, <1>2, PTL DEF Spec

-----------------------------------------------------------------------------
(* The CPU.                                                                *)

(* Cells that agree with a tensor and leave nothing out are that tensor.   *)
LEMMA CellsAreTensor ==
  ASSUME NEW tensor, NEW D, tensor = [o \in D |-> tensor[o]], NEW cells,
         \A c \in cells : c[1] \in D /\ c[2] = tensor[c[1]],
         \A o \in D : \E c \in cells : c[1] = o
  PROVE  AsTensor(cells) = tensor
<1>1. \A c \in cells : AsTensor(cells)[c[1]] = c[2]
  BY CellsAgree
<1>2. {c[1] : c \in cells} = D
  OBVIOUS
<1>3. AsTensor(cells) = [o \in D |-> AsTensor(cells)[o]]
  BY <1>2 DEF AsTensor
<1>4. \A o \in D : AsTensor(cells)[o] = tensor[o]
  BY <1>1
<1>. QED BY <1>3, <1>4

(* Some token is not there if and only if a thread skips its element.      *)
LEMMA ThrowsIfSkipped ==
  ASSUME job \in Jobs
  PROVE  CpuThrows <=> \E idx \in Offsets(Total(job)) : Skipped(idx)
<1>1. CASE job.op # "embedding"
  BY <1>1 DEF CpuThrows, Skipped
<1>2. CASE job.op = "embedding"
  <2> DEFINE n == Len(job.ids)
             h == job.hidden_size
  <2>1. /\ job.ids \in Seq(Int) /\ n \in Nat /\ h \in Nat \ {0} /\ DOMAIN job.ids = 1 .. n
        /\ Total(job) = n * h
    BY <1>2, JobFacts DEF Total, Elements
  <2> HIDE DEF n, h
  <2>2. ASSUME NEW t \in DOMAIN job.ids, OutOfRange(job.ids[t])
        PROVE  \E idx \in Offsets(Total(job)) : Skipped(idx)
    <3>1. t - 1 \in Offsets(n) /\ t - 1 \in Nat /\ 0 \in Offsets(h)
      BY <2>1 DEF Offsets
    <3> DEFINE idx == (t - 1) * h + 0
    <3>2. idx \in Offsets(n * h)
      BY <2>1, <3>1, InMatrix
    <3>3. idx \div h = t - 1
      BY <2>1, <3>1, IndexTakenApart
    <3> HIDE DEF idx
    <3>4. (idx \div h) + 1 = t
      BY <2>1, <3>3
    <3>5. EmbeddingToken(idx) = job.ids[t]
      BY <3>4 DEF EmbeddingToken, h
    <3>. QED BY <1>2, <2>1, <2>2, <3>2, <3>5 DEF Skipped
  <2>3. ASSUME NEW idx \in Offsets(Total(job)), Skipped(idx)
        PROVE  \E t \in DOMAIN job.ids : OutOfRange(job.ids[t])
    <3> DEFINE q == idx \div h
    <3>1. q \in Offsets(n)
      BY <2>1, InMatrix
    <3>2. EmbeddingToken(idx) = job.ids[q + 1]
      BY DEF EmbeddingToken, h
    <3> HIDE DEF q
    <3>3. q + 1 \in DOMAIN job.ids
      BY <2>1, <3>1 DEF Offsets
    <3>. QED BY <2>3, <3>2, <3>3 DEF Skipped
  <2>. QED BY <1>2, <2>2, <2>3 DEF CpuThrows
<1>. QED BY <1>1, <1>2

(* The loops over tokens and hidden elements.                              *)
LEMMA EmbeddingLoops ==
  ASSUME job \in Jobs, job.op = "embedding",
         NEW tensor, tensor = [o \in Offsets(Elements(job)) |-> Value(o)]
  PROVE  AsTensor(CpuEmbedding) = tensor
<1> DEFINE n == Len(job.ids)
           h == job.hidden_size
           D == Offsets(Elements(job))
<1>1. n \in Nat /\ h \in Nat \ {0} /\ Elements(job) = n * h
  BY JobFacts DEF Elements
<1>2. \A c \in CpuEmbedding : c[1] \in D /\ c[2] = tensor[c[1]]
  <2>1. SUFFICES ASSUME NEW t \in Offsets(n), NEW i \in Offsets(h)
                 PROVE  /\ t * h + i \in D
                        /\ Value(t * h + i) = <<"w", job.ids[t + 1] * h + i>>
    BY DEF CpuEmbedding
  <2>2. t \in Nat
    BY <1>1 DEF Offsets
  <2> DEFINE o == t * h + i
  <2>3. o \in Offsets(n * h)
    BY <1>1, InMatrix
  <2>4. o \div h = t /\ o % h = i
    BY <1>1, <2>2, IndexTakenApart
  <2> HIDE DEF o
  <2>5. Value(o) = <<"w", job.ids[t + 1] * h + i>>
    BY <2>4 DEF Value, EmbeddingToken
  <2>. QED BY <1>1, <2>3, <2>5 DEF o
<1>3. ASSUME NEW o \in D PROVE \E c \in CpuEmbedding : c[1] = o
  <2> DEFINE t == o \div h
             i == o % h
  <2>1. o \in Nat
    BY <1>1 DEF Offsets
  <2>2. t \in Offsets(n) /\ i \in Offsets(h) /\ o = t * h + i
    BY <1>1, <2>1, InMatrix, RowAndColumn
  <2> HIDE DEF t, i
  <2> DEFINE c == <<t * h + i, <<"w", job.ids[t + 1] * h + i>>>>
  <2>3. c \in CpuEmbedding /\ c[1] = o
    BY <2>2 DEF CpuEmbedding
  <2>. QED BY <2>3
<1>. QED BY <1>2, <1>3, CellsAreTensor

(* What the loops store for a row and a column.                            *)
LinearValue(row, col) ==
  [sum |-> [p \in 1 .. job.k |-> <<row * job.k + p - 1, col * job.k + p - 1>>],
   bias |-> IF job.has_bias THEN col ELSE "none"]

(* The CPU's loops over a linear layer store that, and nothing else.        *)
LEMMA LinearCells ==
  CpuLinear = {<<row * job.n + col, LinearValue(row, col)>> :
                 row \in Offsets(job.m), col \in Offsets(job.n)}
BY DEF CpuLinear, LinearValue

(* The loops over rows and columns.                                        *)
LEMMA LinearLoops ==
  ASSUME job \in Jobs, job.op = "linear",
         NEW tensor, tensor = [o \in Offsets(Elements(job)) |->
                                 IF job.has_bias THEN Value(o) ELSE Product(job)[o]]
  PROVE  AsTensor(CpuLinear) = tensor
<1> DEFINE m == job.m
           n == job.n
           D == Offsets(Elements(job))
<1>1. m \in Nat /\ n \in Nat \ {0} /\ Elements(job) = m * n
  BY JobFacts DEF Elements
<1>2. \A c \in CpuLinear : c[1] \in D /\ c[2] = tensor[c[1]]
  <2>1. SUFFICES ASSUME NEW row \in Offsets(m), NEW col \in Offsets(n)
                 PROVE  row * n + col \in D /\ tensor[row * n + col] = LinearValue(row, col)
    BY LinearCells
  <2>2. row \in Nat
    BY <1>1 DEF Offsets
  <2> DEFINE o == row * n + col
             sum == [p \in 1 .. job.k |-> <<row * job.k + p - 1, col * job.k + p - 1>>]
  <2>3. o \in D
    BY <1>1, InMatrix
  <2>4. o % n = col
    BY <1>1, <2>2, IndexTakenApart
  <2>5. Product(job)[o] = [sum |-> sum, bias |-> "none"]
    BY ProductShape
  <2> HIDE DEF o, sum, D
  <2>6. tensor[o] = IF job.has_bias THEN Value(o) ELSE Product(job)[o]
    BY <2>3 DEF D
  <2>7. job.has_bias => Value(o) = [sum |-> sum, bias |-> col]
    BY <2>4, <2>5 DEF Value
  <2>8. tensor[o] = [sum |-> sum, bias |-> IF job.has_bias THEN col ELSE "none"]
    BY <2>5, <2>6, <2>7
  <2>. QED BY <2>3, <2>8 DEF o, sum, LinearValue
<1>3. ASSUME NEW o \in D PROVE \E c \in CpuLinear : c[1] = o
  <2> DEFINE row == o \div n
             col == o % n
  <2>1. o \in Nat
    BY <1>1 DEF Offsets
  <2>2. row \in Offsets(m) /\ col \in Offsets(n) /\ o = row * n + col
    BY <1>1, <2>1, InMatrix, RowAndColumn
  <2> HIDE DEF row, col
  <2> DEFINE c == <<row * n + col, LinearValue(row, col)>>
  <2>3. \A a \in Offsets(m), b \in Offsets(n) : <<a * n + b, LinearValue(a, b)>> \in CpuLinear
    BY LinearCells
  <2>4. c \in CpuLinear
    <3> HIDE DEF m, n
    <3>. QED BY <2>2, <2>3
  <2>5. c[1] = row * n + col
    OBVIOUS
  <2>6. c \in CpuLinear /\ c[1] = o
    BY <2>2, <2>4, <2>5
  <2>. QED BY <2>6
<1> HIDE DEF D
<1>4. tensor = [o \in D |-> tensor[o]]
  BY DEF D
<1>. QED BY <1>2, <1>3, <1>4, CellsAreTensor

(* The loop over the elements.                                             *)
LEMMA PointwiseLoop ==
  ASSUME job \in Jobs, job.op \in {"silu_and_mul", "add"},
         NEW tensor, tensor = [o \in Offsets(Elements(job)) |-> Value(o)]
  PROVE  AsTensor(CpuPointwise) = tensor
<1>1. \A o : Value(o) = <<job.op, o, o>>
  BY DEF Value
<1>2. Offsets(Elements(job)) = Offsets(job.length)
  BY DEF Elements
<1>3. \A c \in CpuPointwise : c[1] \in Offsets(job.length) /\ c[2] = tensor[c[1]]
  BY <1>1, <1>2 DEF CpuPointwise
<1>4. ASSUME NEW o \in Offsets(job.length) PROVE \E c \in CpuPointwise : c[1] = o
  <2> DEFINE c == <<o, <<job.op, o, o>>>>
  <2>1. c \in CpuPointwise /\ c[1] = o
    BY DEF CpuPointwise
  <2>. QED BY <2>1
<1>5. tensor = [o \in Offsets(job.length) |-> tensor[o]]
  BY <1>2
<1>. QED BY <1>3, <1>4, <1>5, CellsAreTensor

(* The loops over tokens, heads and pairs.                                 *)
LEMMA RotaryLoops ==
  ASSUME job \in Jobs, job.op = "rotary",
         NEW tensor, tensor = [o \in Offsets(Elements(job)) |-> Value(o)]
  PROVE  AsTensor(CpuRotary) = tensor
<1> DEFINE T == job.num_tokens
           H == job.num_heads
           d == job.head_dim
           h == Half
           D == Offsets(Elements(job))
           at(token, head, i) == (token * H + head) * d + i
           r(token, head, i) == Rotated(at(token, head, i), at(token, head, i) + h, i, token)
           Pair(token, head, i) ==
             {<<at(token, head, i), r(token, head, i).first>>,
              <<at(token, head, i) + h, r(token, head, i).second>>}
<1>1. /\ T \in Nat /\ H \in Nat /\ d \in Nat \ {0} /\ h \in Nat \ {0} /\ d = h + h
      /\ T * H \in Nat /\ Elements(job) = (T * H) * d
  BY Heads
<1>2. CpuRotary = UNION {Pair(token, head, i) : token \in Offsets(T), head \in Offsets(H), i \in Offsets(h)}
  BY DEF CpuRotary, Half
<1>3. ASSUME NEW token \in Offsets(T), NEW head \in Offsets(H), NEW i \in Offsets(h)
      PROVE  /\ at(token, head, i) \in D /\ at(token, head, i) + h \in D
             /\ Value(at(token, head, i)) = r(token, head, i).first
             /\ Value(at(token, head, i) + h) = r(token, head, i).second
  <2> DEFINE q == token * H + head
             a == at(token, head, i)
  <2>1. H # 0 /\ token \in Nat /\ head \in Nat /\ i \in Nat /\ i < h
    BY <1>1 DEF Offsets
  <2>2. q \in Offsets(T * H) /\ q \div H = token
    BY <1>1, <2>1, InMatrix, IndexTakenApart
  <2> HIDE DEF q
  <2>3. q \in Nat
    BY <1>1, <2>2 DEF Offsets
  <2>4. i \in Offsets(d) /\ i + h \in Offsets(d)
    BY <1>1, <2>1 DEF Offsets
  <2>5. /\ q * d + i \in D /\ q * d + (i + h) \in D
        /\ (q * d + i) \div d = q /\ (q * d + i) % d = i
        /\ (q * d + (i + h)) \div d = q /\ (q * d + (i + h)) % d = i + h
    <3>1. q * d + i \in D /\ q * d + (i + h) \in D
      BY <1>1, <2>2, <2>4, InMatrix
    <3>2. /\ (q * d + i) \div d = q /\ (q * d + i) % d = i
          /\ (q * d + (i + h)) \div d = q /\ (q * d + (i + h)) % d = i + h
      BY ZenonT(60), <1>1, <2>3, <2>4, IndexTakenApart
    <3>. QED BY <3>1, <3>2
  <2>6. a = q * d + i /\ a + h = q * d + (i + h)
    <3>1. q * d \in Nat
      BY <1>1, <2>3
    <3>. QED BY <1>1, <2>1, <3>1 DEF q
  <2>7. i % h = i /\ (i + h) % h = i
    <3>1. (0 * h + i) % h = i /\ (1 * h + i) % h = i
      BY <1>1, IndexTakenApart
    <3>2. 0 * h + i = i /\ 1 * h + i = i + h
      BY <1>1, <2>1
    <3>. QED BY <3>1, <3>2
  <2>8. ~ i + h < h
    BY <1>1, <2>1
  <2> DEFINE s == Rotated(q * d + i, q * d + i + h, i, q \div H)
  <2> HIDE DEF a, at
  <2>9. RotaryValue(a) = s.first
    <3>1. (a % d) % h = i /\ (a \div d) * d = q * d /\ a % d < h /\ (a \div d) \div H = q \div H
      BY <2>1, <2>5, <2>6, <2>7
    <3>. QED BY <3>1 DEF RotaryValue
  <2>10. RotaryValue(a + h) = s.second
    <3>1. /\ ((a + h) % d) % h = i /\ ((a + h) \div d) * d = q * d
          /\ ~ (a + h) % d < h /\ ((a + h) \div d) \div H = q \div H
      BY <2>5, <2>6, <2>7, <2>8
    <3>. QED BY <3>1 DEF RotaryValue
  <2>11. r(token, head, i) = s
    BY <2>2, <2>6 DEF a
  <2>12. Value(a) = s.first /\ Value(a + h) = s.second
    BY <2>9, <2>10 DEF Value
  <2>. QED BY <2>5, <2>6, <2>11, <2>12 DEF a
<1>4. \A c \in CpuRotary : c[1] \in D /\ c[2] = tensor[c[1]]
  <2>1. TAKE c \in CpuRotary
  <2>2. PICK token \in Offsets(T), head \in Offsets(H), i \in Offsets(h) : c \in Pair(token, head, i)
    BY <1>2
  <2> DEFINE a == at(token, head, i)
             s == r(token, head, i)
  <2>3. c = <<a, s.first>> \/ c = <<a + h, s.second>>
    BY <2>2
  <2>4. a \in D /\ a + h \in D /\ Value(a) = s.first /\ Value(a + h) = s.second
    BY <1>3
  <2> HIDE DEF a, s, D
  <2>5. \A o \in D : tensor[o] = Value(o)
    BY DEF D
  <2>. QED BY <2>3, <2>4, <2>5
<1>5. ASSUME NEW o \in D PROVE \E c \in CpuRotary : c[1] = o
  <2> DEFINE q == o \div d
             x == o % d
             token == q \div H
             head == q % H
             i == IF x < h THEN x ELSE x - h
             a == at(token, head, i)
  <2>1. o \in Nat
    BY <1>1 DEF Offsets
  <2>2. q \in Offsets(T * H) /\ x \in Offsets(d) /\ o = q * d + x
    BY <1>1, <2>1, InMatrix, RowAndColumn
  <2> HIDE DEF q, x
  <2>3. q \in Nat /\ H # 0
    <3>1. H # 0
      <4>1. T * 0 = 0
        BY <1>1
      <4>. QED BY <1>1, <2>2, <4>1 DEF Offsets
    <3>. QED BY <1>1, <2>2, <3>1 DEF Offsets
  <2>4. token \in Offsets(T) /\ head \in Offsets(H) /\ q = token * H + head
    BY <1>1, <2>2, <2>3, InMatrix, RowAndColumn
  <2> HIDE DEF token, head
  <2>5. x \in Nat /\ x < h + h
    BY <1>1, <2>2 DEF Offsets
  <2>6. i \in Offsets(h) /\ (x = i \/ x = i + h)
    BY <1>1, <2>5 DEF Offsets
  <2> HIDE DEF i
  <2>7. o = a \/ o = a + h
    <3>1. a = q * d + i
      BY <2>4
    <3>2. q * d \in Nat /\ i \in Nat
      BY <1>1, <2>3, <2>6 DEF Offsets
    <3> HIDE DEF a
    <3>. QED BY <1>1, <2>2, <2>6, <3>1, <3>2
  <2> HIDE DEF a
  <2> DEFINE c1 == <<a, r(token, head, i).first>>
             c2 == <<a + h, r(token, head, i).second>>
  <2>8. c1 \in Pair(token, head, i) /\ c2 \in Pair(token, head, i)
    BY DEF a
  <2>9. c1 \in CpuRotary /\ c2 \in CpuRotary
    <3> HIDE DEF c1, c2, Pair
    <3>. QED BY <1>2, <2>4, <2>6, <2>8
  <2>10. c1[1] = a /\ c2[1] = a + h
    OBVIOUS
  <2>. QED BY <2>7, <2>9, <2>10
<1>6. tensor = [o \in D |-> tensor[o]]
  OBVIOUS
<1> HIDE DEF D
<1>. QED BY <1>4, <1>5, <1>6, CellsAreTensor

-----------------------------------------------------------------------------
(* In whatever order the threads run, the device computes what the CPU     *)
(* loops compute and throws if and only if they throw, as long as an int   *)
(* counts the threads.                                                     *)
THEOREM DeviceSameAsLoops == Spec => []SameAsLoops
<1>1. Inv => SameAsLoops
  <2> SUFFICES ASSUME Inv, FitsInt(Total(job))
               PROVE  /\ host = "threw" => CpuThrows
                      /\ host = "returned" => ~ CpuThrows
                      /\ ~ CpuThrows /\ Active \subseteq ran => out = CpuOutput
    BY DEF SameAsLoops
  <2>1. job \in Jobs /\ Active = Offsets(Total(job)) /\ Launched /\ ran \subseteq Active
    BY GridCovers DEF Inv
  <2>2. CpuThrows <=> \E idx \in Active : Skipped(idx)
    BY <2>1, ThrowsIfSkipped
  <2>3. host = "threw" => CpuThrows
    BY <2>1, <2>2 DEF Inv, HostWaited, FlagRaised
  <2>4. host = "returned" => ~ CpuThrows
    <3>1. job.op # "embedding" => ~ CpuThrows
      BY DEF CpuThrows
    <3>. QED BY <2>1, <2>2, <3>1 DEF Inv, HostWaited, FlagRaised
  <2>5. ASSUME ~ CpuThrows, Active \subseteq ran
        PROVE  out = CpuOutput
    <3> DEFINE D == Offsets(Elements(job))
    <3>1. out = [o \in D |-> Cell(o)]
      BY DEF Inv, OutWritten
    <3>2. ASSUME NEW o \in D, job.op = "linear" => job.has_bias
          PROVE  Cell(o) = Value(o)
      <4>1. Writer(o) \in ran
        BY <2>1, <2>5, <3>2, WriterActs
      <4>2. ~ Skipped(o)
        <5>1. CASE job.op = "embedding"
          <6>1. Writer(o) = o
            BY <5>1 DEF Writer
          <6>. QED BY <2>1, <2>2, <2>5, <4>1, <6>1
        <5>. QED BY <5>1 DEF Skipped
      <4>. QED BY <4>1, <4>2 DEF Cell
    <3>3. CASE job.op = "embedding"
      <4>1. out = [o \in D |-> Value(o)]
        BY <3>1, <3>2, <3>3
      <4>. QED BY <2>1, <3>3, <4>1, EmbeddingLoops DEF CpuOutput
    <3>4. CASE job.op = "rotary"
      <4>1. out = [o \in D |-> Value(o)]
        BY <3>1, <3>2, <3>4
      <4>. QED BY <2>1, <3>4, <4>1, RotaryLoops DEF CpuOutput
    <3>5. CASE job.op = "linear"
      <4>1. \A o \in D : Cell(o) = IF job.has_bias THEN Value(o) ELSE Product(job)[o]
        <5>1. CASE job.has_bias
          BY <3>2, <5>1
        <5>2. CASE ~ job.has_bias
          <6>1. Active = {}
            BY <2>1, <3>5, <5>2 DEF Total, Offsets
          <6>2. ran = {}
            BY <2>1, <6>1
          <6>. QED BY <3>5, <5>2, <6>2 DEF Cell, First
        <5>. QED BY <5>1, <5>2
      <4>2. out = [o \in D |-> IF job.has_bias THEN Value(o) ELSE Product(job)[o]]
        BY <3>1, <4>1
      <4>. QED BY <2>1, <3>5, <4>2, LinearLoops DEF CpuOutput
    <3>6. CASE job.op \in {"silu_and_mul", "add"}
      <4>1. out = [o \in D |-> Value(o)]
        BY <3>1, <3>2, <3>6
      <4>. QED BY <2>1, <3>6, <4>1, PointwiseLoop DEF CpuOutput
    <3>. QED BY <2>1, <3>3, <3>4, <3>5, <3>6, JobFacts
  <2>. QED BY <2>3, <2>4, <2>5
<1>. QED BY <1>1, SpecInv, PTL
=============================================================================
