--------------------------- MODULE ModelProofs ---------------------------
(***************************************************************************)
(* What is proved of KVCache, WeightLoading, Qwen3Forward and the modules  *)
(* they share.                                                             *)
(*                                                                         *)
(* The contiguous cache holds what was fed, for any number of layers, any  *)
(* initial capacity and passes of any length that throw anywhere.          *)
(*                                                                         *)
(* Loading weights leaks nothing and refuses nothing without a cause, for  *)
(* any number of layers, any sizes, any directories one after the other    *)
(* and any allocations that fail.  The plan of a load and the entries of a *)
(* directory are sequences laid out by layer, and a memory is whole when   *)
(* each allocation has one owner; the invariant then says what a read or a *)
(* load has done so far.                                                   *)
(*                                                                         *)
(* A forward pass computes the logits of its rows, over the cache it was   *)
(* given, for any number of layers and any requests.  The program is laid  *)
(* out position by position, 25 stages to a layer, and the invariant says  *)
(* what each tensor holds at each, and how far the caches are written.     *)
(***************************************************************************)
EXTENDS Qwen3Forward, SequenceTheorems, FiniteSetTheorems, WellFoundedInduction, TLAPS

USE KVCacheAssumption

(* A set of naturals with an element has a least one.                      *)
LEMMA LeastExists ==
  ASSUME NEW T \in SUBSET Nat, T # {}
  PROVE  Min(T) \in T /\ \A y \in T : Min(T) <= y
<1> DEFINE R == {ss \in Nat \X Nat : ss[1] < ss[2]}
<1>1. IsWellFoundedOn(R, Nat)
  BY NatLessThanWellFounded DEF OpToRel
<1>2. PICK x \in T : \A y \in T : ~ (<<y, x>> \in R)
  <2> HIDE DEF R
  <2>. QED BY <1>1, WFMin
<1>3. ASSUME NEW y \in T PROVE x <= y
  <2>1. y \in Nat /\ x \in Nat /\ ~ (<<y, x>> \in R)
    BY <1>2
  <2>2. y < x => <<y, x>> \in R
    <3>1. SUFFICES ASSUME y < x PROVE <<y, x>> \in R
      OBVIOUS
    <3> DEFINE t == <<y, x>>
    <3>2. t \in Nat \X Nat /\ t[1] < t[2]
      BY <2>1, <3>1
    <3> HIDE DEF t
    <3>3. t \in R
      BY <3>2
    <3>. QED BY <3>3 DEF t
  <2>. QED BY <2>1, <2>2
<1>. QED BY <1>3 DEF Min

(* A number is at most its product with a positive one.                    *)
LEMMA Multiple ==
  ASSUME NEW b \in Nat \ {0}, NEW x \in Nat
  PROVE  b * x \in Nat /\ x <= b * x
<1>1. b * x = x + (b - 1) * x
  OBVIOUS
<1>2. (b - 1) * x \in Nat
  OBVIOUS
<1>. QED BY <1>1, <1>2

(* The loop of ensure_capacity ends, with room for what was required.      *)
LEMMA DoubledSuffices ==
  ASSUME capacity \in Nat, NEW required \in 0 .. MaxTokens
  PROVE  Doubled(required) \in Nat /\ required <= Doubled(required)
<1> DEFINE base == IF capacity > 0 THEN capacity ELSE MinCapacity
           S == {base * 2^k : k \in {j \in 0 .. required : base * 2^j >= required}}
<1>1. base \in Nat \ {0}
  OBVIOUS
<1>2. \A j \in 0 .. required : 2^j \in Nat /\ j <= 2^j
  BY PowersOfTwo
<1> HIDE DEF base
<1>3. \A j \in 0 .. required : base * 2^j \in Nat /\ j <= base * 2^j
  <2>1. SUFFICES ASSUME NEW j \in 0 .. required
                 PROVE  base * 2^j \in Nat /\ j <= base * 2^j
    OBVIOUS
  <2> DEFINE x == 2^j
  <2>2. x \in Nat /\ j <= x
    BY <1>2
  <2> HIDE DEF x
  <2>3. base * x \in Nat /\ x <= base * x
    BY <1>1, <2>2, Multiple
  <2>4. base * x \in Nat /\ j <= base * x
    BY <2>2, <2>3
  <2>. QED BY <2>4 DEF x
<1>4. S \in SUBSET Nat
  BY <1>3
<1>5. base * 2^required \in S
  BY <1>3
<1>6. \A c \in S : required <= c
  BY <1>3
<1>7. Doubled(required) = Min(S)
  BY DEF Doubled, base
<1> HIDE DEF S
<1>8. Min(S) \in S
  BY <1>4, <1>5, LeastExists
<1>. QED BY <1>4, <1>6, <1>7, <1>8
-----------------------------------------------------------------------------
Tags == Nat \X Nat
LayerType == [rows : Seq(Tags), current_len : Nat, capacity : Nat]

Types ==
  /\ current_len \in Nat /\ capacity \in Nat /\ passes \in Nat
  /\ layers \in [Layers -> LayerType]
  /\ pass \in [past : Nat, len : Nat, next : Nat]
  /\ fed \in Seq(Tags)

(* Where a pass stands: it starts where the cache ends, and the first      *)
(* layer has made room for all.                                            *)
PassFits ==
  Running =>
    /\ pass.past = current_len /\ pass.len \in Nat \ {0}
    /\ pass.next \in 1 .. NumLayers + 1
    /\ current_len + pass.len <= MaxTokens
    /\ pass.next > 1 => current_len + pass.len <= capacity

CacheInv == Types /\ PassFits /\ RowsHold /\ PassKept /\ CapacityAgrees

(* A function on an interval from one is a sequence.                       *)
LEMMA FunctionIsSeq ==
  ASSUME NEW S, NEW n \in Nat, NEW f \in [1 .. n -> S]
  PROVE  f \in Seq(S) /\ Len(f) = n /\ DOMAIN f = 1 .. n
OBVIOUS

(* A layer the constructor or ensure_capacity makes is well typed.         *)
LEMMA NewLayerType ==
  ASSUME NEW n \in Nat, NEW len \in Nat
  PROVE  /\ NewLayer(n, len).rows \in [1 .. n -> Tags]
         /\ NewLayer(n, len).current_len = len /\ NewLayer(n, len).capacity = n
         /\ DOMAIN NewLayer(n, len) = {"rows", "current_len", "capacity"}
         /\ NewLayer(n, len) \in LayerType
<1>1. [i \in 1 .. n |-> UnsetRow] \in [1 .. n -> Tags]
  BY DEF UnsetRow, Tags
<1>2. [i \in 1 .. n |-> UnsetRow] \in Seq(Tags)
  BY <1>1, FunctionIsSeq
<1>. QED BY <1>1, <1>2 DEF NewLayer, LayerType

(* Growing keeps the rows that count, in every layer.                      *)
LEMMA GrownKeeps ==
  ASSUME Types, RowsHold, NEW required \in 0 .. MaxTokens, current_len <= required
  PROVE  \A l \in Layers :
           /\ Grown(required)[l] \in LayerType
           /\ Grown(required)[l].capacity = Doubled(required)
           /\ Len(Grown(required)[l].rows) = Doubled(required)
           /\ \A p \in 1 .. current_len : Grown(required)[l].rows[p] = layers[l].rows[p]
<1>1. SUFFICES ASSUME NEW l \in Layers
               PROVE  /\ Grown(required)[l] \in LayerType
                      /\ Grown(required)[l].capacity = Doubled(required)
                      /\ Len(Grown(required)[l].rows) = Doubled(required)
                      /\ \A p \in 1 .. current_len :
                           Grown(required)[l].rows[p] = layers[l].rows[p]
  OBVIOUS
<1> DEFINE n == Doubled(required)
           new == NewLayer(n, current_len)
           rows == [i \in DOMAIN new.rows |->
                      IF i <= current_len THEN layers[l].rows[i] ELSE new.rows[i]]
<1>2. n \in Nat /\ required <= n
  BY DoubledSuffices DEF Types
<1>3. Grown(required)[l] = [new EXCEPT !.rows = rows]
  BY DEF Grown
<1> HIDE DEF n
<1>4. /\ new.rows \in [1 .. n -> Tags] /\ new.capacity = n /\ new.current_len = current_len
      /\ DOMAIN new = {"rows", "current_len", "capacity"} /\ new \in LayerType
  BY <1>2, NewLayerType DEF Types
<1> HIDE DEF new
<1>5. \A p \in 1 .. current_len : p \in 1 .. n /\ layers[l].rows[p] \in Tags
  <2>1. \A p \in 1 .. current_len : p \in DOMAIN layers[l].rows /\ layers[l].rows \in Seq(Tags)
    BY DEF RowsHold, Types, LayerType
  <2>. QED BY <1>2, <2>1 DEF Types
<1>6. rows \in [1 .. n -> Tags] /\ \A p \in 1 .. current_len : rows[p] = layers[l].rows[p]
  <2>1. DOMAIN new.rows = 1 .. n /\ \A i \in 1 .. n : new.rows[i] \in Tags
    BY <1>4
  <2>2. \A i \in 1 .. n : i <= current_len => i \in 1 .. current_len
    BY <1>2 DEF Types
  <2>3. rows = [i \in 1 .. n |-> IF i <= current_len THEN layers[l].rows[i] ELSE new.rows[i]]
    BY <2>1
  <2> HIDE DEF rows
  <2>4. rows \in [1 .. n -> Tags]
    BY <1>5, <2>1, <2>2, <2>3
  <2>5. \A p \in 1 .. current_len : p <= current_len
    BY DEF Types
  <2>. QED BY <1>5, <2>3, <2>4, <2>5
<1> HIDE DEF rows
<1>7. rows \in Seq(Tags) /\ Len(rows) = n
  BY <1>2, <1>6, FunctionIsSeq
<1>8. /\ [new EXCEPT !.rows = rows] \in LayerType
      /\ [new EXCEPT !.rows = rows].capacity = n
      /\ [new EXCEPT !.rows = rows].rows = rows
  BY <1>4, <1>7 DEF LayerType
<1>. QED BY <1>3, <1>6, <1>7, <1>8 DEF n

(* ensure_capacity makes room and keeps the rows that count.               *)
LEMMA EnsuredKeeps ==
  ASSUME Types, RowsHold, CapacityAgrees,
         NEW required \in 0 .. MaxTokens, current_len <= required
  PROVE  /\ EnsuredCapacity(required) \in Nat /\ required <= EnsuredCapacity(required)
         /\ DOMAIN Ensured(required) = Layers
         /\ required <= capacity =>
              Ensured(required) = layers /\ EnsuredCapacity(required) = capacity
         /\ \A l \in Layers :
              /\ Ensured(required)[l] \in LayerType
              /\ Ensured(required)[l].capacity = EnsuredCapacity(required)
              /\ Len(Ensured(required)[l].rows) = EnsuredCapacity(required)
              /\ \A p \in 1 .. current_len : Ensured(required)[l].rows[p] = layers[l].rows[p]
<1>1. CASE required <= capacity
  BY <1>1 DEF Ensured, EnsuredCapacity, Types, CapacityAgrees
<1>2. CASE ~ required <= capacity
  <2>1. EnsuredCapacity(required) = Doubled(required) /\ Ensured(required) = Grown(required)
    BY <1>2 DEF Ensured, EnsuredCapacity
  <2>2. Doubled(required) \in Nat /\ required <= Doubled(required)
    BY DoubledSuffices DEF Types
  <2>3. DOMAIN Grown(required) = Layers
    BY DEF Grown
  <2>. QED BY <1>2, <2>1, <2>2, <2>3, GrownKeeps
<1>. QED BY <1>1, <1>2

(* update_layer of layer l with new rows.                                  *)
LEMMA UpdatedWrites ==
  ASSUME Types, RowsHold, CapacityAgrees, NEW l \in Layers,
         NEW new \in Seq(Tags), current_len + Len(new) <= MaxTokens
  PROVE  LET required == current_len + Len(new)
             u == Updated(l, new)
         IN  /\ u \in [Layers -> LayerType]
             /\ \A k \in Layers : u[k].capacity = EnsuredCapacity(required)
                                /\ Len(u[k].rows) = EnsuredCapacity(required)
             /\ \A k \in Layers, p \in 1 .. current_len : u[k].rows[p] = layers[k].rows[p]
             /\ \A i \in 1 .. Len(new) : u[l].rows[current_len + i] = new[i]
             /\ required <= capacity => \A k \in Layers \ {l} : u[k] = layers[k]
<1> DEFINE required == current_len + Len(new)
           u == Updated(l, new)
           e == Ensured(required)
           c == EnsuredCapacity(required)
           rows == [i \in DOMAIN e[l].rows |->
                      IF i - current_len \in DOMAIN new THEN new[i - current_len]
                      ELSE e[l].rows[i]]
<1>1. /\ Len(new) \in Nat /\ DOMAIN new = 1 .. Len(new)
      /\ required \in 0 .. MaxTokens /\ current_len <= required /\ current_len \in Nat
  BY DEF Types
<1>2. u = [e EXCEPT ![l] = [e[l] EXCEPT !.rows = rows, !.current_len = required]]
  BY DEF Updated, WriteStart
<1> HIDE DEF u
<1>3. /\ c \in Nat /\ required <= c /\ DOMAIN e = Layers
      /\ required <= capacity => e = layers
      /\ \A k \in Layers :
           /\ e[k] \in LayerType /\ e[k].capacity = c /\ Len(e[k].rows) = c
           /\ \A p \in 1 .. current_len : e[k].rows[p] = layers[k].rows[p]
  <2> HIDE DEF required
  <2>. QED BY <1>1, EnsuredKeeps
<1> HIDE DEF e, c
<1>4. e[l].rows \in Seq(Tags) /\ DOMAIN e[l].rows = 1 .. c
  BY <1>3 DEF LayerType
<1>5. rows \in [1 .. c -> Tags]
  <2>1. \A i \in 1 .. c : e[l].rows[i] \in Tags
    BY <1>3, <1>4, ElementOfSeq
  <2>2. \A i \in DOMAIN new : new[i] \in Tags
    BY <1>1
  <2>3. rows = [i \in 1 .. c |-> IF i - current_len \in DOMAIN new THEN new[i - current_len]
                                 ELSE e[l].rows[i]]
    BY <1>4
  <2> HIDE DEF rows
  <2>. QED BY <2>1, <2>2, <2>3
<1>6. \A p \in 1 .. current_len : rows[p] = e[l].rows[p]
  BY <1>1, <1>3, <1>4
<1>7. \A i \in 1 .. Len(new) : rows[current_len + i] = new[i]
  BY <1>1, <1>3, <1>4
<1> HIDE DEF rows
<1>8. rows \in Seq(Tags) /\ Len(rows) = c
  BY <1>3, <1>5, FunctionIsSeq
<1> DEFINE r == [e[l] EXCEPT !.rows = rows, !.current_len = required]
<1>9. r \in LayerType /\ r.rows = rows /\ r.capacity = c
  <2>1. required \in Nat
    BY <1>1
  <2> HIDE DEF required
  <2>. QED BY <1>3, <1>8, <2>1 DEF LayerType
<1>10. u[l] = r /\ \A k \in Layers \ {l} : u[k] = e[k]
  BY <1>2, <1>3
<1>11. DOMAIN u = Layers
  BY <1>2, <1>3
<1>12. u = [k \in Layers |-> u[k]]
  BY <1>2, <1>3
<1> HIDE DEF r, required
<1>13. u \in [Layers -> LayerType]
  BY <1>3, <1>9, <1>10, <1>12
<1>. QED BY SMTT(30), <1>3, <1>6, <1>7, <1>8, <1>9, <1>10, <1>13 DEF u, c, required
-----------------------------------------------------------------------------
(* The constructor establishes the invariant.                              *)
LEMMA CacheInitInv == CacheInit => CacheInv
<1> SUFFICES ASSUME CacheInit PROVE CacheInv
  OBVIOUS
<1>1. layers = [l \in Layers |-> NewLayer(InitialCapacity, 0)] /\ current_len = 0
      /\ capacity = InitialCapacity /\ pass = NoPass /\ passes = 0 /\ fed = << >>
  BY DEF CacheInit
<1>2. \A l \in Layers : /\ layers[l] \in LayerType /\ layers[l].capacity = capacity
                        /\ layers[l].rows \in [1 .. capacity -> Tags]
  BY <1>1, NewLayerType
<1>3. Types
  BY <1>1, <1>2 DEF Types, NoPass
<1>4. ~ Running
  BY <1>1 DEF Running
<1>5. RowsHold
  BY <1>1 DEF RowsHold
<1>6. CapacityAgrees
  BY <1>1, <1>2, <1>4, FunctionIsSeq DEF CapacityAgrees
<1>. QED BY <1>3, <1>4, <1>5, <1>6 DEF CacheInv, PassFits, PassKept

(* Starting a forward pass keeps the invariant.                            *)
LEMMA BeginKeeps ==
  ASSUME CacheInv, NEW n \in PassLens, BeginPass(n)
  PROVE  CacheInv'
<1>1. /\ pass' = [past |-> current_len, len |-> n, next |-> 1]
      /\ current_len' = current_len /\ capacity' = capacity /\ layers' = layers /\ fed' = fed
      /\ passes' = passes + 1 /\ current_len + n <= MaxTokens
  BY DEF BeginPass
<1>2. Types'
  BY <1>1 DEF CacheInv, Types
<1>3. PassFits'
  BY <1>1 DEF CacheInv, Types, PassFits
<1>4. RowsHold'
  BY <1>1 DEF CacheInv, RowsHold
<1>5. PassKept'
  BY <1>1 DEF PassKept
<1>6. CapacityAgrees'
  BY <1>1 DEF CacheInv, CapacityAgrees
<1>. QED BY <1>2, <1>3, <1>4, <1>5, <1>6 DEF CacheInv

(* A pass that ends, or throws, leaves nothing of its own to hold.         *)
LEMMA ThrowKeeps ==
  ASSUME CacheInv, PassThrows
  PROVE  CacheInv'
<1>1. /\ pass' = NoPass /\ ~ Running'
      /\ current_len' = current_len /\ capacity' = capacity /\ layers' = layers /\ fed' = fed
      /\ passes' = passes
  BY DEF PassThrows, Running
<1>2. Types'
  BY <1>1 DEF CacheInv, Types, NoPass
<1>3. RowsHold' /\ CapacityAgrees'
  BY <1>1 DEF CacheInv, RowsHold, CapacityAgrees
<1>. QED BY <1>1, <1>2, <1>3 DEF CacheInv, PassFits, PassKept

(* reset keeps the invariant.                                              *)
LEMMA ResetKeeps ==
  ASSUME CacheInv, Reset
  PROVE  CacheInv'
<1>1. /\ ~ Running /\ pass' = pass /\ current_len' = 0 /\ capacity' = capacity
      /\ fed' = << >> /\ passes' = passes
      /\ layers' = [l \in Layers |-> [layers[l] EXCEPT !.current_len = 0]]
  BY DEF Reset
<1>2. \A l \in Layers : /\ layers'[l] \in LayerType
                        /\ layers'[l].capacity = layers[l].capacity
                        /\ layers'[l].rows = layers[l].rows
  BY <1>1 DEF CacheInv, Types, LayerType
<1>3. ~ Running'
  BY <1>1 DEF Running
<1>4. Types'
  BY <1>1, <1>2 DEF CacheInv, Types
<1>5. RowsHold'
  BY <1>1 DEF RowsHold
<1>6. CapacityAgrees'
  BY <1>1, <1>2, <1>3 DEF CacheInv, CapacityAgrees
<1>. QED BY <1>3, <1>4, <1>5, <1>6 DEF CacheInv, PassFits, PassKept

(* A layer is written: the first makes room for the whole pass, so that    *)
(* the later ones find the rows of the earlier ones where they were.       *)
LEMMA WriteKeeps ==
  ASSUME CacheInv, WriteLayer
  PROVE  CacheInv'
<1> DEFINE new == [k \in 1 .. pass.len |-> Token(k)]
           l == pass.next
           required == current_len + pass.len
<1>1. /\ Running /\ l <= NumLayers
      /\ layers' = Updated(l, new) /\ capacity' = EnsuredCapacity(required)
      /\ pass' = [pass EXCEPT !.next = l + 1]
      /\ current_len' = current_len /\ passes' = passes /\ fed' = fed
  BY DEF WriteLayer, WriteRows
<1>2. /\ Types /\ RowsHold /\ CapacityAgrees /\ PassFits /\ PassKept
      /\ pass \in [past : Nat, len : Nat, next : Nat] /\ current_len \in Nat /\ passes \in Nat
  BY DEF CacheInv, Types
<1>3. /\ pass.past = current_len /\ pass.len \in Nat \ {0} /\ l \in Layers
      /\ required \in 0 .. MaxTokens /\ current_len <= required
      /\ l > 1 => required <= capacity
  BY <1>1, <1>2 DEF PassFits, Layers
<1>4. new \in Seq(Tags) /\ Len(new) = pass.len /\ \A k \in 1 .. pass.len : new[k] = Token(k)
  <2>1. new \in [1 .. pass.len -> Tags]
    BY <1>2, <1>3 DEF Token, Tags
  <2> HIDE DEF new
  <2>2. new \in Seq(Tags) /\ Len(new) = pass.len
    BY <1>3, <2>1, FunctionIsSeq
  <2>. QED BY <2>2 DEF new
<1>5. \A k : Token(k)' = Token(k)
  BY <1>1 DEF Token
<1> HIDE DEF new
<1>6. /\ layers' \in [Layers -> LayerType]
      /\ \A k \in Layers : layers'[k].capacity = capacity' /\ Len(layers'[k].rows) = capacity'
      /\ \A k \in Layers, p \in 1 .. current_len : layers'[k].rows[p] = layers[k].rows[p]
      /\ \A i \in 1 .. pass.len : layers'[l].rows[current_len + i] = Token(i)
      /\ required <= capacity => \A k \in Layers \ {l} : layers'[k] = layers[k]
  <2>1. current_len + Len(new) <= MaxTokens
    BY <1>3, <1>4
  <2> DEFINE u == Updated(l, new)
  <2>2. /\ u \in [Layers -> LayerType]
        /\ \A k \in Layers : u[k].capacity = EnsuredCapacity(current_len + Len(new))
                           /\ Len(u[k].rows) = EnsuredCapacity(current_len + Len(new))
        /\ \A k \in Layers, p \in 1 .. current_len : u[k].rows[p] = layers[k].rows[p]
        /\ \A i \in 1 .. Len(new) : u[l].rows[current_len + i] = new[i]
        /\ current_len + Len(new) <= capacity => \A k \in Layers \ {l} : u[k] = layers[k]
    <3> HIDE DEF l
    <3>. QED BY <1>2, <1>3, <1>4, <2>1, UpdatedWrites
  <2>3. u = layers' /\ current_len + Len(new) = required
    BY <1>1, <1>4
  <2>4. capacity' = EnsuredCapacity(current_len + Len(new))
    BY <1>1, <1>4
  <2> HIDE DEF u
  <2>. QED BY <1>4, <2>2, <2>3, <2>4
<1>7. capacity' \in Nat /\ required <= capacity'
  BY <1>1, <1>2, <1>3, EnsuredKeeps
<1>8. /\ pass'.past = pass.past /\ pass'.len = pass.len /\ pass'.next = l + 1
      /\ pass' \in [past : Nat, len : Nat, next : Nat] /\ Running'
  <2>1. pass'.past = pass.past /\ pass'.len = pass.len /\ pass'.next = l + 1
        /\ pass' \in [past : Nat, len : Nat, next : Nat]
    BY <1>1, <1>2, <1>3 DEF Layers
  <2>2. pass' # NoPass
    BY <1>3, <2>1 DEF NoPass, Layers
  <2>. QED BY <2>1, <2>2 DEF Running
<1>9. Types'
  BY <1>1, <1>2, <1>6, <1>7, <1>8 DEF Types
<1>10. PassFits'
  BY <1>1, <1>2, <1>3, <1>7, <1>8 DEF PassFits, Layers
<1>11. \A k \in Layers : DOMAIN layers'[k].rows = 1 .. capacity'
  BY <1>6 DEF LayerType
<1>12. RowsHold'
  <2>1. Len(fed) = current_len
    BY <1>2 DEF RowsHold
  <2>2. ASSUME NEW k \in Layers, NEW p \in 1 .. current_len
        PROVE  p \in DOMAIN layers'[k].rows /\ layers'[k].rows[p] = fed[p]
    <3>1. layers[k].rows[p] = fed[p]
      BY <1>2 DEF RowsHold
    <3>2. p \in 1 .. capacity'
      BY <1>2, <1>3, <1>7
    <3>. QED BY <1>6, <1>11, <3>1, <3>2
  <2>. QED BY <1>1, <2>1, <2>2 DEF RowsHold
<1>13. PassKept'
  <2>1. ASSUME NEW k \in 1 .. l, NEW i \in 1 .. pass.len
        PROVE  /\ current_len + i \in DOMAIN layers'[k].rows
               /\ layers'[k].rows[current_len + i] = Token(i)
    <3>1. k \in Layers /\ current_len + i \in 1 .. capacity'
      BY <1>2, <1>3, <1>7 DEF Layers
    <3>2. CASE k = l
      BY <1>6, <1>11, <3>1, <3>2
    <3>3. CASE k # l
      <4>1. k \in 1 .. (pass.next - 1) /\ l > 1
        BY <1>3, <3>3 DEF Layers
      <4>2. layers[k].rows[current_len + i] = Token(i)
        BY <1>1, <1>2, <1>3, <4>1 DEF PassKept
      <4>3. layers'[k] = layers[k]
        BY <1>3, <1>6, <3>1, <3>3, <4>1
      <4>. QED BY <1>11, <3>1, <4>2, <4>3
    <3>. QED BY <3>2, <3>3
  <2>2. (l + 1) - 1 = l
    BY <1>3 DEF Layers
  <2>. QED BY <1>1, <1>3, <1>5, <1>8, <2>1, <2>2 DEF PassKept
<1>14. CapacityAgrees'
  BY <1>1, <1>6, <1>7, <1>8 DEF CapacityAgrees
<1>. QED BY <1>9, <1>10, <1>12, <1>13, <1>14 DEF CacheInv

(* The tokens of the pass join those that count.                           *)
LEMMA AdvanceKeeps ==
  ASSUME CacheInv, Advance
  PROVE  CacheInv'
<1> DEFINE new == [k \in 1 .. pass.len |-> Token(k)]
           required == current_len + pass.len
<1>1. /\ Running /\ pass.next > NumLayers /\ required <= capacity
      /\ current_len' = required /\ capacity' = capacity
      /\ layers' = [l \in Layers |-> [layers[l] EXCEPT !.current_len = required]]
      /\ fed' = fed \o new
      /\ pass' = NoPass /\ passes' = passes /\ ~ Running'
  BY DEF Advance, Running
<1>2. /\ pass.past = current_len /\ pass.len \in Nat /\ pass.next = NumLayers + 1
      /\ current_len \in Nat /\ passes \in Nat /\ required \in Nat /\ capacity \in Nat
      /\ Len(fed) = current_len /\ fed \in Seq(Tags)
      /\ layers \in [Layers -> LayerType]
  BY <1>1 DEF CacheInv, Types, PassFits, RowsHold
<1>3. new \in Seq(Tags) /\ Len(new) = pass.len /\ \A k \in 1 .. pass.len : new[k] = Token(k)
  <2>1. new \in [1 .. pass.len -> Tags]
    BY <1>2 DEF Token, Tags
  <2> HIDE DEF new
  <2>2. new \in Seq(Tags) /\ Len(new) = pass.len
    BY <1>2, <2>1, FunctionIsSeq
  <2>. QED BY <2>2 DEF new
<1> HIDE DEF new
<1>4. /\ fed' \in Seq(Tags) /\ Len(fed') = required
      /\ \A p \in 1 .. required :
           fed'[p] = IF p <= current_len THEN fed[p] ELSE Token(p - current_len)
  <2>1. /\ fed \o new \in Seq(Tags) /\ Len(fed \o new) = Len(fed) + Len(new)
        /\ \A p \in 1 .. Len(fed) + Len(new) :
             (fed \o new)[p] = IF p <= Len(fed) THEN fed[p] ELSE new[p - Len(fed)]
    BY <1>2, <1>3, ConcatProperties
  <2>2. \A p \in 1 .. required : ~ p <= current_len => p - current_len \in 1 .. pass.len
    BY <1>2
  <2>. QED BY <1>1, <1>2, <1>3, <2>1, <2>2
<1>5. \A l \in Layers : /\ layers'[l] \in LayerType
                        /\ layers'[l].capacity = layers[l].capacity
                        /\ layers'[l].rows = layers[l].rows
  BY <1>1, <1>2 DEF LayerType
<1>6. Types'
  BY <1>1, <1>2, <1>4, <1>5 DEF Types, NoPass
<1>7. ASSUME NEW l \in Layers, NEW p \in 1 .. required
      PROVE  p \in DOMAIN layers[l].rows /\ layers[l].rows[p] = fed'[p]
  <2>1. CASE p <= current_len
    BY <1>2, <1>4, <2>1 DEF CacheInv, RowsHold
  <2>2. CASE ~ p <= current_len
    <3>1. p - current_len \in 1 .. pass.len /\ pass.past + (p - current_len) = p
      BY <1>2, <2>2
    <3>2. l \in 1 .. (pass.next - 1)
      BY <1>2 DEF Layers
    <3>. QED BY <1>1, <1>4, <2>2, <3>1, <3>2 DEF CacheInv, PassKept
  <2>. QED BY <2>1, <2>2
<1>8. RowsHold'
  BY <1>1, <1>4, <1>5, <1>7 DEF RowsHold
<1>9. CapacityAgrees'
  BY <1>1, <1>5 DEF CacheInv, CapacityAgrees
<1>. QED BY <1>1, <1>6, <1>8, <1>9 DEF CacheInv, PassFits, PassKept

(* Every step keeps the invariant.                                         *)
LEMMA CacheNextKeeps == CacheInv /\ [CacheNext]_cacheVars => CacheInv'
<1> SUFFICES ASSUME CacheInv, [CacheNext]_cacheVars PROVE CacheInv'
  OBVIOUS
<1>1. CASE UNCHANGED cacheVars
  BY <1>1 DEF cacheVars, CacheInv, Types, PassFits, RowsHold, PassKept, CapacityAgrees, Running, Token
<1>2. CASE \E n \in PassLens : BeginPass(n)
  BY <1>2, BeginKeeps
<1>3. CASE WriteLayer
  BY <1>3, WriteKeeps
<1>4. CASE Advance
  BY <1>4, AdvanceKeeps
<1>5. CASE PassThrows
  BY <1>5, ThrowKeeps
<1>6. CASE Reset
  BY <1>6, ResetKeeps
<1>. QED BY <1>1, <1>2, <1>3, <1>4, <1>5, <1>6 DEF CacheNext

-----------------------------------------------------------------------------
(* The three properties are inductive together with the type of the        *)
(* variables and with where a pass stands.                                 *)
THEOREM CacheSpecInv == CacheSpec => []CacheInv
<1>1. CacheInit => CacheInv
  BY CacheInitInv
<1>2. CacheInv /\ [CacheNext]_cacheVars => CacheInv'
  BY CacheNextKeeps
<1>. QED BY <1>1, <1>2, PTL DEF CacheSpec

(* ModelKVCache: every row that counts is the token fed at its position,   *)
(* in every layer, whatever growth, failed pass or reset came between.     *)
THEOREM RowsAlwaysHold == CacheSpec => []RowsHold
<1>1. CacheInv => RowsHold
  BY DEF CacheInv
<1>. QED BY <1>1, CacheSpecInv, PTL

(* Growth while a pass is under way never loses what earlier layers of it  *)
(* wrote, and a failed pass never shifts the next one.                     *)
THEOREM PassAlwaysKept == CacheSpec => []PassKept
<1>1. CacheInv => PassKept
  BY DEF CacheInv
<1>. QED BY <1>1, CacheSpecInv, PTL

(* All layers share one capacity, and it never stops advance.              *)
THEOREM CapacityAlwaysAgrees == CacheSpec => []CapacityAgrees
<1>1. CacheInv => CapacityAgrees
  BY DEF CacheInv
<1>. QED BY <1>1, CacheSpecInv, PTL

-----------------------------------------------------------------------------
(* Sequences assembled from parts of one length.                           *)

(* A number taken apart by quotient and remainder.                         *)
LEMMA TakenApart ==
  ASSUME NEW k \in Nat \ {0}, NEW q \in Nat, NEW r \in 0 .. (k - 1)
  PROVE  /\ q * k + r \in Nat
         /\ (q * k + r) \div k = q /\ (q * k + r) % k = r
<1> DEFINE o == q * k + r
           c == o \div k
<1>1. q * k \in Nat /\ o \in Nat
  OBVIOUS
<1>2. c \in Nat /\ o % k \in 0 .. (k - 1) /\ o = k * c + (o % k)
  <2> HIDE DEF o
  <2>. QED BY <1>1, SMTT(60)
<1> HIDE DEF c
<1>3. k * c + (o % k) = k * q + r
  BY <1>2
<1> HIDE DEF o
<1>4. c = q
  <2>1. CASE c < q
    <3>1. k * c + k <= k * q
      <4>1. q = c + 1 + (q - c - 1) /\ q - c - 1 \in Nat
        BY <1>2, <2>1
      <4>2. k * (q - c - 1) \in Nat
        BY <4>1
      <4>3. k * q = k * c + k + k * (q - c - 1)
        BY <1>2, <4>1
      <4>. QED BY <1>2, <4>2, <4>3
    <3>. QED BY <1>2, <1>3, <3>1
  <2>2. CASE q < c
    <3>1. k * q + k <= k * c
      <4>1. c = q + 1 + (c - q - 1) /\ c - q - 1 \in Nat
        BY <1>2, <2>2
      <4>2. k * (c - q - 1) \in Nat
        BY <4>1
      <4>3. k * c = k * q + k + k * (c - q - 1)
        BY <1>2, <4>1
      <4>. QED BY <1>2, <4>2, <4>3
    <3>. QED BY <1>2, <1>3, <3>1
  <2>. QED BY <1>2, <2>1, <2>2
<1>. QED BY <1>1, <1>2, <1>3, <1>4 DEF c, o

(* The p-th element of n parts of k elements each.                         *)
Laid(s, n, k) == [p \in 1 .. n * k |-> s[(p - 1) \div k + 1][((p - 1) % k) + 1]]

(* Element i of part l lies at (l - 1) * k + i, in parts of k elements.    *)
LiesInPlace(s, k) ==
  \A n \in Nat : \A l \in 1 .. n : \A i \in 1 .. k :
    /\ (l - 1) * k + i \in 1 .. n * k
    /\ Laid(s, n, k)[(l - 1) * k + i] = s[l][i]

(* Where an element of a part comes to lie.                                *)
LEMMA LaidAt == ASSUME NEW k \in Nat \ {0}, NEW s PROVE LiesInPlace(s, k)
<1> USE DEF LiesInPlace
<1> TAKE n \in Nat
<1> TAKE l \in 1 .. n
<1> TAKE i \in 1 .. k
<1>1. l - 1 \in Nat /\ i - 1 \in 0 .. (k - 1)
  OBVIOUS
<1>2. ((l - 1) * k + (i - 1)) \div k = l - 1 /\ ((l - 1) * k + (i - 1)) % k = i - 1
  BY <1>1, TakenApart
<1>3. (l - 1) * k + i \in 1 .. n * k
  <2>1. (l - 1) * k \in Nat /\ (n - l) * k \in Nat
    OBVIOUS
  <2>2. n * k = (l - 1) * k + k + (n - l) * k
    OBVIOUS
  <2>. QED BY <2>1, <2>2
<1>4. ((l - 1) * k + i) - 1 = (l - 1) * k + (i - 1)
  OBVIOUS
<1>5. l - 1 + 1 = l /\ i - 1 + 1 = i
  OBVIOUS
<1>. QED BY <1>2, <1>3, <1>4, <1>5, Zenon DEF Laid

(* A position comes from one part.                                         *)
LEMMA LaidFrom ==
  ASSUME NEW k \in Nat \ {0}, NEW n \in Nat, NEW p \in 1 .. n * k
  PROVE  LET l == (p - 1) \div k + 1
             i == ((p - 1) % k) + 1
         IN  l \in 1 .. n /\ i \in 1 .. k /\ p = (l - 1) * k + i
<1> DEFINE c == (p - 1) \div k
           m == (p - 1) % k
<1>1. p - 1 \in Nat /\ n * k \in Nat /\ p <= n * k
  OBVIOUS
<1>2. c \in Nat /\ m \in 0 .. (k - 1) /\ p - 1 = k * c + m
  <2> DEFINE o == p - 1
  <2>1. o \in Nat
    BY <1>1
  <2> HIDE DEF o
  <2>2. o \div k \in Nat /\ o % k \in 0 .. (k - 1) /\ o = k * (o \div k) + (o % k)
    BY <2>1, SMTT(60)
  <2>. QED BY <2>2 DEF o
<1> HIDE DEF c, m
<1>3. c < n
  <2>1. SUFFICES ASSUME n <= c PROVE FALSE
    BY <1>2
  <2>2. k * (c - n) \in Nat
    BY <1>2, <2>1
  <2>3. k * c = k * n + k * (c - n)
    BY <1>2
  <2>. QED BY <1>1, <1>2, <2>2, <2>3
<1>4. c + 1 \in 1 .. n /\ m + 1 \in 1 .. k /\ p = (c + 1 - 1) * k + (m + 1)
  BY <1>1, <1>2, <1>3
<1>. QED BY <1>4 DEF c, m

(* FlattenSeq lays the parts one after the other.  Any function that       *)
(* satisfies its recursion does so, or there were a least index where not. *)
LEMMA FlattenLaid ==
  ASSUME NEW k \in Nat \ {0}, NEW n \in Nat \ {0}, NEW A, NEW s \in [1 .. n -> [1 .. k -> A]]
  PROVE  FlattenSeq(s) = Laid(s, n, k)
<1>0. LiesInPlace(s, k)
  BY LaidAt, Zenon
<1> DEFINE Step(f, i) == IF i = 1 THEN s[i] ELSE f[i - 1] \o s[i]
           G == [i \in 1 .. n |-> Laid(s, i, k)]
           flat == CHOOSE f : f = [i \in 1 .. n |-> Step(f, i)]
<1>1. Len(s) = n
  OBVIOUS
<1>2. FlattenSeq(s) = flat[n]
  BY <1>1 DEF FlattenSeq
<1>3. ASSUME NEW i \in 1 .. n
      PROVE  /\ Laid(s, i, k) \in Seq(A) /\ Len(Laid(s, i, k)) = i * k
             /\ DOMAIN Laid(s, i, k) = 1 .. i * k
  <2>1. i \in Nat /\ i * k \in Nat
    OBVIOUS
  <2>2. \A p \in 1 .. i * k : s[(p - 1) \div k + 1][((p - 1) % k) + 1] \in A
    <3>1. SUFFICES ASSUME NEW p \in 1 .. i * k
                   PROVE  s[(p - 1) \div k + 1][((p - 1) % k) + 1] \in A
      OBVIOUS
    <3>2. (p - 1) \div k + 1 \in 1 .. i /\ ((p - 1) % k) + 1 \in 1 .. k
      BY <2>1, LaidFrom
    <3>. QED BY <3>2
  <2>. QED BY <2>1, <2>2 DEF Laid
<1>4. ASSUME NEW i \in 1 .. n PROVE G[i] = Step(G, i)
  <2>1. \A j \in 1 .. k : Laid(s, i, k)[(i - 1) * k + j] = s[i][j]
    <3>1. i \in Nat /\ i \in 1 .. i
      OBVIOUS
    <3>2. SUFFICES ASSUME NEW j \in 1 .. k PROVE Laid(s, i, k)[(i - 1) * k + j] = s[i][j]
      OBVIOUS
    <3>4. \A x \in 1 .. k :
           /\ (i - 1) * k + x \in 1 .. i * k
           /\ Laid(s, i, k)[(i - 1) * k + x] = s[i][x]
      BY <1>0, <3>1, Zenon DEF LiesInPlace
    <3>. QED BY <3>4, Zenon
  <2>2. Len(s[i]) = k /\ s[i] \in Seq(A) /\ DOMAIN s[i] = 1 .. k
    OBVIOUS
  <2>3. CASE i = 1
    <3>1. \A j \in 1 .. k : Laid(s, 1, k)[j] = s[1][j]
      BY <2>1, <2>3
    <3>2. DOMAIN Laid(s, 1, k) = 1 .. k
      BY <1>3, <2>3
    <3>3. Laid(s, 1, k) = s[1]
      BY <2>2, <2>3, <3>1, <3>2 DEF Laid
    <3>. QED BY <2>3, <3>3
  <2>4. CASE i # 1
    <3> DEFINE a == Laid(s, i - 1, k)
               b == Laid(s, i, k)
    <3>1. i - 1 \in 1 .. n
      BY <2>4
    <3>2. a \in Seq(A) /\ Len(a) = (i - 1) * k /\ b \in Seq(A) /\ Len(b) = i * k
      BY <1>3, <3>1
    <3>3. (i - 1) * k \in Nat /\ i * k = (i - 1) * k + k
      BY <3>1
    <3>4. \A p \in 1 .. (i - 1) * k : a[p] = b[p]
      BY <3>3 DEF Laid
    <3>5. \A p \in 1 .. i * k : p > (i - 1) * k => b[p] = s[i][p - (i - 1) * k]
      <4>1. SUFFICES ASSUME NEW p \in 1 .. i * k, p > (i - 1) * k
                     PROVE  b[p] = s[i][p - (i - 1) * k]
        OBVIOUS
      <4> DEFINE j == p - (i - 1) * k
      <4>2. j \in 1 .. k /\ p = (i - 1) * k + j
        BY <3>3, <4>1
      <4> HIDE DEF j
      <4>3. b[p] = s[i][j]
        BY <2>1, <4>2
      <4>. QED BY <4>3 DEF j
    <3> HIDE DEF a, b
    <3>6. b = a \o s[i]
      <4> DEFINE c == a \o s[i]
      <4>1. /\ c \in Seq(A) /\ Len(c) = i * k
            /\ \A p \in 1 .. i * k : c[p] = IF p <= (i - 1) * k THEN a[p] ELSE s[i][p - (i - 1) * k]
        <5>1. /\ c \in Seq(A) /\ Len(c) = Len(a) + Len(s[i])
              /\ \A p \in 1 .. Len(a) + Len(s[i]) :
                   c[p] = IF p <= Len(a) THEN a[p] ELSE s[i][p - Len(a)]
          BY <2>2, <3>2, ConcatProperties, ZenonT(60)
        <5> HIDE DEF c
        <5>2. Len(a) = (i - 1) * k /\ Len(a) + Len(s[i]) = i * k
          BY <2>2, <3>2, <3>3
        <5>. QED BY <5>1, <5>2, Zenon
      <4> HIDE DEF c
      <4>2. \A p \in 1 .. i * k : c[p] = b[p]
        <5>1. SUFFICES ASSUME NEW p \in 1 .. i * k PROVE c[p] = b[p]
          OBVIOUS
        <5>2. c[p] = IF p <= (i - 1) * k THEN a[p] ELSE s[i][p - (i - 1) * k]
          BY <4>1
        <5>. QED BY <3>3, <3>4, <3>5, <5>2
      <4>3. c = b
        BY <3>2, <4>1, <4>2, SeqEqual
      <4>. QED BY <4>3 DEF c
    <3>. QED BY <2>4, <3>1, <3>6 DEF a, b
  <2>. QED BY <2>3, <2>4
<1>5. G = [i \in 1 .. n |-> Step(G, i)]
  BY <1>4
<1>6. flat = [i \in 1 .. n |-> Step(flat, i)]
  <2> HIDE DEF G, Step
  <2>. QED BY <1>5
<1> HIDE DEF flat
<1>7. \A i \in 1 .. n : flat[i] = G[i]
  <2> DEFINE bad == {i \in 1 .. n : flat[i] # G[i]}
             m == Min(bad)
  <2>1. SUFFICES ASSUME bad # {} PROVE FALSE
    OBVIOUS
  <2>2. m \in bad /\ \A j \in bad : m <= j
    <3>1. bad \in SUBSET Nat
      OBVIOUS
    <3> HIDE DEF bad
    <3>. QED BY <2>1, <3>1, LeastExists
  <2> HIDE DEF m
  <2>3. \/ m = 1
        \/ m - 1 \in 1 .. n /\ m - 1 \notin bad
    <3>1. m \in 1 .. n
      BY <2>2
    <3>2. m - 1 \in bad => m <= m - 1
      BY <2>2
    <3>. QED BY <3>1, <3>2
  <2> HIDE DEF G
  <2>4. m \in 1 .. n /\ flat[m] = Step(flat, m) /\ G[m] = Step(G, m) /\ flat[m] # G[m]
    BY <1>4, <1>6, <2>2
  <2>. QED BY <2>3, <2>4
<1>. QED BY <1>2, <1>7

-----------------------------------------------------------------------------
(* The weights and the steps of a load, one after the other.               *)

Parts == {"input_layernorm", "q_proj", "k_proj", "v_proj", "o_proj", "q_norm", "k_norm",
          "post_attention_layernorm", "gate_proj", "up_proj", "down_proj"}
AttentionSet == {"q_proj", "k_proj", "v_proj", "o_proj", "q_norm", "k_norm"}
MlpSet == {"gate_proj", "up_proj", "down_proj"}

(* The parts of a layer, in order.                                         *)
LEMMA LayerPartsAre ==
  /\ LayerParts[1] = "input_layernorm" /\ LayerParts[2] = "q_proj" /\ LayerParts[3] = "k_proj"
  /\ LayerParts[4] = "v_proj" /\ LayerParts[5] = "o_proj" /\ LayerParts[6] = "q_norm"
  /\ LayerParts[7] = "k_norm" /\ LayerParts[8] = "post_attention_layernorm"
  /\ LayerParts[9] = "gate_proj" /\ LayerParts[10] = "up_proj" /\ LayerParts[11] = "down_proj"
  BY DEF LayerParts, AttentionParts, MlpParts

(* They are eleven, each once.                                             *)
LEMMA ElevenParts ==
  /\ LayerParts \in [1 .. 11 -> Parts]
  /\ \A i, j \in 1 .. 11 : LayerParts[i] = LayerParts[j] => i = j
  /\ \A part \in Parts : \E i \in 1 .. 11 : LayerParts[i] = part
<1>1. LayerParts \in Seq(Parts)
  BY DEF LayerParts, AttentionParts, MlpParts, Parts
<1>2. Len(LayerParts) = 11
  BY DEF LayerParts, AttentionParts, MlpParts
<1>. QED BY <1>1, <1>2, LayerPartsAre DEF Parts

(* Thirteen steps as a layer puts them together.                           *)
LEMMA Thirteen ==
  ASSUME NEW t
  PROVE  <<t[1]>> \o (<<t[2], t[3], t[4], t[5], t[6], t[7]>> \o <<t[8]>>)
           \o <<t[9]>> \o (<<t[10], t[11], t[12]>> \o <<t[13]>>) = [i \in 1 .. 13 |-> t[i]]
<1> DEFINE A == {t[i] : i \in 1 .. 13}
           a == <<t[1]>>
           b == <<t[2], t[3], t[4], t[5], t[6], t[7]>>
           c == <<t[8]>>
           d == <<t[9]>>
           e == <<t[10], t[11], t[12]>>
           f == <<t[13]>>
           P == a \o (b \o c) \o d \o (e \o f)
           Q == [i \in 1 .. 13 |-> t[i]]
<1>1. P \in Seq(A) /\ Q \in Seq(A)
  <2>1. /\ a \in Seq(A) /\ b \in Seq(A) /\ c \in Seq(A)
        /\ d \in Seq(A) /\ e \in Seq(A) /\ f \in Seq(A) /\ Q \in Seq(A)
    <3>1. \A i \in 1 .. 13 : t[i] \in A
      OBVIOUS
    <3> HIDE DEF A
    <3>. QED BY <3>1
  <2> HIDE DEF a, b, c, d, e, f, A
  <2>2. \A s, u \in Seq(A) : s \o u \in Seq(A)
    OBVIOUS
  <2>. QED BY <2>1, <2>2
<1>2. Len(P) = 13 /\ Len(Q) = 13
  OBVIOUS
<1>3. /\ P[1] = t[1] /\ P[2] = t[2] /\ P[3] = t[3] /\ P[4] = t[4] /\ P[5] = t[5]
      /\ P[6] = t[6] /\ P[7] = t[7] /\ P[8] = t[8] /\ P[9] = t[9] /\ P[10] = t[10]
      /\ P[11] = t[11] /\ P[12] = t[12] /\ P[13] = t[13]
  OBVIOUS
<1> HIDE DEF P, A
<1>4. \A i \in 1 .. 13 : P[i] = Q[i]
  BY <1>3
<1> HIDE DEF Q
<1>5. P = Q
  BY <1>1, <1>2, <1>4, SeqEqual
<1>. QED BY <1>5 DEF P, Q

(* A layer takes its parts in order and checks twice.                      *)
StepOf(l, i) ==
  CASE i = 8  -> [op |-> "check", names |-> {<<l, part>> : part \in AttentionSet}]
    [] i = 13 -> [op |-> "check", names |-> {<<l, part>> : part \in MlpSet}]
    [] OTHER  -> TakeOf(<<l, LayerParts[IF i < 8 THEN i ELSE i - 1]>>)

LayerSteps(l) == [i \in 1 .. 13 |-> StepOf(l, i)]

(* So the plan of a layer is made up.                                      *)
LEMMA LayerPlanIs ==
  ASSUME NEW l
  PROVE  LayerPlan(l) = LayerSteps(l)
<1> DEFINE T(part) == TakeOf(<<l, part>>)
           t == LayerSteps(l)
<1>1. Range(AttentionParts) = AttentionSet /\ Range(MlpParts) = MlpSet
  BY DEF Range, AttentionParts, AttentionSet, MlpParts, MlpSet
<1>2. CheckOf(l, Range(AttentionParts)) = <<t[8]>> /\ CheckOf(l, Range(MlpParts)) = <<t[13]>>
  BY <1>1 DEF CheckOf, LayerSteps, StepOf
<1>3. \A i \in 1 .. 13 : i # 8 /\ i # 13 => t[i] = T(LayerParts[IF i < 8 THEN i ELSE i - 1])
  BY DEF StepOf, LayerSteps
<1>4. /\ Takes(l, <<"input_layernorm">>) = <<T("input_layernorm")>>
      /\ Takes(l, <<"post_attention_layernorm">>) = <<T("post_attention_layernorm")>>
      /\ Takes(l, AttentionParts) = << T("q_proj"), T("k_proj"), T("v_proj"), T("o_proj"),
                                       T("q_norm"), T("k_norm") >>
      /\ Takes(l, MlpParts) = << T("gate_proj"), T("up_proj"), T("down_proj") >>
  BY SMTT(30) DEF Takes, AttentionParts, MlpParts
<1> HIDE DEF t, T
<1>5. /\ t[1] = T("input_layernorm") /\ t[2] = T("q_proj") /\ t[3] = T("k_proj")
      /\ t[4] = T("v_proj") /\ t[5] = T("o_proj") /\ t[6] = T("q_norm") /\ t[7] = T("k_norm")
      /\ t[9] = T("post_attention_layernorm") /\ t[10] = T("gate_proj") /\ t[11] = T("up_proj")
      /\ t[12] = T("down_proj")
  BY <1>3, LayerPartsAre
<1>6. LayerPlan(l) = <<t[1]>> \o (<<t[2], t[3], t[4], t[5], t[6], t[7]>> \o <<t[8]>>)
           \o <<t[9]>> \o (<<t[10], t[11], t[12]>> \o <<t[13]>>)
  BY <1>2, <1>4, <1>5 DEF LayerPlan, AttentionPlan, MlpPlan
<1>7. LayerPlan(l) = [i \in 1 .. 13 |-> t[i]]
  BY <1>6, Thirteen
<1>. QED BY <1>7 DEF t, LayerSteps

(* One more element.                                                       *)
LEMMA OneMore ==
  ASSUME NEW A, NEW a \in Seq(A), NEW x \in A
  PROVE  /\ a \o <<x>> \in Seq(A) /\ Len(a \o <<x>>) = Len(a) + 1
         /\ \A i \in 1 .. Len(a) : (a \o <<x>>)[i] = a[i]
         /\ (a \o <<x>>)[Len(a) + 1] = x
<1> DEFINE b == <<x>>
           c == a \o b
<1>1. b \in Seq(A) /\ Len(b) = 1 /\ b[1] = x
  OBVIOUS
<1> HIDE DEF b
<1>2. /\ c \in Seq(A) /\ Len(c) = Len(a) + Len(b)
      /\ \A i \in 1 .. Len(a) + Len(b) : c[i] = IF i <= Len(a) THEN a[i] ELSE b[i - Len(a)]
  BY <1>1, ConcatProperties, Zenon
<1>3. Len(a) \in Nat
  OBVIOUS
<1> HIDE DEF c
<1>4. c[Len(a) + 1] = b[1] /\ \A i \in 1 .. Len(a) : c[i] = a[i]
  BY <1>1, <1>2, <1>3
<1>. QED BY <1>1, <1>2, <1>4 DEF b, c

(* One before the others.                                                  *)
LEMMA OneBefore ==
  ASSUME NEW A, NEW a \in Seq(A), NEW x \in A
  PROVE  /\ <<x>> \o a \in Seq(A) /\ Len(<<x>> \o a) = 1 + Len(a)
         /\ (<<x>> \o a)[1] = x
         /\ \A i \in 1 .. Len(a) : (<<x>> \o a)[1 + i] = a[i]
<1> DEFINE b == <<x>>
           c == b \o a
<1>1. b \in Seq(A) /\ Len(b) = 1 /\ b[1] = x
  OBVIOUS
<1> HIDE DEF b
<1>2. /\ c \in Seq(A) /\ Len(c) = Len(b) + Len(a)
      /\ \A i \in 1 .. Len(b) + Len(a) : c[i] = IF i <= Len(b) THEN b[i] ELSE a[i - Len(b)]
  BY <1>1, ConcatProperties, Zenon
<1>3. Len(a) \in Nat
  OBVIOUS
<1> HIDE DEF c
<1>4. c[1] = b[1] /\ \A i \in 1 .. Len(a) : c[1 + i] = a[i]
  BY <1>1, <1>2, <1>3
<1>. QED BY <1>1, <1>2, <1>4 DEF b, c

NameSet ==
  {<<0, "embed_tokens">>, <<0, "norm">>, <<0, "lm_head">>}
    \cup {<<l, part>> : l \in 1 .. NumHiddenLayers, part \in Parts}
Steps == [op : {"take", "check"}, names : SUBSET NameSet]

HeadCheck == [op |-> "check", names |-> {<<0, "embed_tokens">>, <<0, "norm">>}]
LmHeadCheck == [op |-> "check", names |-> {<<0, "lm_head">>}]

(* Every step of a layer is one.                                           *)
LEMMA StepsOfLayer ==
  ASSUME NEW l \in 1 .. NumHiddenLayers
  PROVE  LayerSteps(l) \in [1 .. 13 -> Steps]
<1>1. SUFFICES ASSUME NEW i \in 1 .. 13 PROVE StepOf(l, i) \in Steps
  BY DEF LayerSteps
<1>2. CASE i = 8
  <2>1. {<<l, part>> : part \in AttentionSet} \subseteq NameSet
    BY DEF AttentionSet, NameSet, Parts
  <2>. QED BY <1>2, <2>1 DEF StepOf, Steps
<1>3. CASE i = 13
  <2>1. {<<l, part>> : part \in MlpSet} \subseteq NameSet
    BY DEF MlpSet, NameSet, Parts
  <2>. QED BY <1>3, <2>1 DEF StepOf, Steps
<1>4. CASE i # 8 /\ i # 13
  <2> DEFINE part == LayerParts[IF i < 8 THEN i ELSE i - 1]
  <2>1. part \in Parts
    BY <1>4, ElevenParts
  <2>2. StepOf(l, i) = TakeOf(<<l, part>>)
    BY <1>4 DEF StepOf
  <2> HIDE DEF part
  <2>3. <<l, part>> \in NameSet
    BY <2>1 DEF NameSet
  <2>. QED BY <2>2, <2>3 DEF TakeOf, Steps
<1>. QED BY <1>2, <1>3, <1>4

(* The plan, step by step.                                                 *)
LEMMA PlanIs ==
  LET n == NumHiddenLayers
  IN  /\ Plan \in Seq(Steps) /\ Len(Plan) = 13 * n + 5
      /\ Plan[1] = TakeOf(<<0, "embed_tokens">>)
      /\ \A l \in 1 .. n, i \in 1 .. 13 : Plan[1 + ((l - 1) * 13 + i)] = StepOf(l, i)
      /\ Plan[13 * n + 2] = TakeOf(<<0, "norm">>) /\ Plan[13 * n + 3] = HeadCheck
      /\ Plan[13 * n + 4] = TakeOf(<<0, "lm_head">>) /\ Plan[13 * n + 5] = LmHeadCheck
<1> DEFINE n == NumHiddenLayers
           layer == [l \in 1 .. n |-> LayerPlan(l)]
           f == FlattenSeq(layer)
           x1 == TakeOf(<<0, "embed_tokens">>)
           x2 == TakeOf(<<0, "norm">>)
           x3 == HeadCheck
           x4 == TakeOf(<<0, "lm_head">>)
           x5 == LmHeadCheck
<1>1. n \in Nat \ {0}
  BY WeightLoadingAssumption
<1>2. layer \in [1 .. n -> [1 .. 13 -> Steps]] /\ \A l \in 1 .. n : layer[l] = LayerSteps(l)
  BY LayerPlanIs, StepsOfLayer
<1>3. x1 \in Steps /\ x2 \in Steps /\ x3 \in Steps /\ x4 \in Steps /\ x5 \in Steps
  BY DEF TakeOf, Steps, NameSet, HeadCheck, LmHeadCheck
<1>4. Plan = <<x1>> \o f \o <<x2>> \o <<x3>> \o <<x4>> \o <<x5>>
  <2>1. /\ Takes(0, <<"embed_tokens">>) = <<x1>> /\ Takes(0, <<"norm">>) = <<x2>>
        /\ Takes(0, <<"lm_head">>) = <<x4>>
    BY DEF Takes
  <2>2. CheckOf(0, {"embed_tokens", "norm"}) = <<x3>> /\ CheckOf(0, {"lm_head"}) = <<x5>>
    BY DEF CheckOf, HeadCheck, LmHeadCheck
  <2>. QED BY <2>1, <2>2 DEF Plan, ModelPlan
<1>5. f = Laid(layer, n, 13)
  <2> DEFINE k == 13
  <2>1. k \in Nat \ {0} /\ n \in Nat \ {0} /\ layer \in [1 .. n -> [1 .. k -> Steps]]
    <3> HIDE DEF layer, n
    <3>. QED BY <1>1, <1>2
  <2> HIDE DEF layer, n, k
  <2>2. FlattenSeq(layer) = Laid(layer, n, k)
    BY <2>1, FlattenLaid, Zenon
  <2>. QED BY <2>2 DEF k
<1>6. f \in Seq(Steps) /\ Len(f) = n * 13 /\ \A l \in 1 .. n, i \in 1 .. 13 :
        /\ (l - 1) * 13 + i \in 1 .. n * 13 /\ f[(l - 1) * 13 + i] = StepOf(l, i)
  <2> HIDE DEF layer, f, n
  <2>1. \A l \in 1 .. n : \A i \in 1 .. 13 :
          /\ (l - 1) * 13 + i \in 1 .. n * 13 /\ f[(l - 1) * 13 + i] = layer[l][i]
    BY <1>1, <1>5, LaidAt DEF LiesInPlace
  <2>2. \A l \in 1 .. n : \A i \in 1 .. 13 : layer[l][i] = StepOf(l, i)
    BY <1>2 DEF LayerSteps
  <2>3. \A p \in 1 .. n * 13 : f[p] \in Steps
    <3>1. SUFFICES ASSUME NEW p \in 1 .. n * 13 PROVE f[p] \in Steps
      OBVIOUS
    <3>2. (p - 1) \div 13 + 1 \in 1 .. n /\ ((p - 1) % 13) + 1 \in 1 .. 13
      BY <1>1, LaidFrom
    <3>3. f[p] = layer[(p - 1) \div 13 + 1][((p - 1) % 13) + 1]
      BY <1>5 DEF Laid
    <3>. QED BY <1>2, <3>2, <3>3
  <2>4. f \in Seq(Steps) /\ Len(f) = n * 13
    <3> DEFINE N == n * 13
    <3>1. N \in Nat
      BY <1>1
    <3>2. f = [p \in 1 .. N |-> f[p]]
      BY <1>5 DEF Laid
    <3>3. \A p \in 1 .. N : f[p] \in Steps
      BY <2>3
    <3> HIDE DEF N
    <3>4. f \in [1 .. N -> Steps]
      BY <3>2, <3>3
    <3>5. f \in Seq(Steps) /\ Len(f) = N
      BY <3>1, <3>4, FunctionIsSeq
    <3>. QED BY <3>5 DEF N
  <2>. QED BY <2>1, <2>2, <2>4
<1> DEFINE p1 == <<x1>> \o f
           p2 == p1 \o <<x2>>
           p3 == p2 \o <<x3>>
           p4 == p3 \o <<x4>>
           p5 == p4 \o <<x5>>
<1> HIDE DEF f, layer, x1, x2, x3, x4, x5, n
<1>7. p1 \in Seq(Steps) /\ Len(p1) = 1 + Len(f) /\ p1[1] = x1 /\ \A i \in 1 .. Len(f) : p1[1 + i] = f[i]
  BY <1>3, <1>6, OneBefore
<1> HIDE DEF p1
<1>8. p2 \in Seq(Steps) /\ Len(p2) = Len(p1) + 1 /\ (\A i \in 1 .. Len(p1) : p2[i] = p1[i]) /\ p2[Len(p1) + 1] = x2
  BY <1>3, <1>7, OneMore
<1> HIDE DEF p2
<1>9. p3 \in Seq(Steps) /\ Len(p3) = Len(p2) + 1 /\ (\A i \in 1 .. Len(p2) : p3[i] = p2[i]) /\ p3[Len(p2) + 1] = x3
  BY <1>3, <1>8, OneMore
<1> HIDE DEF p3
<1>10. p4 \in Seq(Steps) /\ Len(p4) = Len(p3) + 1 /\ (\A i \in 1 .. Len(p3) : p4[i] = p3[i]) /\ p4[Len(p3) + 1] = x4
  BY <1>3, <1>9, OneMore
<1> HIDE DEF p4
<1>11. p5 \in Seq(Steps) /\ Len(p5) = Len(p4) + 1 /\ (\A i \in 1 .. Len(p4) : p5[i] = p4[i]) /\ p5[Len(p4) + 1] = x5
  BY <1>3, <1>10, OneMore
<1> HIDE DEF p5
<1>12. Plan = p5
  BY <1>4 DEF p5, p4, p3, p2, p1
<1>13. /\ Len(p1) = 13 * n + 1 /\ Len(p2) = 13 * n + 2 /\ Len(p3) = 13 * n + 3
       /\ Len(p4) = 13 * n + 4 /\ Len(p5) = 13 * n + 5
  BY <1>1, <1>6, <1>7, <1>8, <1>9, <1>10, <1>11
<1>14. \A i \in 1 .. 13 * n + 1 : p5[i] = p1[i]
  BY <1>1, <1>8, <1>9, <1>10, <1>11, <1>13
<1>15. p5[13 * n + 2] = x2 /\ p5[13 * n + 3] = x3 /\ p5[13 * n + 4] = x4 /\ p5[13 * n + 5] = x5
  BY <1>1, <1>8, <1>9, <1>10, <1>11, <1>13
<1>16. \A l \in 1 .. n, i \in 1 .. 13 : p5[1 + ((l - 1) * 13 + i)] = StepOf(l, i)
  <2>1. SUFFICES ASSUME NEW l \in 1 .. n, NEW i \in 1 .. 13
                 PROVE  p5[1 + ((l - 1) * 13 + i)] = StepOf(l, i)
    OBVIOUS
  <2> DEFINE q == (l - 1) * 13 + i
  <2>2. q \in 1 .. Len(f) /\ f[q] = StepOf(l, i) /\ Len(f) = 13 * n
    <3>1. q \in 1 .. n * 13 /\ f[q] = StepOf(l, i) /\ Len(f) = n * 13
      BY <1>6
    <3> HIDE DEF q
    <3>. QED BY <1>1, <3>1
  <2> HIDE DEF q
  <2>3. p1[1 + q] = f[q] /\ 1 + q \in 1 .. 13 * n + 1
    <3>1. p1[1 + q] = f[q]
      BY <1>7, <2>2
    <3>2. 1 + q \in 1 .. 13 * n + 1
      BY <1>1, <2>2
    <3>. QED BY <3>1, <3>2
  <2>. QED BY <1>14, <2>2, <2>3 DEF q
<1>17. p5[1] = x1
  BY <1>1, <1>7, <1>14
<1>. QED BY <1>11, <1>12, <1>13, <1>15, <1>16, <1>17 DEF n, x1, x2, x3, x4, x5

(* Where the steps of a plan come from.                                    *)
LEMMA PlanAt ==
  ASSUME NEW p \in 1 .. Len(Plan)
  PROVE  LET n == NumHiddenLayers
         IN  \/ p = 1
             \/ \E l \in 1 .. n, i \in 1 .. 13 : p = 1 + ((l - 1) * 13 + i)
             \/ p = 13 * n + 2 \/ p = 13 * n + 3 \/ p = 13 * n + 4 \/ p = 13 * n + 5
<1> DEFINE n == NumHiddenLayers
<1>1. n \in Nat \ {0}
  BY WeightLoadingAssumption
<1>2. Len(Plan) = 13 * n + 5
  BY PlanIs
<1>3. CASE p - 1 \in 1 .. n * 13
  <2> DEFINE q == p - 1
             l == (q - 1) \div 13 + 1
             i == ((q - 1) % 13) + 1
  <2>1. l \in 1 .. n /\ i \in 1 .. 13 /\ q = (l - 1) * 13 + i
    <3>1. 13 \in Nat \ {0} /\ n \in Nat
      BY <1>1
    <3> HIDE DEF n
    <3>. QED BY <1>3, <3>1, LaidFrom
  <2> HIDE DEF l, i
  <2>2. p = 1 + ((l - 1) * 13 + i)
    BY <2>1
  <2>. QED BY <2>1, <2>2
<1>4. CASE p - 1 \notin 1 .. n * 13
  <2> HIDE DEF n
  <2>1. p \in Int /\ 1 <= p /\ p <= 13 * n + 5
    BY <1>1, <1>2
  <2>2. p - 1 < 1 \/ p - 1 > 13 * n
    BY <1>1, <1>4, <2>1
  <2>3. \/ p = 1 \/ p = 13 * n + 2 \/ p = 13 * n + 3 \/ p = 13 * n + 4 \/ p = 13 * n + 5
    BY <1>1, <2>1, <2>2
  <2>. QED BY <2>3 DEF n
<1>. QED BY <1>3, <1>4

(* No two steps of a load take the same weight.                            *)
LEMMA TakesDiffer ==
  ASSUME NEW p \in 1 .. Len(Plan), NEW q \in 1 .. Len(Plan),
         Plan[p].op = "take", Plan[q].op = "take", Plan[p].names = Plan[q].names
  PROVE  p = q
<1> DEFINE n == NumHiddenLayers
           In(x, l, i) == l \in 1 .. n /\ i \in 1 .. 13 /\ x = 1 + ((l - 1) * 13 + i)
<1>1. n \in Nat \ {0}
  BY WeightLoadingAssumption
<1>2. ASSUME NEW x \in 1 .. Len(Plan), Plan[x].op = "take"
      PROVE  \/ x = 1 /\ Plan[x].names = {<<0, "embed_tokens">>}
             \/ x = 13 * n + 2 /\ Plan[x].names = {<<0, "norm">>}
             \/ x = 13 * n + 4 /\ Plan[x].names = {<<0, "lm_head">>}
             \/ \E l, i : /\ In(x, l, i) /\ i \notin {8, 13}
                          /\ Plan[x].names = {<<l, LayerParts[IF i < 8 THEN i ELSE i - 1]>>}
  <2>1. CASE \E l \in 1 .. n, i \in 1 .. 13 : x = 1 + ((l - 1) * 13 + i)
    <3>1. PICK l \in 1 .. n, i \in 1 .. 13 : x = 1 + ((l - 1) * 13 + i)
      BY <2>1
    <3>2. Plan[x] = StepOf(l, i)
      BY <3>1, PlanIs
    <3> DEFINE part == LayerParts[IF i < 8 THEN i ELSE i - 1]
    <3>3. i \notin {8, 13} /\ StepOf(l, i) = TakeOf(<<l, part>>)
      <4>1. StepOf(l, i).op = "take"
        BY <1>2, <3>2
      <4>2. StepOf(l, i).op = "check" \/ (i \notin {8, 13} /\ StepOf(l, i) = TakeOf(<<l, part>>))
        BY DEF StepOf
      <4>. QED BY <4>1, <4>2
    <3>4. Plan[x].names = {<<l, part>>}
      BY <3>2, <3>3 DEF TakeOf
    <3>. QED BY <3>1, <3>3, <3>4
  <2>2. CASE x = 1 \/ x = 13 * n + 2 \/ x = 13 * n + 3 \/ x = 13 * n + 4 \/ x = 13 * n + 5
    BY <1>2, <2>2, PlanIs DEF TakeOf, HeadCheck, LmHeadCheck
  <2>. QED BY <2>1, <2>2, PlanAt
<1>3. ASSUME NEW l, NEW i, NEW m, NEW j, In(p, l, i), In(q, m, j), i \notin {8, 13}, j \notin {8, 13},
             {<<l, LayerParts[IF i < 8 THEN i ELSE i - 1]>>}
               = {<<m, LayerParts[IF j < 8 THEN j ELSE j - 1]>>}
      PROVE  p = q
  <2>1. l = m /\ LayerParts[IF i < 8 THEN i ELSE i - 1] = LayerParts[IF j < 8 THEN j ELSE j - 1]
    <3> DEFINE a == LayerParts[IF i < 8 THEN i ELSE i - 1]
               b == LayerParts[IF j < 8 THEN j ELSE j - 1]
    <3>1. <<l, a>> \in {<<m, b>>}
      BY <1>3, Zenon
    <3> HIDE DEF a, b
    <3>2. <<l, a>> = <<m, b>>
      BY <3>1
    <3>3. l = m /\ a = b
      BY <3>2
    <3>. QED BY <3>3 DEF a, b
  <2>2. (IF i < 8 THEN i ELSE i - 1) = (IF j < 8 THEN j ELSE j - 1)
    <3>1. (IF i < 8 THEN i ELSE i - 1) \in 1 .. 11 /\ (IF j < 8 THEN j ELSE j - 1) \in 1 .. 11
      BY <1>3
    <3>. QED BY <2>1, <3>1, ElevenParts
  <2>3. i = j
    BY <1>3, <2>2
  <2>. QED BY <1>3, <2>1, <2>3
<1>4. ASSUME NEW l, NEW part, l \in 1 .. n
      PROVE  <<l, part>> \notin {<<0, "embed_tokens">>, <<0, "norm">>, <<0, "lm_head">>}
  BY <1>1, <1>4
<1> DEFINE Layered(x) == \E l, i : /\ In(x, l, i) /\ i \notin {8, 13}
                                   /\ Plan[x].names = {<<l, LayerParts[IF i < 8 THEN i ELSE i - 1]>>}
           Single(x) == \/ x = 1 /\ Plan[x].names = {<<0, "embed_tokens">>}
                        \/ x = 13 * n + 2 /\ Plan[x].names = {<<0, "norm">>}
                        \/ x = 13 * n + 4 /\ Plan[x].names = {<<0, "lm_head">>}
<1>5. (Single(p) \/ Layered(p)) /\ (Single(q) \/ Layered(q))
  <2>1. \A x \in 1 .. Len(Plan) : Plan[x].op = "take" => Single(x) \/ Layered(x)
    BY <1>2
  <2>. QED BY <2>1, Zenon
<1>6. ASSUME NEW x \in 1 .. Len(Plan), NEW y \in 1 .. Len(Plan), Layered(x), Single(y)
      PROVE  Plan[x].names # Plan[y].names
  <2>1. PICK l, i : /\ In(x, l, i)
                    /\ Plan[x].names = {<<l, LayerParts[IF i < 8 THEN i ELSE i - 1]>>}
    BY <1>6
  <2>2. \E z \in {<<0, "embed_tokens">>, <<0, "norm">>, <<0, "lm_head">>} : Plan[y].names = {z}
    BY <1>6
  <2>. QED BY <1>4, <2>1, <2>2
<1>7. CASE Layered(p) /\ Layered(q)
  <2> HIDE DEF In
  <2>1. PICK l, i : /\ In(p, l, i) /\ i \notin {8, 13}
                    /\ Plan[p].names = {<<l, LayerParts[IF i < 8 THEN i ELSE i - 1]>>}
    BY <1>7, Zenon
  <2>2. PICK m, j : /\ In(q, m, j) /\ j \notin {8, 13}
                    /\ Plan[q].names = {<<m, LayerParts[IF j < 8 THEN j ELSE j - 1]>>}
    BY <1>7, Zenon
  <2>3. {<<l, LayerParts[IF i < 8 THEN i ELSE i - 1]>>} = {<<m, LayerParts[IF j < 8 THEN j ELSE j - 1]>>}
    BY <2>1, <2>2, Zenon
  <2>. QED BY <1>3, <2>1, <2>2, <2>3, Zenon
<1>8. CASE Single(p) /\ Single(q)
  <2>1. <<0, "embed_tokens">> # <<0, "norm">> /\ <<0, "embed_tokens">> # <<0, "lm_head">>
        /\ <<0, "norm">> # <<0, "lm_head">>
    OBVIOUS
  <2> DEFINE a == <<0, "embed_tokens">>
             b == <<0, "norm">>
             c == <<0, "lm_head">>
             P == Plan[p].names
  <2>2. \/ p = 1 /\ P = {a}
        \/ p = 13 * n + 2 /\ P = {b}
        \/ p = 13 * n + 4 /\ P = {c}
    BY <1>8, Zenon
  <2>3. \/ q = 1 /\ P = {a}
        \/ q = 13 * n + 2 /\ P = {b}
        \/ q = 13 * n + 4 /\ P = {c}
    BY <1>8, Zenon
  <2>4. a # b /\ a # c /\ b # c
    BY <2>1
  <2> HIDE DEF a, b, c, P, Single, Layered, In, n
  <2>5. {a} # {b} /\ {a} # {c} /\ {b} # {c}
    BY <2>4, Zenon
  <2>6. P \in {{a}, {b}, {c}}
    BY <2>2, Zenon
  <2>7. P = {a} => p = 1 /\ q = 1
    BY <2>2, <2>3, <2>5, Zenon
  <2>8. P = {b} => p = 13 * n + 2 /\ q = 13 * n + 2
    BY <2>2, <2>3, <2>5, Zenon
  <2>9. P = {c} => p = 13 * n + 4 /\ q = 13 * n + 4
    BY <2>2, <2>3, <2>5, Zenon
  <2>. QED BY <2>6, <2>7, <2>8, <2>9
<1>9. ~ (Layered(p) /\ Single(q)) /\ ~ (Layered(q) /\ Single(p))
  <2> HIDE DEF Layered, Single
  <2>. QED BY <1>6, Zenon
<1> HIDE DEF Layered, Single
<1>. QED BY <1>5, <1>7, <1>8, <1>9

(* A take takes one weight, and every weight is taken.                     *)
LEMMA TakesAre ==
  /\ \A p \in 1 .. Len(Plan) : Plan[p].op = "take" => \E n \in NameSet : Plan[p] = TakeOf(n)
  /\ \A n \in NameSet : \E p \in 1 .. Len(Plan) : Plan[p] = TakeOf(n)
<1> DEFINE n == NumHiddenLayers
<1>1. n \in Nat \ {0} /\ Len(Plan) = 13 * n + 5
  BY WeightLoadingAssumption, PlanIs
<1>2. ASSUME NEW p \in 1 .. Len(Plan), Plan[p].op = "take"
      PROVE  \E x \in NameSet : Plan[p] = TakeOf(x)
  <2>1. CASE \E l \in 1 .. n, i \in 1 .. 13 : p = 1 + ((l - 1) * 13 + i)
    <3>1. PICK l \in 1 .. n, i \in 1 .. 13 : p = 1 + ((l - 1) * 13 + i)
      BY <2>1
    <3> DEFINE part == LayerParts[IF i < 8 THEN i ELSE i - 1]
    <3>2. Plan[p] = StepOf(l, i)
      BY <3>1, PlanIs
    <3>3. i \notin {8, 13} /\ StepOf(l, i) = TakeOf(<<l, part>>)
      <4>1. StepOf(l, i).op = "take"
        BY <1>2, <3>2
      <4>2. StepOf(l, i).op = "check" \/ (i \notin {8, 13} /\ StepOf(l, i) = TakeOf(<<l, part>>))
        BY DEF StepOf
      <4>. QED BY <4>1, <4>2
    <3>4. part \in Parts
      BY <3>3, ElevenParts
    <3> HIDE DEF part
    <3>5. <<l, part>> \in NameSet
      BY <3>4 DEF NameSet
    <3>. QED BY <3>2, <3>3, <3>5
  <2>2. CASE p = 1 \/ p = 13 * n + 2 \/ p = 13 * n + 3 \/ p = 13 * n + 4 \/ p = 13 * n + 5
    BY <1>2, <2>2, PlanIs DEF HeadCheck, LmHeadCheck, NameSet
  <2>. QED BY <2>1, <2>2, PlanAt
<1>3. ASSUME NEW l \in 1 .. n, NEW i \in 1 .. 13 PROVE 1 + ((l - 1) * 13 + i) \in 1 .. Len(Plan)
  <2>1. (l - 1) * 13 + i \in 1 .. n * 13
    <3>1. 13 \in Nat \ {0} /\ n \in Nat
      BY <1>1
    <3>. QED BY <3>1, LaidAt DEF LiesInPlace
  <2>. QED BY <1>1, <2>1
<1>4. ASSUME NEW l \in 1 .. n, NEW part \in Parts
      PROVE  \E p \in 1 .. Len(Plan) : Plan[p] = TakeOf(<<l, part>>)
  <2>1. PICK j \in 1 .. 11 : LayerParts[j] = part
    BY ElevenParts
  <2> DEFINE i == IF j < 8 THEN j ELSE j + 1
  <2>2. i \in 1 .. 13 /\ i \notin {8, 13} /\ (IF i < 8 THEN i ELSE i - 1) = j
    OBVIOUS
  <2> HIDE DEF i
  <2>3. StepOf(l, i) = TakeOf(<<l, part>>)
    BY <2>1, <2>2 DEF StepOf
  <2>4. Plan[1 + ((l - 1) * 13 + i)] = StepOf(l, i)
    BY <2>2, PlanIs
  <2>. QED BY <1>3, <2>2, <2>3, <2>4
<1>5. ASSUME NEW x \in {<<0, "embed_tokens">>, <<0, "norm">>, <<0, "lm_head">>}
      PROVE  \E p \in 1 .. Len(Plan) : Plan[p] = TakeOf(x)
  <2>1. 1 \in 1 .. Len(Plan) /\ 13 * n + 2 \in 1 .. Len(Plan) /\ 13 * n + 4 \in 1 .. Len(Plan)
    BY <1>1
  <2>2. CASE x = <<0, "embed_tokens">>
    BY <2>1, <2>2, PlanIs
  <2>3. CASE x = <<0, "norm">>
    BY <2>1, <2>3, PlanIs
  <2>4. CASE x = <<0, "lm_head">>
    BY <2>1, <2>4, PlanIs
  <2>. QED BY <2>2, <2>3, <2>4
<1>. QED BY <1>2, <1>4, <1>5 DEF NameSet

(* What a check is about was taken before; no check is about the norms of  *)
(* a layer, and every other weight is checked.                             *)
LEMMA ChecksAre ==
  /\ \A p \in 1 .. Len(Plan) : Plan[p].op = "check" =>
       \A n \in Plan[p].names : /\ n \in NameSet /\ n[2] \notin LayerNorms
                                /\ \E q \in 1 .. (p - 1) : Plan[q] = TakeOf(n)
  /\ \A n \in NameSet : n[2] \notin LayerNorms =>
       \E p \in 1 .. Len(Plan) : Plan[p].op = "check" /\ n \in Plan[p].names
<1> DEFINE n == NumHiddenLayers
           At(l, i) == 1 + ((l - 1) * 13 + i)
<1>1. n \in Nat \ {0} /\ Len(Plan) = 13 * n + 5
  BY WeightLoadingAssumption, PlanIs
<1>2. ASSUME NEW l \in 1 .. n, NEW i \in 1 .. 13
      PROVE  At(l, i) \in 1 .. Len(Plan) /\ Plan[At(l, i)] = StepOf(l, i)
  <2>1. (l - 1) * 13 + i \in 1 .. n * 13
    <3>1. 13 \in Nat \ {0} /\ n \in Nat
      BY <1>1
    <3>. QED BY <3>1, LaidAt DEF LiesInPlace
  <2>2. At(l, i) \in 1 .. Len(Plan)
    BY <1>1, <2>1
  <2>. QED BY <2>2, PlanIs
<1>3. ASSUME NEW l \in 1 .. n, NEW part
      PROVE  /\ part \in AttentionSet =>
                  \E j \in 2 .. 7 : StepOf(l, j) = TakeOf(<<l, part>>)
             /\ part \in MlpSet =>
                  \E j \in 10 .. 12 : StepOf(l, j) = TakeOf(<<l, part>>)
  <2>1. part \in AttentionSet => \E j \in 2 .. 7 : LayerParts[j] = part
    BY LayerPartsAre DEF AttentionSet
  <2>2. part \in MlpSet => \E j \in 9 .. 11 : LayerParts[j] = part
    BY LayerPartsAre DEF MlpSet
  <2>3. \A j \in 2 .. 7 : StepOf(l, j) = TakeOf(<<l, LayerParts[j]>>)
    BY DEF StepOf
  <2>4. \A j \in 9 .. 11 : j + 1 \in 10 .. 12 /\ StepOf(l, j + 1) = TakeOf(<<l, LayerParts[j]>>)
    BY DEF StepOf
  <2>. QED BY <2>1, <2>2, <2>3, <2>4
<1>4. ASSUME NEW l \in 1 .. n, NEW part \in AttentionSet \cup MlpSet
      PROVE  /\ <<l, part>> \in NameSet /\ <<l, part>>[2] \notin LayerNorms
             /\ \E i \in {8, 13} : StepOf(l, i).op = "check" /\ <<l, part>> \in StepOf(l, i).names
  <2>1. <<l, part>> \in NameSet /\ <<l, part>>[2] \notin LayerNorms
    BY DEF AttentionSet, MlpSet, NameSet, Parts, LayerNorms
  <2>2. part \in AttentionSet => StepOf(l, 8).op = "check" /\ <<l, part>> \in StepOf(l, 8).names
    BY DEF StepOf
  <2>3. part \in MlpSet => StepOf(l, 13).op = "check" /\ <<l, part>> \in StepOf(l, 13).names
    BY DEF StepOf
  <2>. QED BY <2>1, <2>2, <2>3
<1>5. ASSUME NEW p \in 1 .. Len(Plan), Plan[p].op = "check", NEW x \in Plan[p].names
      PROVE  /\ x \in NameSet /\ x[2] \notin LayerNorms
             /\ \E q \in 1 .. (p - 1) : Plan[q] = TakeOf(x)
  <2>1. CASE \E l \in 1 .. n, i \in 1 .. 13 : p = At(l, i)
    <3>1. PICK l \in 1 .. n, i \in 1 .. 13 : p = At(l, i)
      BY <2>1
    <3>2. Plan[p] = StepOf(l, i)
      BY <1>2, <3>1
    <3>3. \/ i = 8 /\ (\E part \in AttentionSet : x = <<l, part>>)
          \/ i = 13 /\ (\E part \in MlpSet : x = <<l, part>>)
      BY <1>5, <3>2 DEF StepOf, TakeOf
    <3>4. \E j \in 1 .. 12 : j < i /\ StepOf(l, j) = TakeOf(x)
      BY <1>3, <3>3
    <3>5. PICK j \in 1 .. 12 : j < i /\ StepOf(l, j) = TakeOf(x)
      BY <3>4
    <3>6. At(l, j) \in 1 .. (p - 1) /\ Plan[At(l, j)] = TakeOf(x)
      <4>1. At(l, j) \in 1 .. Len(Plan) /\ Plan[At(l, j)] = TakeOf(x)
        <5>1. j \in 1 .. 13
          BY <3>5
        <5>. QED BY <1>2, <3>5, <5>1
      <4>2. At(l, j) < At(l, i)
        <5> DEFINE b == (l - 1) * 13
        <5>1. b \in Int /\ i \in Int /\ j \in Int /\ j < i
          BY <3>5
        <5>2. At(l, j) = 1 + (b + j) /\ At(l, i) = 1 + (b + i)
          OBVIOUS
        <5> HIDE DEF b, At
        <5>. QED BY <5>1, <5>2
      <4>. QED BY <3>1, <4>1, <4>2
    <3>7. x \in NameSet /\ x[2] \notin LayerNorms
      BY <1>4, <3>3
    <3>. QED BY <3>6, <3>7
  <2>2. CASE p = 1 \/ p = 13 * n + 2 \/ p = 13 * n + 4
    BY <1>5, <2>2, PlanIs DEF TakeOf
  <2>3. CASE p = 13 * n + 3
    <3>1. x = <<0, "embed_tokens">> \/ x = <<0, "norm">>
      BY <1>5, <2>3, PlanIs DEF HeadCheck
    <3>2. 1 \in 1 .. (p - 1) /\ 13 * n + 2 \in 1 .. (p - 1)
      BY <1>1, <2>3
    <3>3. x \in NameSet /\ x[2] \notin LayerNorms
      BY <3>1 DEF NameSet, LayerNorms
    <3>. QED BY <3>1, <3>2, <3>3, PlanIs
  <2>4. CASE p = 13 * n + 5
    <3>1. x = <<0, "lm_head">>
      BY <1>5, <2>4, PlanIs DEF LmHeadCheck
    <3>2. 13 * n + 4 \in 1 .. (p - 1)
      BY <1>1, <2>4
    <3>3. x \in NameSet /\ x[2] \notin LayerNorms
      BY <3>1 DEF NameSet, LayerNorms
    <3>. QED BY <3>1, <3>2, <3>3, PlanIs
  <2>. QED BY <2>1, <2>2, <2>3, <2>4, PlanAt
<1>6. ASSUME NEW x \in NameSet, x[2] \notin LayerNorms
      PROVE  \E p \in 1 .. Len(Plan) : Plan[p].op = "check" /\ x \in Plan[p].names
  <2>1. CASE \E l \in 1 .. n, part \in Parts : x = <<l, part>>
    <3>1. PICK l \in 1 .. n, part \in Parts : x = <<l, part>>
      BY <2>1
    <3>2. part \in AttentionSet \cup MlpSet
      BY <1>6, <3>1 DEF Parts, AttentionSet, MlpSet, LayerNorms
    <3>3. PICK i \in {8, 13} : StepOf(l, i).op = "check" /\ x \in StepOf(l, i).names
      BY <1>4, <3>1, <3>2
    <3>4. i \in 1 .. 13
      OBVIOUS
    <3> HIDE DEF At
    <3>5. At(l, i) \in 1 .. Len(Plan) /\ Plan[At(l, i)] = StepOf(l, i)
      BY <1>2, <3>4, Zenon
    <3>. QED BY <3>3, <3>5, Zenon
  <2>2. CASE x \in {<<0, "embed_tokens">>, <<0, "norm">>, <<0, "lm_head">>}
    <3>1. 13 * n + 3 \in 1 .. Len(Plan) /\ 13 * n + 5 \in 1 .. Len(Plan)
      BY <1>1
    <3>2. /\ Plan[13 * n + 3] = HeadCheck /\ Plan[13 * n + 5] = LmHeadCheck
      BY PlanIs
    <3>3. HeadCheck.op = "check" /\ LmHeadCheck.op = "check"
      BY DEF HeadCheck, LmHeadCheck
    <3>4. x \in HeadCheck.names \/ x \in LmHeadCheck.names
      BY <2>2 DEF HeadCheck, LmHeadCheck
    <3> HIDE DEF HeadCheck, LmHeadCheck
    <3>5. CASE x \in HeadCheck.names
      <4>1. Plan[13 * n + 3].op = "check" /\ x \in Plan[13 * n + 3].names
        BY <3>2, <3>3, <3>5, Zenon
      <4>. QED BY <3>1, <4>1, Zenon
    <3>6. CASE x \in LmHeadCheck.names
      <4>1. Plan[13 * n + 5].op = "check" /\ x \in Plan[13 * n + 5].names
        BY <3>2, <3>3, <3>6, Zenon
      <4>. QED BY <3>1, <4>1, Zenon
    <3>. QED BY <3>4, <3>5, <3>6
  <2>. QED BY <2>1, <2>2 DEF NameSet
<1>. QED BY <1>5, <1>6

(* Two more elements.                                                      *)
LEMMA TwoMore ==
  ASSUME NEW A, NEW a \in Seq(A), NEW x \in A, NEW y \in A
  PROVE  /\ a \o <<x, y>> \in Seq(A) /\ Len(a \o <<x, y>>) = Len(a) + 2
         /\ \A i \in 1 .. Len(a) : (a \o <<x, y>>)[i] = a[i]
         /\ (a \o <<x, y>>)[Len(a) + 1] = x /\ (a \o <<x, y>>)[Len(a) + 2] = y
<1> DEFINE b == <<x, y>>
           c == a \o b
<1>1. b \in Seq(A) /\ Len(b) = 2 /\ b[1] = x /\ b[2] = y
  OBVIOUS
<1> HIDE DEF b
<1>2. /\ c \in Seq(A) /\ Len(c) = Len(a) + Len(b)
      /\ \A i \in 1 .. Len(a) + Len(b) : c[i] = IF i <= Len(a) THEN a[i] ELSE b[i - Len(a)]
  BY <1>1, ConcatProperties, Zenon
<1>3. Len(a) \in Nat
  OBVIOUS
<1> HIDE DEF c
<1>4. c[Len(a) + 1] = b[1] /\ c[Len(a) + 2] = b[2] /\ \A i \in 1 .. Len(a) : c[i] = a[i]
  BY <1>1, <1>2, <1>3, SMTT(30)
<1>. QED BY <1>1, <1>2, <1>4 DEF b, c

(* The names of the weights, one by one.                                   *)
LEMMA NamesAre ==
  LET n == NumHiddenLayers
  IN  /\ Names \in Seq(NameSet) /\ Len(Names) = 11 * n + 3
      /\ Names[1] = <<0, "embed_tokens">>
      /\ \A l \in 1 .. n, i \in 1 .. 11 : Names[1 + ((l - 1) * 11 + i)] = <<l, LayerParts[i]>>
      /\ Names[11 * n + 2] = <<0, "norm">> /\ Names[11 * n + 3] = <<0, "lm_head">>
<1> DEFINE n == NumHiddenLayers
           name == [l \in 1 .. n |-> [i \in DOMAIN LayerParts |-> <<l, LayerParts[i]>>]]
           f == FlattenSeq(name)
           x1 == <<0, "embed_tokens">>
           x2 == <<0, "norm">>
           x3 == <<0, "lm_head">>
<1>1. n \in Nat \ {0}
  BY WeightLoadingAssumption
<1>2. /\ name \in [1 .. n -> [1 .. 11 -> NameSet]]
      /\ \A l \in 1 .. n : \A i \in 1 .. 11 : name[l][i] = <<l, LayerParts[i]>>
  <2>1. DOMAIN LayerParts = 1 .. 11 /\ \A i \in 1 .. 11 : LayerParts[i] \in Parts
    BY ElevenParts
  <2>2. \A l \in 1 .. n : \A part \in Parts : <<l, part>> \in NameSet
    BY DEF NameSet
  <2>3. \A l \in 1 .. n : \A i \in 1 .. 11 : <<l, LayerParts[i]>> \in NameSet
    BY <2>1, <2>2
  <2>. QED BY <2>1, <2>3
<1>3. x1 \in NameSet /\ x2 \in NameSet /\ x3 \in NameSet
  BY DEF NameSet
<1>4. Names = <<x1>> \o f \o <<x2, x3>>
  BY DEF Names
<1>5. f = Laid(name, n, 11)
  <2> DEFINE k == 11
  <2>1. k \in Nat \ {0} /\ n \in Nat \ {0} /\ name \in [1 .. n -> [1 .. k -> NameSet]]
    <3> HIDE DEF name, n
    <3>. QED BY <1>1, <1>2
  <2> HIDE DEF name, n, k
  <2>2. FlattenSeq(name) = Laid(name, n, k)
    BY <2>1, FlattenLaid, Zenon
  <2>. QED BY <2>2 DEF k
<1>6. f \in Seq(NameSet) /\ Len(f) = n * 11 /\ \A l \in 1 .. n, i \in 1 .. 11 :
        /\ (l - 1) * 11 + i \in 1 .. n * 11 /\ f[(l - 1) * 11 + i] = <<l, LayerParts[i]>>
  <2> HIDE DEF name, f, n
  <2>1. \A l \in 1 .. n : \A i \in 1 .. 11 :
          /\ (l - 1) * 11 + i \in 1 .. n * 11 /\ f[(l - 1) * 11 + i] = name[l][i]
    BY <1>1, <1>5, LaidAt DEF LiesInPlace
  <2>3. \A p \in 1 .. n * 11 : f[p] \in NameSet
    <3>1. SUFFICES ASSUME NEW p \in 1 .. n * 11 PROVE f[p] \in NameSet
      OBVIOUS
    <3>2. (p - 1) \div 11 + 1 \in 1 .. n /\ ((p - 1) % 11) + 1 \in 1 .. 11
      BY <1>1, LaidFrom
    <3>3. f[p] = name[(p - 1) \div 11 + 1][((p - 1) % 11) + 1]
      BY <1>5 DEF Laid
    <3>. QED BY <1>2, <3>2, <3>3
  <2>4. f \in Seq(NameSet) /\ Len(f) = n * 11
    <3> DEFINE N == n * 11
    <3>1. N \in Nat
      BY <1>1
    <3>2. f = [p \in 1 .. N |-> f[p]]
      BY <1>5 DEF Laid
    <3>3. \A p \in 1 .. N : f[p] \in NameSet
      BY <2>3
    <3> HIDE DEF N
    <3>4. f \in [1 .. N -> NameSet]
      BY <3>2, <3>3
    <3>5. f \in Seq(NameSet) /\ Len(f) = N
      BY <3>1, <3>4, FunctionIsSeq
    <3>. QED BY <3>5 DEF N
  <2>. QED BY <1>2, <2>1, <2>4
<1> DEFINE p1 == <<x1>> \o f
           p2 == p1 \o <<x2, x3>>
<1> HIDE DEF f, name, x1, x2, x3, n
<1>7. p1 \in Seq(NameSet) /\ Len(p1) = 1 + Len(f) /\ p1[1] = x1 /\ \A i \in 1 .. Len(f) : p1[1 + i] = f[i]
  BY <1>3, <1>6, OneBefore
<1> HIDE DEF p1
<1>8. /\ p2 \in Seq(NameSet) /\ Len(p2) = Len(p1) + 2 /\ (\A i \in 1 .. Len(p1) : p2[i] = p1[i])
      /\ p2[Len(p1) + 1] = x2 /\ p2[Len(p1) + 2] = x3
  BY <1>3, <1>7, TwoMore
<1> HIDE DEF p2
<1>12. Names = p2
  BY <1>4 DEF p2, p1
<1>13. Len(p1) = 11 * n + 1 /\ Len(p2) = 11 * n + 3
  BY <1>1, <1>6, <1>7, <1>8
<1>15. p2[11 * n + 2] = x2 /\ p2[11 * n + 3] = x3
  BY <1>1, <1>8, <1>13
<1>16. \A l \in 1 .. n, i \in 1 .. 11 : p2[1 + ((l - 1) * 11 + i)] = <<l, LayerParts[i]>>
  <2>1. SUFFICES ASSUME NEW l \in 1 .. n, NEW i \in 1 .. 11
                 PROVE  p2[1 + ((l - 1) * 11 + i)] = <<l, LayerParts[i]>>
    OBVIOUS
  <2> DEFINE q == (l - 1) * 11 + i
  <2>2. q \in 1 .. Len(f) /\ f[q] = <<l, LayerParts[i]>> /\ Len(f) = 11 * n
    <3>1. q \in 1 .. n * 11 /\ f[q] = <<l, LayerParts[i]>> /\ Len(f) = n * 11
      BY <1>6
    <3> HIDE DEF q
    <3>. QED BY <1>1, <3>1
  <2> HIDE DEF q
  <2>3. p1[1 + q] = f[q] /\ 1 + q \in 1 .. 11 * n + 1
    <3>1. p1[1 + q] = f[q]
      BY <1>7, <2>2
    <3>2. 1 + q \in 1 .. 11 * n + 1
      BY <1>1, <2>2
    <3>. QED BY <3>1, <3>2
  <2>. QED BY <1>8, <1>13, <2>2, <2>3 DEF q
<1>17. p2[1] = x1
  BY <1>1, <1>7, <1>8, <1>13
<1>. QED BY <1>8, <1>12, <1>13, <1>15, <1>16, <1>17 DEF n, x1, x2, x3

(* Every weight has one place among them.                                  *)
LEMMA NamesOnce ==
  /\ \A p, q \in 1 .. Len(Names) : Names[p] = Names[q] => p = q
  /\ Range(Names) = NameSet
<1> DEFINE n == NumHiddenLayers
           At(l, i) == 1 + ((l - 1) * 11 + i)
           Single(p) == \/ p = 1 /\ Names[p] = <<0, "embed_tokens">>
                        \/ p = 11 * n + 2 /\ Names[p] = <<0, "norm">>
                        \/ p = 11 * n + 3 /\ Names[p] = <<0, "lm_head">>
           Layered(p) == \E l \in 1 .. n, i \in 1 .. 11 :
                           p = At(l, i) /\ Names[p] = <<l, LayerParts[i]>>
<1>1. n \in Nat \ {0} /\ Len(Names) = 11 * n + 3
  BY WeightLoadingAssumption, NamesAre
<1>2. ASSUME NEW p \in 1 .. Len(Names) PROVE Single(p) \/ Layered(p)
  <2>1. CASE p - 1 \in 1 .. n * 11
    <3> DEFINE q == p - 1
               l == (q - 1) \div 11 + 1
               i == ((q - 1) % 11) + 1
    <3>1. l \in 1 .. n /\ i \in 1 .. 11 /\ q = (l - 1) * 11 + i
      <4>1. 11 \in Nat \ {0} /\ n \in Nat
        BY <1>1
      <4> HIDE DEF n
      <4>. QED BY <2>1, <4>1, LaidFrom
    <3> HIDE DEF l, i
    <3>2. p = At(l, i)
      BY <3>1
    <3>3. Names[At(l, i)] = <<l, LayerParts[i]>>
      BY <3>1, NamesAre
    <3>. QED BY <3>1, <3>2, <3>3
  <2>2. CASE p - 1 \notin 1 .. n * 11
    <3>1. p = 1 \/ p = 11 * n + 2 \/ p = 11 * n + 3
      <4> HIDE DEF n
      <4>1. p \in Int /\ 1 <= p /\ p <= 11 * n + 3
        BY <1>1
      <4>2. p - 1 < 1 \/ p - 1 > 11 * n
        BY <1>1, <2>2, <4>1
      <4>. QED BY <1>1, <4>1, <4>2
    <3>. QED BY <3>1, NamesAre
  <2>. QED BY <2>1, <2>2
<1>3. ASSUME NEW p \in 1 .. Len(Names), NEW q \in 1 .. Len(Names), Names[p] = Names[q]
      PROVE  p = q
  <2>1. CASE Layered(p) /\ Layered(q)
    <3>1. PICK l \in 1 .. n, i \in 1 .. 11 : p = At(l, i) /\ Names[p] = <<l, LayerParts[i]>>
      BY <2>1
    <3>2. PICK m \in 1 .. n, j \in 1 .. 11 : q = At(m, j) /\ Names[q] = <<m, LayerParts[j]>>
      BY <2>1
    <3>3. <<l, LayerParts[i]>> = <<m, LayerParts[j]>>
      BY <1>3, <3>1, <3>2, Zenon
    <3>4. l = m /\ LayerParts[i] = LayerParts[j]
      BY <3>3
    <3>5. i = j
      BY <3>4, ElevenParts
    <3>. QED BY <3>1, <3>2, <3>4, <3>5
  <2>2. \A x, y \in 1 .. Len(Names) : Layered(x) /\ Single(y) => Names[x] # Names[y]
    <3>1. SUFFICES ASSUME NEW x \in 1 .. Len(Names), NEW y \in 1 .. Len(Names), Layered(x), Single(y)
                   PROVE  Names[x] # Names[y]
      BY Zenon
    <3>2. PICK l \in 1 .. n, i \in 1 .. 11 : Names[x] = <<l, LayerParts[i]>>
      BY <3>1
    <3>3. \E part : Names[y] = <<0, part>>
      BY <3>1, Zenon
    <3>4. PICK part : Names[y] = <<0, part>>
      BY <3>3
    <3>. QED BY <1>1, <3>2, <3>4
  <2>3. CASE Single(p) /\ Single(q)
    <3>1. /\ <<0, "embed_tokens">> # <<0, "norm">> /\ <<0, "embed_tokens">> # <<0, "lm_head">>
          /\ <<0, "norm">> # <<0, "lm_head">>
      OBVIOUS
    <3>. QED BY <1>3, <2>3, <3>1
  <2> HIDE DEF Layered, Single
  <2>. QED BY <1>2, <1>3, <2>1, <2>2, <2>3
<1>4. Range(Names) = {Names[p] : p \in 1 .. Len(Names)}
  BY NamesAre DEF Range
<1>5. \A p \in 1 .. Len(Names) : Names[p] \in NameSet
  BY NamesAre
<1>6. ASSUME NEW x \in NameSet PROVE \E p \in 1 .. Len(Names) : Names[p] = x
  <2>1. CASE \E l \in 1 .. n, part \in Parts : x = <<l, part>>
    <3>1. PICK l \in 1 .. n, part \in Parts : x = <<l, part>>
      BY <2>1
    <3>2. PICK i \in 1 .. 11 : LayerParts[i] = part
      BY ElevenParts
    <3>3. At(l, i) \in 1 .. Len(Names)
      <4>1. (l - 1) * 11 + i \in 1 .. n * 11
        <5>1. 11 \in Nat \ {0} /\ n \in Nat
          BY <1>1
        <5>. QED BY <5>1, LaidAt DEF LiesInPlace
      <4>. QED BY <1>1, <4>1
    <3>4. Names[At(l, i)] = <<l, LayerParts[i]>>
      BY NamesAre
    <3>. QED BY <3>1, <3>2, <3>3, <3>4
  <2>2. CASE x \in {<<0, "embed_tokens">>, <<0, "norm">>, <<0, "lm_head">>}
    <3>1. 1 \in 1 .. Len(Names) /\ 11 * n + 2 \in 1 .. Len(Names) /\ 11 * n + 3 \in 1 .. Len(Names)
      BY <1>1
    <3>. QED BY <2>2, <3>1, NamesAre
  <2>. QED BY <2>1, <2>2 DEF NameSet
<1>. QED BY <1>3, <1>4, <1>5, <1>6

-----------------------------------------------------------------------------
(* What a directory lists, and in what shape.                              *)

(* A sequence without one of its elements.                                 *)
LEMMA Removed ==
  ASSUME NEW A, NEW s \in Seq(A), NEW i \in 1 .. Len(s)
  PROVE  /\ RemoveAt(s, i) \in Seq(A) /\ Len(RemoveAt(s, i)) = Len(s) - 1
         /\ \A j \in 1 .. Len(s) - 1 : RemoveAt(s, i)[j] = IF j < i THEN s[j] ELSE s[j + 1]
<1> DEFINE a == SubSeq(s, 1, i - 1)
           b == SubSeq(s, i + 1, Len(s))
           c == a \o b
<1>1. Len(s) \in Nat /\ i \in Nat
  OBVIOUS
<1>2. a \in Seq(A) /\ Len(a) = i - 1 /\ \A j \in 1 .. i - 1 : a[j] = s[j]
  BY <1>1, SubSeqProperties
<1>3. b \in Seq(A) /\ Len(b) = Len(s) - i /\ \A j \in 1 .. Len(s) - i : b[j] = s[i + j]
  BY <1>1, SubSeqProperties
<1> HIDE DEF a, b
<1>4. /\ c \in Seq(A) /\ Len(c) = Len(a) + Len(b)
      /\ \A j \in 1 .. Len(a) + Len(b) : c[j] = IF j <= Len(a) THEN a[j] ELSE b[j - Len(a)]
  BY <1>2, <1>3, ConcatProperties, Zenon
<1> HIDE DEF c
<1>5. Len(c) = Len(s) - 1
  BY <1>1, <1>2, <1>3, <1>4
<1>6. ASSUME NEW j \in 1 .. Len(s) - 1 PROVE c[j] = IF j < i THEN s[j] ELSE s[j + 1]
  <2>1. c[j] = IF j <= Len(a) THEN a[j] ELSE b[j - Len(a)]
    BY <1>4, <1>5
  <2>2. CASE j < i
    BY <1>1, <1>2, <2>1, <2>2
  <2>3. CASE ~ (j < i)
    <3>1. j - (i - 1) \in 1 .. Len(s) - i /\ i + (j - (i - 1)) = j + 1
      BY <1>1, <2>3
    <3>2. c[j] = b[j - (i - 1)]
      BY <1>1, <1>2, <2>1, <2>3
    <3>3. b[j - (i - 1)] = s[i + (j - (i - 1))]
      BY <1>3, <3>1
    <3>. QED BY <2>3, <3>1, <3>2, <3>3
  <2>. QED BY <2>2, <2>3
<1>7. RemoveAt(s, i) = c
  BY DEF RemoveAt, a, b, c
<1>. QED BY <1>4, <1>5, <1>6, <1>7

(* The extra entry has no place in the model.                              *)
LEMMA UnknownIsNoName == Unknown \notin NameSet
<1>1. \A l \in 1 .. NumHiddenLayers, part \in Parts : <<l, part>> # <<0, "no such layer">>
  <2>1. SUFFICES ASSUME NEW l \in 1 .. NumHiddenLayers, NEW part,
                        <<l, part>> = <<0, "no such layer">>
                 PROVE  FALSE
    OBVIOUS
  <2>2. l = 0
    BY <2>1
  <2>. QED BY <2>2, WeightLoadingAssumption
<1>2. <<0, "no such layer">> \notin {<<0, "embed_tokens">>, <<0, "norm">>, <<0, "lm_head">>}
  OBVIOUS
<1> DEFINE u == <<0, "no such layer">>
<1> HIDE DEF u
<1>3. Unknown = u
  BY DEF Unknown, u
<1>4. u \notin NameSet
  <2>1. SUFFICES ASSUME u \in NameSet PROVE FALSE
    OBVIOUS
  <2>2. \/ u \in {<<0, "embed_tokens">>, <<0, "norm">>, <<0, "lm_head">>}
        \/ \E l \in 1 .. NumHiddenLayers, part \in Parts : u = <<l, part>>
    BY <2>1 DEF NameSet
  <2>. QED BY <1>1, <1>2, <2>2, Zenon DEF u
<1>. QED BY <1>3, <1>4

(* What a directory lists.                                                 *)
EntrySet(d) ==
  CASE d.kind = "missing" -> NameSet \ {d.name}
    [] d.kind = "extra"   -> NameSet \cup {Unknown}
    [] OTHER              -> NameSet

(* That is what its entries are, each once unless one is listed twice.     *)
LEMMA EntriesAre ==
  ASSUME NEW d, d.name \in NameSet
  PROVE  /\ Entries(d) \in Seq(NameSet \cup {Unknown})
         /\ \A p \in 1 .. Len(Entries(d)) : Entries(d)[p] \in EntrySet(d)
         /\ \A n \in EntrySet(d) : \E p \in 1 .. Len(Entries(d)) : Entries(d)[p] = n
         /\ d.kind # "duplicate" =>
              \A p, q \in 1 .. Len(Entries(d)) : Entries(d)[p] = Entries(d)[q] => p = q
<1> DEFINE All == NameSet \cup {Unknown}
<1>1. /\ Names \in Seq(NameSet) /\ Names \in Seq(All) /\ Len(Names) \in Nat
      /\ DOMAIN Names = 1 .. Len(Names)
  BY NamesAre
<1>2. \A n \in NameSet : \E p \in 1 .. Len(Names) : Names[p] = n
  BY <1>1, NamesOnce DEF Range
<1>3. \A p, q \in 1 .. Len(Names) : Names[p] = Names[q] => p = q
  BY NamesOnce
<1>4. \A p \in 1 .. Len(Names) : Names[p] \in NameSet
  BY <1>1
<1>5. CASE d.kind = "missing"
  <2> DEFINE i == CHOOSE i \in DOMAIN Names : Names[i] = d.name
             e == RemoveAt(Names, i)
  <2>1. i \in 1 .. Len(Names) /\ Names[i] = d.name
    BY <1>1, <1>2
  <2> HIDE DEF i
  <2>2. /\ e \in Seq(All) /\ Len(e) = Len(Names) - 1
        /\ \A j \in 1 .. Len(Names) - 1 : e[j] = IF j < i THEN Names[j] ELSE Names[j + 1]
    BY <1>1, <2>1, Removed, Zenon
  <2>3. Entries(d) = e
    BY <1>5 DEF Entries, i
  <2>4. EntrySet(d) = NameSet \ {d.name}
    BY <1>5 DEF EntrySet
  <2> HIDE DEF e
  <2> DEFINE Old(j) == IF j < i THEN j ELSE j + 1
  <2>5. \A j \in 1 .. Len(e) : Old(j) \in 1 .. Len(Names) /\ Old(j) # i /\ e[j] = Names[Old(j)]
    BY <1>1, <2>1, <2>2
  <2>6. \A j, k \in 1 .. Len(e) : Old(j) = Old(k) => j = k
    BY <1>1, <2>1
  <2>7. \A q \in 1 .. Len(Names) : q # i => \E j \in 1 .. Len(e) : Old(j) = q
    <3>1. SUFFICES ASSUME NEW q \in 1 .. Len(Names), q # i
                   PROVE  \E j \in 1 .. Len(e) : Old(j) = q
      BY Zenon
    <3>2. CASE q < i
      <4>1. q \in 1 .. Len(e) /\ Old(q) = q
        BY <1>1, <2>1, <2>2, <3>2
      <4>. QED BY <4>1
    <3>3. CASE ~ (q < i)
      <4>1. q - 1 \in 1 .. Len(e) /\ Old(q - 1) = q
        BY <1>1, <2>1, <2>2, <3>1, <3>3
      <4>. QED BY <4>1
    <3>. QED BY <3>2, <3>3
  <2> HIDE DEF Old
  <2>8. \A p \in 1 .. Len(e) : e[p] \in EntrySet(d)
    BY <1>3, <1>4, <2>1, <2>4, <2>5
  <2>9. ASSUME NEW n \in EntrySet(d) PROVE \E p \in 1 .. Len(e) : e[p] = n
    <3>1. PICK q \in 1 .. Len(Names) : Names[q] = n
      BY <1>2, <2>4
    <3>2. q # i
      BY <2>1, <2>4, <3>1
    <3>3. PICK p \in 1 .. Len(e) : Old(p) = q
      BY <2>7, <3>2
    <3>. QED BY <2>5, <3>1, <3>3
  <2>10. ASSUME NEW p \in 1 .. Len(e), NEW q \in 1 .. Len(e), e[p] = e[q] PROVE p = q
    <3>1. Old(p) = Old(q)
      BY <1>3, <2>5, <2>10
    <3>. QED BY <2>6, <3>1
  <2>. QED BY <2>2, <2>3, <2>8, <2>9, <2>10
<1>6. ASSUME NEW x \in All, Entries(d) = Append(Names, x), EntrySet(d) = NameSet \cup {x}
      PROVE  /\ Entries(d) \in Seq(All)
             /\ \A p \in 1 .. Len(Entries(d)) : Entries(d)[p] \in EntrySet(d)
             /\ \A n \in EntrySet(d) : \E p \in 1 .. Len(Entries(d)) : Entries(d)[p] = n
             /\ x = Unknown =>
                  \A p, q \in 1 .. Len(Entries(d)) : Entries(d)[p] = Entries(d)[q] => p = q
  <2> DEFINE e == Entries(d)
  <2>1. /\ e \in Seq(All) /\ Len(e) = Len(Names) + 1 /\ e[Len(Names) + 1] = x
        /\ \A p \in 1 .. Len(Names) : e[p] = Names[p]
    <3> HIDE DEF All
    <3>. QED BY <1>1, <1>6, AppendProperties
  <2> HIDE DEF e
  <2>2. \A p \in 1 .. Len(e) :
          \/ p = Len(Names) + 1 /\ e[p] = x
          \/ p \in 1 .. Len(Names) /\ e[p] = Names[p]
    BY <1>1, <2>1
  <2>3. \A p \in 1 .. Len(Names) : p \in 1 .. Len(e)
    BY <1>1, <2>1
  <2>4. Len(Names) + 1 \in 1 .. Len(e)
    BY <1>1, <2>1
  <2>5. \A p \in 1 .. Len(e) : e[p] \in NameSet \cup {x}
    BY <1>4, <2>2
  <2>6. \A n \in NameSet \cup {x} : \E p \in 1 .. Len(e) : e[p] = n
    BY <1>2, <2>1, <2>3, <2>4
  <2>7. x = Unknown => \A p, q \in 1 .. Len(e) : e[p] = e[q] => p = q
    BY <1>3, <1>4, <2>2, UnknownIsNoName
  <2>. QED BY <1>6, <2>1, <2>5, <2>6, <2>7 DEF e
<1>7. CASE d.kind = "duplicate"
  <2>1. Entries(d) = Append(Names, d.name) /\ EntrySet(d) = NameSet \cup {d.name} /\ d.name \in All
    BY <1>7 DEF Entries, EntrySet
  <2>. QED BY <1>6, <1>7, <2>1
<1>8. CASE d.kind = "extra"
  <2>1. Entries(d) = Append(Names, Unknown) /\ EntrySet(d) = NameSet \cup {Unknown} /\ Unknown \in All
    BY <1>8 DEF Entries, EntrySet
  <2>. QED BY <1>6, <2>1
<1>9. CASE d.kind \notin {"missing", "duplicate", "extra"}
  <2>1. Entries(d) = Names /\ EntrySet(d) = NameSet
    BY <1>9 DEF Entries, EntrySet
  <2>. QED BY <1>1, <1>2, <1>3, <1>4, <2>1
<1>. QED BY <1>5, <1>7, <1>8, <1>9

(* Every weight has one or two dimensions, none empty.                     *)
LEMMA ShapesPositive ==
  ASSUME NEW n \in NameSet
  PROVE  Shape(n) \in Seq(Nat \ {0}) /\ Len(Shape(n)) \in {1, 2} /\ Shape(n)[1] \in Nat \ {0}
<1> DEFINE P == Nat \ {0}
           part == n[2]
<1>1. /\ VocabSize \in P /\ HiddenSize \in P /\ QSize \in P
      /\ KvSize \in P /\ HeadDim \in P /\ IntermediateSize \in P
  BY WeightLoadingAssumption
<1>2. part \in Parts \cup {"embed_tokens", "norm", "lm_head"}
  <2>1. CASE \E l \in 1 .. NumHiddenLayers, x \in Parts : n = <<l, x>>
    <3>1. PICK l \in 1 .. NumHiddenLayers, x \in Parts : n = <<l, x>>
      BY <2>1
    <3>. QED BY <3>1
  <2>2. CASE n \in {<<0, "embed_tokens">>, <<0, "norm">>, <<0, "lm_head">>}
    BY <2>2
  <2>. QED BY <2>1, <2>2 DEF NameSet
<1> HIDE DEF part, P
<1>3. ASSUME NEW x \in P, NEW y \in P
      PROVE  /\ <<x>> \in Seq(P) /\ Len(<<x>>) \in {1, 2} /\ <<x>>[1] \in P
             /\ <<x, y>> \in Seq(P) /\ Len(<<x, y>>) \in {1, 2} /\ <<x, y>>[1] \in P
  OBVIOUS
<1>4. \/ \E x \in P : Shape(n) = <<x>>
      \/ \E x \in P, y \in P : Shape(n) = <<x, y>>
  <2> DEFINE S == Shape(n)
  <2>1. S = CASE part \in {"embed_tokens", "lm_head"}  -> <<VocabSize, HiddenSize>>
              [] part \in LayerNorms \cup {"norm"}     -> <<HiddenSize>>
              [] part \in {"q_norm", "k_norm"}         -> <<HeadDim>>
              [] part = "q_proj"                       -> <<QSize, HiddenSize>>
              [] part \in {"k_proj", "v_proj"}         -> <<KvSize, HiddenSize>>
              [] part = "o_proj"                       -> <<HiddenSize, QSize>>
              [] part \in {"gate_proj", "up_proj"}     -> <<IntermediateSize, HiddenSize>>
              [] part = "down_proj"                    -> <<HiddenSize, IntermediateSize>>
    BY DEF Shape, part
  <2> HIDE DEF S
  <2> DEFINE a == <<VocabSize, HiddenSize>>
             b == <<HiddenSize>>
             c == <<HeadDim>>
             e == <<QSize, HiddenSize>>
             f == <<KvSize, HiddenSize>>
             g == <<HiddenSize, QSize>>
             h == <<IntermediateSize, HiddenSize>>
             i == <<HiddenSize, IntermediateSize>>
  <2>2. S \in {a, b, c, e, f, g, h, i}
    <3> HIDE DEF a, b, c, e, f, g, h, i
    <3>1. \/ part \in {"embed_tokens", "lm_head"} \/ part \in LayerNorms \cup {"norm"}
          \/ part \in {"q_norm", "k_norm"} \/ part = "q_proj" \/ part \in {"k_proj", "v_proj"}
          \/ part = "o_proj" \/ part \in {"gate_proj", "up_proj"} \/ part = "down_proj"
      BY <1>2 DEF Parts, LayerNorms
    <3>2. S = CASE part \in {"embed_tokens", "lm_head"}  -> a
              [] part \in LayerNorms \cup {"norm"}     -> b
              [] part \in {"q_norm", "k_norm"}         -> c
              [] part = "q_proj"                       -> e
              [] part \in {"k_proj", "v_proj"}         -> f
              [] part = "o_proj"                       -> g
              [] part \in {"gate_proj", "up_proj"}     -> h
              [] part = "down_proj"                    -> i
      BY <2>1 DEF a, b, c, e, f, g, h, i
    <3>. QED BY <3>1, <3>2
  <2>. QED BY <1>1, <2>2 DEF S
<1>5. CASE \E x \in P : Shape(n) = <<x>>
  <2>1. PICK x \in P : Shape(n) = <<x>>
    BY <1>5
  <2> DEFINE S == Shape(n)
  <2>2. S = <<x>>
    BY <2>1
  <2> HIDE DEF S
  <2>3. S \in Seq(P) /\ Len(S) \in {1, 2} /\ S[1] \in P
    BY <1>3, <2>2
  <2>. QED BY <2>3 DEF P, S
<1>6. CASE \E x \in P, y \in P : Shape(n) = <<x, y>>
  <2>1. PICK x \in P, y \in P : Shape(n) = <<x, y>>
    BY <1>6
  <2> DEFINE S == Shape(n)
  <2>2. S = <<x, y>>
    BY <2>1
  <2> HIDE DEF S
  <2>3. S \in Seq(P) /\ Len(S) \in {1, 2} /\ S[1] \in P
    BY <1>3, <2>2
  <2>. QED BY <2>3 DEF P, S
<1>. QED BY <1>4, <1>5, <1>6

(* What is listed has a shape that memory can have: the right one but of   *)
(* the wrong entry, which is a row larger or of another rank.              *)
LEMMA EntryShapes ==
  ASSUME NEW d, d.name \in NameSet, NEW n \in NameSet \cup {Unknown}
  PROVE  /\ EntryShape(d, n) \in Seq(Nat \ {0}) /\ Len(EntryShape(d, n)) \in {1, 2, 3}
         /\ n \in NameSet /\ (n # d.name \/ d.kind \notin {"misfit", "malformed"}) =>
              EntryShape(d, n) = Shape(n)
         /\ n \in NameSet /\ d.kind # "malformed" => Len(EntryShape(d, n)) = Len(Shape(n))
<1> DEFINE P == Nat \ {0}
           right == IF n = Unknown THEN <<1>> ELSE Shape(n)
<1>1. right \in Seq(P) /\ Len(right) \in {1, 2} /\ right[1] \in P
  <2>1. CASE n = Unknown
    BY <2>1
  <2>2. CASE n # Unknown
    BY <2>2, ShapesPositive
  <2>. QED BY <2>1, <2>2
<1>2. n \in NameSet => right = Shape(n)
  BY UnknownIsNoName
<1> HIDE DEF right
<1>3. EntryShape(d, n) = IF n # d.name THEN right
                         ELSE CASE d.kind = "misfit"    -> [right EXCEPT ![1] = @ + 1]
                                [] d.kind = "malformed" -> Append(right, 1)
                                [] OTHER                -> right
  BY DEF EntryShape, right
<1>4. CASE n # d.name \/ d.kind \notin {"misfit", "malformed"}
  <2>1. EntryShape(d, n) = right
    BY <1>3, <1>4
  <2>. QED BY <1>1, <1>2, <2>1
<1>5. CASE n = d.name /\ d.kind = "misfit"
  <2>1. EntryShape(d, n) = [right EXCEPT ![1] = @ + 1]
    BY <1>3, <1>5
  <2>2. [right EXCEPT ![1] = @ + 1] \in Seq(P) /\ Len([right EXCEPT ![1] = @ + 1]) = Len(right)
    <3>1. right[1] + 1 \in P
      BY <1>1
    <3>. QED BY <1>1, <3>1
  <2>. QED BY <1>1, <1>2, <1>5, <2>1, <2>2
<1>6. CASE n = d.name /\ d.kind = "malformed"
  <2>1. EntryShape(d, n) = Append(right, 1)
    BY <1>3, <1>6
  <2>2. Append(right, 1) \in Seq(P) /\ Len(Append(right, 1)) = Len(right) + 1
    <3>1. 1 \in P
      OBVIOUS
    <3> HIDE DEF P
    <3>. QED BY <1>1, <3>1, AppendProperties
  <2>3. Len(right) + 1 \in {1, 2, 3}
    <3> DEFINE c == Len(right)
    <3>1. c \in {1, 2}
      BY <1>1
    <3> HIDE DEF c
    <3>2. c + 1 \in {1, 2, 3}
      BY <3>1
    <3>. QED BY <3>2 DEF c
  <2>4. EntryShape(d, n) \in Seq(P) /\ Len(EntryShape(d, n)) \in {1, 2, 3}
    BY <2>1, <2>2, <2>3
  <2>. QED BY <1>6, <2>4
<1>. QED BY <1>4, <1>5, <1>6

(* The product of positive numbers is positive.                            *)
LEMMA Product ==
  ASSUME NEW a \in Nat \ {0}, NEW b \in Nat \ {0}
  PROVE  a * b \in Nat \ {0}
<1>1. a * b = a + a * (b - 1)
  OBVIOUS
<1>2. a * (b - 1) \in Nat
  OBVIOUS
<1>. QED BY <1>1, <1>2

(* So every tensor of a directory needs memory.                            *)
LEMMA ElementsPositive ==
  ASSUME NEW s \in Seq(Nat \ {0}), Len(s) \in {1, 2, 3}
  PROVE  NumElements(s) \in Nat \ {0}
<1>0. Len(s) \in 1 .. 3
  OBVIOUS
<1> DEFINE P == Nat \ {0}
           Step(f, i) == IF i = 0 THEN 1 ELSE f[i - 1] * s[i]
           upto == CHOOSE f : f = [i \in 0 .. Len(s) |-> Step(f, i)]
           G(i) == CASE i = 0 -> 1
                     [] i = 1 -> s[1]
                     [] i = 2 -> s[1] * s[2]
                     [] OTHER -> s[1] * s[2] * s[3]
           g == [i \in 0 .. Len(s) |-> G(i)]
<1>1. \A i \in 1 .. Len(s) : s[i] \in P
  OBVIOUS
<1>2. \A i \in 0 .. Len(s) : G(i) = Step(g, i)
  <2>1. SUFFICES ASSUME NEW i \in 0 .. Len(s) PROVE G(i) = Step(g, i)
    OBVIOUS
  <2>2. i \in 0 .. 3
    <3> DEFINE N == Len(s)
    <3>1. N \in 1 .. 3 /\ i \in 0 .. N
      BY <1>0
    <3> HIDE DEF N
    <3>. QED BY <3>1
  <2>3. i # 0 => i - 1 \in 0 .. Len(s) /\ g[i - 1] = G(i - 1)
    OBVIOUS
  <2>4. CASE i = 0
    BY <2>4
  <2>5. CASE i = 1
    <3>1. s[1] \in Int
      BY <1>1, <2>5
    <3>2. G(0) = 1 /\ G(1) = s[1] /\ Step(g, 1) = g[0] * s[1]
      OBVIOUS
    <3>. QED BY <2>3, <2>5, <3>1, <3>2
  <2>6. CASE i = 2
    BY <2>3, <2>6
  <2>7. CASE i = 3
    BY <2>3, <2>7
  <2>. QED BY <2>2, <2>4, <2>5, <2>6, <2>7
<1>3. g = [i \in 0 .. Len(s) |-> Step(g, i)]
  <2> HIDE DEF G, Step
  <2>. QED BY <1>2
<1>4. upto = [i \in 0 .. Len(s) |-> Step(upto, i)]
  <2> HIDE DEF Step, g
  <2>. QED BY <1>3
<1> HIDE DEF upto
<1>5. NumElements(s) = upto[Len(s)]
  <2>1. s # << >> /\ DOMAIN s = 1 .. Len(s)
    OBVIOUS
  <2>2. ~ \E i \in DOMAIN s : s[i] <= 0
    BY <1>1, <2>1
  <2>. QED BY <2>1, <2>2 DEF NumElements, upto
<1>6. \A i \in 1 .. Len(s) : upto[i] = upto[i - 1] * s[i]
  <2>1. \A i \in 0 .. Len(s) : upto[i] = Step(upto, i)
    <3> HIDE DEF Step
    <3>. QED BY <1>4
  <2>2. ASSUME NEW i \in 1 .. Len(s) PROVE i \in 0 .. Len(s) /\ i # 0
    OBVIOUS
  <2>3. ASSUME NEW i \in 1 .. Len(s) PROVE Step(upto, i) = upto[i - 1] * s[i]
    BY <2>2
  <2> HIDE DEF Step
  <2>. QED BY <2>1, <2>2, <2>3
<1>11. upto[0] = 1
  <2>1. 0 \in 0 .. Len(s)
    OBVIOUS
  <2> DEFINE t == Step(upto, 0)
  <2>2. t = 1
    OBVIOUS
  <2> HIDE DEF t, Step
  <2>3. upto[0] = Step(upto, 0)
    BY <1>4, <2>1
  <2>. QED BY <2>2, <2>3 DEF t
<1>7. upto[1] \in P
  <2>1. 1 \in 1 .. Len(s)
    OBVIOUS
  <2>2. upto[1] = 1 * s[1] /\ s[1] \in P
    BY <1>1, <1>6, <1>11, <2>1
  <2>. QED BY <2>2
<1>8. CASE Len(s) = 1
  BY <1>5, <1>7, <1>8
<1>9. CASE Len(s) >= 2
  <2>1. 2 \in 1 .. Len(s)
    BY <1>9
  <2>2. upto[2] = upto[1] * s[2] /\ s[2] \in P
    BY <1>1, <1>6, <2>1
  <2>3. upto[2] \in P
    BY <1>7, <2>2, Product
  <2>4. CASE Len(s) = 2
    BY <1>5, <2>3, <2>4
  <2>5. CASE Len(s) = 3
    <3>1. upto[3] = upto[2] * s[3] /\ s[3] \in P
      BY <1>1, <1>6, <2>5
    <3>2. upto[3] \in P
      BY <2>3, <3>1, Product
    <3>. QED BY <1>5, <2>5, <3>2
  <2>6. Len(s) = 2 \/ Len(s) = 3
    <3> DEFINE N == Len(s)
    <3>1. N \in 1 .. 3 /\ N >= 2
      BY <1>0, <1>9
    <3> HIDE DEF N
    <3>2. N = 2 \/ N = 3
      BY <3>1
    <3>. QED BY <3>2 DEF N
  <2>. QED BY <2>4, <2>5, <2>6
<1>10. Len(s) = 1 \/ Len(s) >= 2
  <2> DEFINE N == Len(s)
  <2>1. N \in 1 .. 3
    BY <1>0
  <2> HIDE DEF N
  <2>2. N = 1 \/ N >= 2
    BY <2>1
  <2>. QED BY <2>2 DEF N
<1>. QED BY <1>8, <1>9, <1>10

-----------------------------------------------------------------------------
(* The bytes of a heap.  MapThenSumSet takes an allocation at a time; the  *)
(* sum is the number of bytes, each a pair of an address and an offset.    *)
Units(w, s) == {u \in s \X Nat : u[2] < w[u[1]]}

Chosen(s) == CHOOSE x \in s : TRUE

SumStep(w, F, s) == IF s = {} THEN 0 ELSE w[Chosen(s)] + F[s \ {Chosen(s)}]

(* Of any subsets of a finite set there is one that contains no other.     *)
LEMMA SmallestSubset ==
  ASSUME NEW S, IsFiniteSet(S), NEW bad \in SUBSET (SUBSET S), bad # {}
  PROVE  \E s \in bad : \A t \in bad : t \subseteq s => t = s
<1>1. IsWellFoundedOn(StrictSubsetOrdering(S), SUBSET S)
  <2>1. IsWellFoundedOn(StrictSubsetOrdering(S), FiniteSubsetsOf(S))
    BY FS_StrictSubsetOrderingWellFounded
  <2>2. FiniteSubsetsOf(S) = SUBSET S
    BY FS_FiniteSubsetsOfFinite
  <2>. QED BY <2>1, <2>2
<1>2. PICK s \in bad : \A t \in bad : ~ (<<t, s>> \in StrictSubsetOrdering(S))
  BY <1>1, WFMin
<1>3. ASSUME NEW t \in bad, t \subseteq s PROVE t = s
  <2>1. <<t, s>> \in (SUBSET S) \X (SUBSET S)
    BY <1>2
  <2>. QED BY <1>2, <1>3, <2>1 DEF StrictSubsetOrdering
<1>. QED BY <1>2, <1>3

(* An element adds its weight to the units.                                *)
LEMMA UnitsAdd ==
  ASSUME NEW S, NEW w \in [S -> Nat], NEW s \in SUBSET S, NEW x \in s,
         IsFiniteSet(Units(w, s \ {x}))
  PROVE  /\ IsFiniteSet(Units(w, s))
         /\ Cardinality(Units(w, s)) = w[x] + Cardinality(Units(w, s \ {x}))
<1> DEFINE A == {x} \X (0 .. (w[x] - 1))
           B == Units(w, s \ {x})
<1>1. w[x] \in Nat
  OBVIOUS
<1>2. IsFiniteSet(A) /\ Cardinality(A) = w[x]
  <2> DEFINE c == w[x]
             X == {x}
             I == 0 .. (c - 1)
  <2>1. IsFiniteSet(X) /\ Cardinality(X) = 1
    BY FS_Singleton
  <2> HIDE DEF c, X
  <2>2. c \in Nat /\ 0 \in Int /\ c - 1 \in Int
    BY <1>1 DEF c
  <2>3. IsFiniteSet(I) /\ Cardinality(I) = IF 0 > c - 1 THEN 0 ELSE (c - 1) - 0 + 1
    BY <2>2, FS_Interval, Zenon
  <2> HIDE DEF I
  <2>4. Cardinality(I) = c
    BY <2>2, <2>3
  <2>5. IsFiniteSet(X \X I) /\ Cardinality(X \X I) = Cardinality(X) * Cardinality(I)
    BY <2>1, <2>3, FS_Product, Zenon
  <2>6. Cardinality(X \X I) = c
    BY <2>1, <2>2, <2>4, <2>5
  <2>. QED BY <2>5, <2>6 DEF X, I, c
<1>3. Units(w, s) = A \cup B
  <2>1. \A y, i : <<y, i>> \in A <=> y = x /\ i \in Nat /\ i < w[x]
    BY <1>1
  <2>. QED BY <2>1 DEF Units
<1>4. A \cap B = {}
  BY DEF Units
<1> HIDE DEF A, B
<1>5. IsFiniteSet(B) /\ Cardinality(B) \in Nat
  BY FS_CardinalityType DEF B
<1>6. Cardinality(A \cap B) = 0
  BY <1>4, FS_EmptySet
<1>7. IsFiniteSet(A \cup B) /\ Cardinality(A \cup B) = Cardinality(A) + Cardinality(B) - Cardinality(A \cap B)
  BY <1>2, <1>5, FS_Union
<1>. QED BY <1>1, <1>2, <1>3, <1>5, <1>6, <1>7 DEF B

(* They are as many as any function that adds up gives.                    *)
LEMMA UnitsAreSum ==
  ASSUME NEW S, IsFiniteSet(S), NEW w \in [S -> Nat],
         NEW F, \A s \in SUBSET S : F[s] = SumStep(w, F, s)
  PROVE  \A s \in SUBSET S : IsFiniteSet(Units(w, s)) /\ F[s] = Cardinality(Units(w, s))
<1> DEFINE Sums(s) == IsFiniteSet(Units(w, s)) /\ F[s] = Cardinality(Units(w, s))
           bad == {s \in SUBSET S : ~ Sums(s)}
<1>1. SUFFICES ASSUME bad # {} PROVE FALSE
  OBVIOUS
<1>2. PICK s \in bad : \A t \in bad : t \subseteq s => t = s
  <2>1. bad \in SUBSET (SUBSET S)
    OBVIOUS
  <2> HIDE DEF bad
  <2>. QED BY <1>1, <2>1, SmallestSubset
<1>3. s \in SUBSET S /\ ~ Sums(s) /\ F[s] = SumStep(w, F, s)
  BY <1>2
<1>4. CASE s = {}
  <2>1. Units(w, s) = {}
    BY <1>4 DEF Units
  <2>2. IsFiniteSet({}) /\ Cardinality({}) = 0
    BY FS_EmptySet
  <2>3. F[s] = 0
    BY <1>3, <1>4 DEF SumStep
  <2>. QED BY <1>3, <2>1, <2>2, <2>3
<1>5. CASE s # {}
  <2> DEFINE x == Chosen(s)
             t == s \ {x}
  <2>1. x \in s /\ F[s] = w[x] + F[t]
    BY <1>3, <1>5 DEF SumStep, Chosen
  <2>2. t \in SUBSET S /\ t \subseteq s /\ t # s
    BY <1>3, <2>1
  <2>3. Sums(t)
    BY <1>2, <2>2
  <2>4. /\ IsFiniteSet(Units(w, s))
        /\ Cardinality(Units(w, s)) = w[x] + Cardinality(Units(w, t))
    <3> HIDE DEF x
    <3>. QED BY <1>3, <2>1, <2>3, UnitsAdd
  <2>. QED BY <1>3, <2>1, <2>3, <2>4
<1>. QED BY <1>4, <1>5

(* Counting units adds up.                                                 *)
LEMMA UnitsAddUp ==
  ASSUME NEW S, IsFiniteSet(S), NEW w \in [S -> Nat]
  PROVE  LET F == [s \in SUBSET S |-> Cardinality(Units(w, s))]
         IN  F = [s \in SUBSET S |-> SumStep(w, F, s)]
<1> DEFINE F == [s \in SUBSET S |-> Cardinality(Units(w, s))]
           Finite(s) == IsFiniteSet(Units(w, s))
           bad == {s \in SUBSET S : ~ Finite(s)}
<1>1. ASSUME NEW s \in SUBSET S, s # {} PROVE Chosen(s) \in s /\ s \ {Chosen(s)} \in SUBSET S
  BY <1>1 DEF Chosen
<1>2. Units(w, {}) = {} /\ IsFiniteSet({}) /\ Cardinality({}) = 0
  BY FS_EmptySet DEF Units
<1>3. bad = {}
  <2>1. SUFFICES ASSUME bad # {} PROVE FALSE
    OBVIOUS
  <2>2. PICK s \in bad : \A t \in bad : t \subseteq s => t = s
    <3>1. bad \in SUBSET (SUBSET S)
      OBVIOUS
    <3> HIDE DEF bad
    <3>. QED BY <2>1, <3>1, SmallestSubset
  <2>3. s # {}
    BY <1>2, <2>2
  <2>4. s \ {Chosen(s)} \in SUBSET S /\ s \ {Chosen(s)} # s /\ Chosen(s) \in s
    BY <1>1, <2>2, <2>3
  <2>5. Finite(s \ {Chosen(s)})
    BY <2>2, <2>4
  <2>. QED BY <2>2, <2>4, <2>5, UnitsAdd
<1>4. ASSUME NEW s \in SUBSET S PROVE F[s] = SumStep(w, F, s)
  <2>1. CASE s = {}
    BY <1>2, <2>1 DEF SumStep
  <2>2. CASE s # {}
    <3>1. Chosen(s) \in s /\ s \ {Chosen(s)} \in SUBSET S
      BY <1>1, <2>2
    <3>2. Finite(s \ {Chosen(s)})
      BY <1>3, <3>1
    <3>3. Cardinality(Units(w, s)) = w[Chosen(s)] + Cardinality(Units(w, s \ {Chosen(s)}))
      BY <3>1, <3>2, UnitsAdd
    <3>. QED BY <2>2, <3>1, <3>3 DEF SumStep
  <2>. QED BY <2>1, <2>2
<1>. QED BY <1>4

HeapBytes(h) == MapThenSumSet(LAMBDA a : h[a].bytes, DOMAIN h)
SizeOf(h) == [a \in DOMAIN h |-> h[a].bytes]
Counted(h) == IsFiniteSet(DOMAIN h) /\ \A a \in DOMAIN h : h[a].bytes \in Nat

(* The bytes of a heap are the units of its sizes.                         *)
LEMMA HeapUnits ==
  ASSUME NEW h, Counted(h)
  PROVE  /\ HeapBytes(h) = Cardinality(Units(SizeOf(h), DOMAIN h)) /\ HeapBytes(h) \in Nat
         /\ IsFiniteSet(Units(SizeOf(h), DOMAIN h))
<1> DEFINE S == DOMAIN h
           w == SizeOf(h)
           Bytes(a) == h[a].bytes
           Step(F, s) == IF s = {} THEN 0 ELSE Bytes(Chosen(s)) + F[s \ {Chosen(s)}]
           Sum == CHOOSE F : F = [s \in SUBSET S |-> Step(F, s)]
           G == [s \in SUBSET S |-> Cardinality(Units(w, s))]
<1>1. w \in [S -> Nat] /\ IsFiniteSet(S)
  BY DEF Counted, SizeOf
<1>2. \A F : \A s \in SUBSET S : SumStep(w, F, s) = Step(F, s)
  <2>1. \A s \in SUBSET S : s # {} => Chosen(s) \in S
    BY DEF Chosen
  <2>. QED BY <2>1 DEF SumStep, SizeOf
<1>3. HeapBytes(h) = Sum[S]
  BY DEF HeapBytes, MapThenSumSet, MapThenFoldSet, Chosen
<1>4. G = [s \in SUBSET S |-> SumStep(w, G, s)]
  <2> HIDE DEF w
  <2>. QED BY <1>1, UnitsAddUp, SMTT(30)
<1> HIDE DEF w, Step, G
<1>5. G = [s \in SUBSET S |-> Step(G, s)]
  BY <1>2, <1>4
<1>6. Sum = [s \in SUBSET S |-> Step(Sum, s)]
  BY <1>5
<1> HIDE DEF Sum
<1>7. \A s \in SUBSET S : Sum[s] = SumStep(w, Sum, s)
  BY <1>2, <1>6
<1>8. IsFiniteSet(Units(w, S)) /\ Sum[S] = Cardinality(Units(w, S))
  BY <1>1, <1>7, UnitsAreSum
<1>9. Cardinality(Units(w, S)) \in Nat
  BY <1>8, FS_CardinalityType
<1>. QED BY <1>3, <1>8, <1>9 DEF w

(* One allocation more, that many bytes more.                              *)
LEMMA HeapAdds ==
  ASSUME NEW h, Counted(h), NEW g, NEW a, a \notin DOMAIN h, DOMAIN g = DOMAIN h \cup {a},
         g[a].bytes \in Nat, \A b \in DOMAIN h : g[b].bytes = h[b].bytes
  PROVE  Counted(g) /\ HeapBytes(g) = HeapBytes(h) + g[a].bytes
<1> DEFINE S == DOMAIN g
           w == SizeOf(g)
<1>1. Counted(g)
  <2>1. IsFiniteSet(DOMAIN g)
    BY FS_AddElement DEF Counted
  <2>. QED BY <2>1 DEF Counted
<1>2. Units(w, S \ {a}) = Units(SizeOf(h), DOMAIN h)
  <2>1. S \ {a} = DOMAIN h
    OBVIOUS
  <2>2. \A b \in DOMAIN h : w[b] = SizeOf(h)[b]
    BY DEF SizeOf
  <2> HIDE DEF w, S
  <2>. QED BY <2>1, <2>2 DEF Units
<1>3. w \in [S -> Nat] /\ a \in S /\ w[a] = g[a].bytes
  BY <1>1 DEF Counted, SizeOf
<1>4. IsFiniteSet(Units(w, S \ {a}))
  BY <1>2, HeapUnits
<1>5. Cardinality(Units(w, S)) = w[a] + Cardinality(Units(w, S \ {a}))
  <2> HIDE DEF w, S
  <2>. QED BY <1>3, <1>4, UnitsAdd
<1>6. HeapBytes(g) = Cardinality(Units(w, S))
  BY <1>1, HeapUnits
<1>7. HeapBytes(h) = Cardinality(Units(SizeOf(h), DOMAIN h)) /\ HeapBytes(h) \in Nat
  BY HeapUnits
<1>. QED BY <1>1, <1>2, <1>3, <1>5, <1>6, <1>7

(* What is written into it changes nothing.                                *)
LEMMA HeapSame ==
  ASSUME NEW h, Counted(h), NEW g, DOMAIN g = DOMAIN h, \A b \in DOMAIN h : g[b].bytes = h[b].bytes
  PROVE  Counted(g) /\ HeapBytes(g) = HeapBytes(h)
<1>1. Counted(g)
  BY DEF Counted
<1>2. SizeOf(g) = SizeOf(h)
  BY DEF SizeOf
<1>3. HeapBytes(g) = Cardinality(Units(SizeOf(g), DOMAIN g))
  BY <1>1, HeapUnits
<1>4. HeapBytes(h) = Cardinality(Units(SizeOf(h), DOMAIN h))
  BY HeapUnits
<1>. QED BY <1>1, <1>2, <1>3, <1>4

-----------------------------------------------------------------------------
(* Tensors and their memory.                                               *)

(* A memory has four fields, and no more.                                  *)
Fields == {"heap", "current", "balance", "obj"}
IsMemory(m) == m = [x \in Fields |-> m[x]]

(* Two memories with the same fields are the same.                         *)
LEMMA SameFields ==
  ASSUME NEW m, NEW k, IsMemory(m), IsMemory(k),
         m.heap = k.heap, m.current = k.current, m.balance = k.balance, m.obj = k.obj
  PROVE  m = k
<1>1. \A x \in Fields : m[x] = k[x]
  BY DEF Fields
<1>. QED BY <1>1 DEF IsMemory

(* Every allocation has one owner, which knows its size; the counters      *)
(* count the bytes of the heap.                                            *)
Whole(m) ==
  /\ IsMemory(m)
  /\ m.heap = [a \in DOMAIN m.heap |-> m.heap[a]] /\ DOMAIN m.heap \subseteq Addrs
  /\ \A a \in DOMAIN m.heap :
       DOMAIN m.heap[a] = {"bytes", "what"} /\ m.heap[a].bytes \in Nat
  /\ m.obj = [o \in DOMAIN m.obj |-> m.obj[o]] /\ IsFiniteSet(DOMAIN m.obj)
  /\ \A o \in DOMAIN m.obj : m.obj[o].data # Null => "data" \in DOMAIN m.obj[o]
  /\ \A o \in DOMAIN m.obj : m.obj[o].data # Null =>
       /\ m.obj[o].data \in DOMAIN m.heap
       /\ NumElements(m.obj[o].shape) = m.heap[m.obj[o].data].bytes
  /\ \A o, p \in DOMAIN m.obj :
       m.obj[o].data # Null /\ m.obj[o].data = m.obj[p].data => o = p
  /\ \A a \in DOMAIN m.heap : \E o \in DOMAIN m.obj : m.obj[o].data = a
  /\ m.current = HeapBytes(m.heap) /\ m.balance = HeapBytes(m.heap)

(* Object o is in k what it is in m.                                       *)
Same(m, k, o) ==
  /\ k.obj[o] = m.obj[o]
  /\ m.obj[o].data # Null => k.heap[m.obj[o].data] = m.heap[m.obj[o].data]

(* Memory m without the objects of s.                                      *)
HeapWithout(m, s) == [a \in DOMAIN m.heap \ {m.obj[o].data : o \in s} |-> m.heap[a]]
Without(m, s) ==
  [heap |-> HeapWithout(m, s), current |-> HeapBytes(HeapWithout(m, s)),
   balance |-> HeapBytes(HeapWithout(m, s)), obj |-> [o \in DOMAIN m.obj \ s |-> m.obj[o]]]

(* The heap of a whole memory can be counted, and no allocation is Null.   *)
LEMMA WholeCounted ==
  ASSUME NEW m, Whole(m)
  PROVE  /\ Counted(m.heap) /\ HeapBytes(m.heap) \in Nat
         /\ Null \notin DOMAIN m.heap
<1>1. IsFiniteSet(Addrs) /\ 0 \notin Addrs
  BY AddrsAssumption
<1>2. IsFiniteSet(DOMAIN m.heap)
  BY <1>1, FS_Subset DEF Whole
<1>3. Counted(m.heap)
  BY <1>2 DEF Whole, Counted
<1>. QED BY <1>1, <1>3, HeapUnits DEF Whole, Null

(* What is left without some objects is whole.                             *)
LEMMA WithoutWhole ==
  ASSUME NEW m, Whole(m), NEW s \in SUBSET (DOMAIN m.obj)
  PROVE  /\ Whole(Without(m, s)) /\ DOMAIN Without(m, s).obj = DOMAIN m.obj \ s
         /\ \A p \in DOMAIN m.obj \ s : Same(m, Without(m, s), p)
<1> DEFINE k == Without(m, s)
           h == HeapWithout(m, s)
<1>1. /\ k.heap = h /\ k.current = HeapBytes(h) /\ k.balance = HeapBytes(h)
      /\ k.obj = [o \in DOMAIN m.obj \ s |-> m.obj[o]]
      /\ IsMemory(k)
  BY DEF Without, IsMemory, Fields
<1>2. /\ DOMAIN h = DOMAIN m.heap \ {m.obj[o].data : o \in s}
      /\ \A a \in DOMAIN h : h[a] = m.heap[a]
      /\ h = [a \in DOMAIN h |-> h[a]]
  BY DEF HeapWithout
<1> HIDE DEF k, h
<1>3. DOMAIN k.obj = DOMAIN m.obj \ s /\ \A p \in DOMAIN m.obj \ s : k.obj[p] = m.obj[p]
  BY <1>1
<1>4. IsFiniteSet(DOMAIN k.obj)
  BY <1>3, FS_Subset DEF Whole
<1>5. \A o \in DOMAIN k.obj : k.obj[o].data # Null => k.obj[o].data \in DOMAIN h
  BY <1>2, <1>3 DEF Whole
<1>6. /\ k.heap = [a \in DOMAIN k.heap |-> k.heap[a]] /\ DOMAIN k.heap \subseteq Addrs
      /\ \A a \in DOMAIN k.heap :
           DOMAIN k.heap[a] = {"bytes", "what"} /\ k.heap[a].bytes \in Nat
  BY <1>1, <1>2 DEF Whole
<1>7. /\ k.obj = [o \in DOMAIN k.obj |-> k.obj[o]]
      /\ \A o \in DOMAIN k.obj : k.obj[o].data # Null => "data" \in DOMAIN k.obj[o]
  BY <1>1, <1>3 DEF Whole
<1>8. \A o \in DOMAIN k.obj : k.obj[o].data # Null =>
        NumElements(k.obj[o].shape) = k.heap[k.obj[o].data].bytes
  <2>1. SUFFICES ASSUME NEW o \in DOMAIN k.obj, k.obj[o].data # Null
                 PROVE  NumElements(k.obj[o].shape) = k.heap[k.obj[o].data].bytes
    OBVIOUS
  <2>2. k.obj[o] = m.obj[o] /\ o \in DOMAIN m.obj /\ k.obj[o].data \in DOMAIN h
    BY <1>3, <1>5, <2>1
  <2>3. NumElements(m.obj[o].shape) = m.heap[m.obj[o].data].bytes
    BY <2>1, <2>2 DEF Whole
  <2>4. k.heap[k.obj[o].data] = m.heap[m.obj[o].data]
    BY <1>1, <1>2, <2>2
  <2>. QED BY <2>2, <2>3, <2>4
<1>9. \A o, p \in DOMAIN k.obj :
        k.obj[o].data # Null /\ k.obj[o].data = k.obj[p].data => o = p
  BY <1>3 DEF Whole
<1>10. \A a \in DOMAIN k.heap : \E o \in DOMAIN k.obj : k.obj[o].data = a
  <2>1. SUFFICES ASSUME NEW a \in DOMAIN h PROVE \E o \in DOMAIN k.obj : k.obj[o].data = a
    BY <1>1
  <2>2. PICK o \in DOMAIN m.obj : m.obj[o].data = a
    BY <1>2 DEF Whole
  <2>3. o \notin s
    BY <1>2, <2>2
  <2>. QED BY <1>3, <2>2, <2>3
<1>11. Whole(k)
  BY <1>1, <1>4, <1>5, <1>6, <1>7, <1>8, <1>9, <1>10 DEF Whole
<1>12. \A p \in DOMAIN m.obj \ s : Same(m, k, p)
  BY <1>1, <1>2, <1>3, <1>5 DEF Same
<1>. QED BY <1>3, <1>11, <1>12 DEF k

(* Destroying an object takes it out of memory with what it owns.          *)
LEMMA DestroyIs ==
  ASSUME NEW m, Whole(m), NEW o \in DOMAIN m.obj
  PROVE  Destroy(m, o) = Without(m, {o})
<1> DEFINE a == m.obj[o].data
           h == HeapWithout(m, {o})
           b == NumElements(m.obj[o].shape)
<1>1. DOMAIN h = DOMAIN m.heap \ {a} /\ h = [x \in DOMAIN m.heap \ {a} |-> m.heap[x]]
  BY DEF HeapWithout
<1> DEFINE d == Destroy(m, o)
           k == Without(m, {o})
<1>0. /\ k.heap = h /\ k.current = HeapBytes(h) /\ k.balance = HeapBytes(h)
      /\ k.obj = [p \in DOMAIN m.obj \ {o} |-> m.obj[p]] /\ IsMemory(k)
  BY DEF Without, IsMemory, Fields
<1>2. CASE ~ Owned(m, o)
  <2>1. d = [m EXCEPT !.obj = [y \in DOMAIN m.obj \ {o} |-> m.obj[y]]]
    BY <1>2 DEF Destroy, Release, Drop
  <2>2. a = Null
    BY <1>2 DEF Owned
  <2>3. h = m.heap
    BY <1>1, <2>2, WholeCounted DEF Whole
  <2> HIDE DEF d
  <2>4. /\ d.heap = m.heap /\ d.current = m.current /\ d.balance = m.balance
        /\ d.obj = [y \in DOMAIN m.obj \ {o} |-> m.obj[y]] /\ IsMemory(d)
    BY <2>1 DEF Whole, IsMemory, Fields
  <2> HIDE DEF k, h
  <2>5. d = k
    BY <1>0, <2>3, <2>4, SameFields DEF Whole
  <2>. QED BY <2>5 DEF d, k
<1>3. CASE Owned(m, o)
  <2>1. a # Null /\ a \in DOMAIN m.heap /\ b = m.heap[a].bytes
    BY <1>3 DEF Owned, Whole
  <2>2. /\ HeapBytes(m.heap) = HeapBytes(h) + b /\ HeapBytes(h) \in Nat /\ b \in Nat
    <3>1. Counted(m.heap)
      BY WholeCounted
    <3>2. Counted(h)
      <4>1. IsFiniteSet(DOMAIN h)
        BY <1>1, <3>1, FS_Subset DEF Counted
      <4>. QED BY <1>1, <3>1, <4>1 DEF Counted
    <3>3. HeapBytes(m.heap) = HeapBytes(h) + m.heap[a].bytes
      <4>1. /\ a \notin DOMAIN h /\ DOMAIN m.heap = DOMAIN h \cup {a}
            /\ m.heap[a].bytes \in Nat /\ \A x \in DOMAIN h : m.heap[x].bytes = h[x].bytes
        BY <1>1, <2>1, <3>1 DEF Counted
      <4> HIDE DEF h, a
      <4>. QED BY <3>2, <4>1, HeapAdds
    <3>. QED BY <2>1, <3>1, <3>2, <3>3, HeapUnits DEF Counted
  <2> DEFINE R == RecordFree(m, b)
             r == [R EXCEPT !.heap = Drop(@, a), !.obj[o].data = Null]
  <2>3. d = [r EXCEPT !.obj = Drop(@, o)]
    BY <1>3 DEF Destroy, Release
  <2>4. /\ R.heap = m.heap /\ R.obj = m.obj /\ R.current = HeapBytes(h)
        /\ R.balance = HeapBytes(h) /\ IsMemory(R)
    <3> DEFINE H == HeapBytes(h)
    <3> HIDE DEF H, b, h
    <3>1. /\ R.heap = m.heap /\ R.obj = m.obj /\ R.balance = m.balance - b
          /\ R.current = IF m.current >= b THEN m.current - b ELSE 0
          /\ IsMemory(R)
      <4>1. DOMAIN m = Fields
        BY DEF Whole, IsMemory
      <4>2. R = [m EXCEPT !.current = IF m.current >= b THEN m.current - b ELSE 0,
                          !.balance = m.balance - b]
        BY DEF RecordFree
      <4> DEFINE c == IF m.current >= b THEN m.current - b ELSE 0
                 l == m.balance - b
      <4> HIDE DEF R, c, l
      <4>3. /\ R.heap = m.heap /\ R.obj = m.obj /\ R.balance = l /\ R.current = c
            /\ DOMAIN R = Fields /\ R = [x \in Fields |-> R[x]]
        BY <4>1, <4>2 DEF Fields, c, l
      <4>. QED BY <4>3 DEF IsMemory, c, l
    <3>2. m.current = H + b /\ m.balance = H + b
      BY <2>2 DEF Whole, H
    <3>3. H \in Nat /\ b \in Nat
      BY <2>2 DEF H
    <3> HIDE DEF R
    <3>4. R.current = H /\ R.balance = H
      BY <3>1, <3>2, <3>3
    <3>. QED BY <3>1, <3>4 DEF H
  <2>5. Drop(m.heap, a) = h
    BY <1>1 DEF Drop
  <2> HIDE DEF h, a, b, R
  <2>6. /\ r.heap = h /\ r.current = HeapBytes(h) /\ r.balance = HeapBytes(h)
        /\ r.obj = [m.obj EXCEPT ![o].data = Null] /\ IsMemory(r)
    BY <2>4, <2>5 DEF IsMemory, Fields
  <2> HIDE DEF r
  <2>7. Drop(r.obj, o) = [p \in DOMAIN m.obj \ {o} |-> m.obj[p]]
    BY <2>6 DEF Drop
  <2> HIDE DEF d, k
  <2>8. /\ d.heap = h /\ d.current = HeapBytes(h) /\ d.balance = HeapBytes(h)
        /\ d.obj = [p \in DOMAIN m.obj \ {o} |-> m.obj[p]] /\ IsMemory(d)
    BY <2>3, <2>6, <2>7 DEF IsMemory, Fields
  <2>9. d = k
    BY <1>0, <2>8, SameFields
  <2>. QED BY <2>9 DEF d, k
<1>. QED BY <1>2, <1>3

(* A tensor that is constructed owns memory of its own.                    *)
LEMMA Constructs ==
  ASSUME NEW m, Whole(m), NEW o, o \notin DOMAIN m.obj, NEW shape, NEW dtype,
         NumElements(shape) \in Nat \ {0}, Unused(m) # {}
  PROVE  LET k == Construct(m, o, shape, dtype)
         IN  /\ Whole(k) /\ DOMAIN k.obj = DOMAIN m.obj \cup {o}
             /\ k.obj[o].shape = shape /\ k.obj[o].data # Null
             /\ \A p \in DOMAIN m.obj : Same(m, k, p)
<1> DEFINE k == Construct(m, o, shape, dtype)
           a == Min(Unused(m))
           b == NumElements(shape)
           x == [data |-> a, shape |-> shape, dtype |-> dtype]
           y == [bytes |-> b, what |-> Unset]
           h == HeapBytes(m.heap)
<1>1. a \in Addrs /\ a \notin DOMAIN m.heap /\ a # Null
  <2>1. Unused(m) \in SUBSET Nat /\ Unused(m) \subseteq Addrs /\ 0 \notin Addrs
    BY AddrsAssumption DEF Unused
  <2>2. Min(Unused(m)) \in Unused(m)
    BY <2>1, LeastExists
  <2>. QED BY <2>1, <2>2 DEF Unused, Null
<1>2. b \in Nat /\ b # 0
  OBVIOUS
<1>3. Counted(m.heap) /\ h \in Nat
  BY WholeCounted
<1>4. /\ m.current = h /\ m.balance = h /\ DOMAIN m = Fields
  BY DEF Whole, IsMemory
<1>5. /\ k.heap = [z \in DOMAIN m.heap \cup {a} |-> IF z = a THEN y ELSE m.heap[z]]
      /\ k.obj = [p \in DOMAIN m.obj \cup {o} |-> IF p = o THEN x ELSE m.obj[p]]
      /\ k.current = h + b /\ k.balance = h + b
      /\ IsMemory(k)
  <2> DEFINE n == [m EXCEPT !.obj = Put(@, o, x), !.heap = Put(@, a, y)]
  <2>1. k = RecordAllocate(n, b)
    BY <1>2 DEF Construct
  <2> HIDE DEF a, b, x, y, h
  <2>2. /\ n.heap = Put(m.heap, a, y) /\ n.obj = Put(m.obj, o, x)
        /\ n.current = h /\ n.balance = h /\ DOMAIN n = Fields
    BY <1>4 DEF Fields
  <2> HIDE DEF n, k
  <2>3. /\ k.heap = n.heap /\ k.obj = n.obj /\ k.current = h + b /\ k.balance = h + b
        /\ k = [z \in Fields |-> k[z]]
    BY <2>1, <2>2 DEF RecordAllocate, Fields
  <2>. QED BY <2>2, <2>3 DEF Put, IsMemory
<1>6. x.data = a /\ x.shape = shape /\ "data" \in DOMAIN x
  OBVIOUS
<1>7. y.bytes = b /\ DOMAIN y = {"bytes", "what"}
  OBVIOUS
<1> HIDE DEF k, a, x, y
<1>8. /\ DOMAIN k.heap = DOMAIN m.heap \cup {a} /\ k.heap[a] = y
      /\ \A z \in DOMAIN m.heap : k.heap[z] = m.heap[z]
  BY <1>1, <1>5
<1>9. /\ DOMAIN k.obj = DOMAIN m.obj \cup {o} /\ k.obj[o] = x
      /\ \A p \in DOMAIN m.obj : k.obj[p] = m.obj[p]
  BY <1>5
<1>10. HeapBytes(k.heap) = h + b
  <2>1. HeapBytes(k.heap) = HeapBytes(m.heap) + k.heap[a].bytes
    <3> DEFINE g == k.heap
               f == m.heap
    <3>1. /\ Counted(f) /\ a \notin DOMAIN f /\ DOMAIN g = DOMAIN f \cup {a}
          /\ g[a].bytes \in Nat /\ \A z \in DOMAIN f : g[z].bytes = f[z].bytes
      BY <1>1, <1>2, <1>3, <1>7, <1>8
    <3> HIDE DEF f, g
    <3>2. HeapBytes(g) = HeapBytes(f) + g[a].bytes
      BY <3>1, HeapAdds
    <3>. QED BY <3>2 DEF f, g
  <2>. QED BY <1>7, <1>8, <2>1
<1>11. \A p \in DOMAIN m.obj : m.obj[p].data # a
  BY <1>1 DEF Whole
<1>12. /\ k.heap = [z \in DOMAIN k.heap |-> k.heap[z]] /\ DOMAIN k.heap \subseteq Addrs
       /\ \A z \in DOMAIN k.heap : DOMAIN k.heap[z] = {"bytes", "what"} /\ k.heap[z].bytes \in Nat
  <2>1. k.heap = [z \in DOMAIN k.heap |-> k.heap[z]]
    BY <1>5
  <2>. QED BY <1>1, <1>2, <1>7, <1>8, <2>1 DEF Whole
<1>13. /\ k.obj = [p \in DOMAIN k.obj |-> k.obj[p]] /\ IsFiniteSet(DOMAIN k.obj)
       /\ \A p \in DOMAIN k.obj : k.obj[p].data # Null => "data" \in DOMAIN k.obj[p]
  <2>1. k.obj = [p \in DOMAIN k.obj |-> k.obj[p]]
    BY <1>5
  <2>2. IsFiniteSet(DOMAIN k.obj)
    BY <1>9, FS_AddElement DEF Whole
  <2>. QED BY <1>6, <1>9, <2>1, <2>2 DEF Whole
<1>14. \A p \in DOMAIN k.obj : k.obj[p].data # Null =>
         /\ k.obj[p].data \in DOMAIN k.heap
         /\ NumElements(k.obj[p].shape) = k.heap[k.obj[p].data].bytes
  BY <1>6, <1>7, <1>8, <1>9 DEF Whole
<1>15. \A p, q \in DOMAIN k.obj :
         k.obj[p].data # Null /\ k.obj[p].data = k.obj[q].data => p = q
  BY <1>6, <1>9, <1>11 DEF Whole
<1>16. \A z \in DOMAIN k.heap : \E p \in DOMAIN k.obj : k.obj[p].data = z
  BY <1>6, <1>8, <1>9 DEF Whole
<1>17. Whole(k)
  BY <1>5, <1>10, <1>12, <1>13, <1>14, <1>15, <1>16 DEF Whole
<1>18. \A p \in DOMAIN m.obj : Same(m, k, p)
  BY <1>8, <1>9 DEF Same, Whole
<1>. QED BY <1>1, <1>6, <1>9, <1>17, <1>18 DEF k

(* What is written to a tensor is written to no other.                     *)
LEMMA Fills ==
  ASSUME NEW m, Whole(m), NEW o \in DOMAIN m.obj, m.obj[o].data # Null, NEW what
  PROVE  LET k == Fill(m, o, what)
         IN  /\ Whole(k) /\ k.obj = m.obj /\ Contents(k, o) = what
             /\ \A p \in DOMAIN m.obj \ {o} : Same(m, k, p)
<1> DEFINE k == Fill(m, o, what)
           a == m.obj[o].data
<1>1. a \in DOMAIN m.heap /\ DOMAIN m.heap[a] = {"bytes", "what"} /\ DOMAIN m = Fields
  BY DEF Whole, IsMemory
<1>2. k.obj = m.obj /\ k.current = m.current /\ k.balance = m.balance /\ IsMemory(k)
  BY <1>1 DEF Fill, IsMemory, Fields
<1>3. k.heap = [m.heap EXCEPT ![a] = [m.heap[a] EXCEPT !.what = what]]
  BY <1>1 DEF Fill, Fields
<1> HIDE DEF k, a
<1>4. /\ DOMAIN k.heap = DOMAIN m.heap /\ k.heap[a].what = what
      /\ k.heap = [z \in DOMAIN k.heap |-> k.heap[z]]
      /\ \A z \in DOMAIN m.heap : z # a => k.heap[z] = m.heap[z]
      /\ k.heap[a].bytes = m.heap[a].bytes /\ DOMAIN k.heap[a] = DOMAIN m.heap[a]
  BY <1>1, <1>3
<1>5. HeapBytes(k.heap) = HeapBytes(m.heap)
  <2>1. Counted(m.heap) /\ \A z \in DOMAIN m.heap : k.heap[z].bytes = m.heap[z].bytes
    BY <1>4, WholeCounted
  <2>. QED BY <1>4, <2>1, HeapSame
<1>6. Whole(k)
  <2>1. \A z \in DOMAIN k.heap : DOMAIN k.heap[z] = {"bytes", "what"} /\ k.heap[z].bytes \in Nat
    BY <1>4 DEF Whole
  <2>2. \A p \in DOMAIN k.obj : k.obj[p].data # Null =>
          /\ k.obj[p].data \in DOMAIN k.heap
          /\ NumElements(k.obj[p].shape) = k.heap[k.obj[p].data].bytes
    BY <1>2, <1>4 DEF Whole
  <2>. QED BY <1>2, <1>4, <1>5, <2>1, <2>2 DEF Whole
<1>7. \A p \in DOMAIN m.obj \ {o} : Same(m, k, p)
  <2>1. \A p \in DOMAIN m.obj \ {o} :
          m.obj[p].data # Null => m.obj[p].data \in DOMAIN m.heap /\ m.obj[p].data # a
    BY DEF Whole, a
  <2>. QED BY <1>2, <1>4, <2>1 DEF Same
<1>8. Contents(k, o) = what
  BY <1>2, <1>4 DEF Contents, a
<1>. QED BY <1>2, <1>6, <1>7, <1>8 DEF k

(* A move hands on what the source owned to a target that owns nothing.    *)
LEMMA Moves ==
  ASSUME NEW m, Whole(m), NEW src \in DOMAIN m.obj, NEW dst, dst # src, ~ Owned(m, dst)
  PROVE  LET k == Moved(m, dst, src)
         IN  /\ Whole(k) /\ DOMAIN k.obj = DOMAIN m.obj \cup {dst} /\ k.heap = m.heap
             /\ k.obj[dst] = m.obj[src] /\ k.obj[src].data = Null
             /\ \A p \in DOMAIN m.obj \ {src, dst} : k.obj[p] = m.obj[p]
<1> DEFINE k == Moved(m, dst, src)
<1>1. DOMAIN m = Fields
  BY DEF Whole, IsMemory
<1>2. k.heap = m.heap /\ k.current = m.current /\ k.balance = m.balance /\ IsMemory(k)
  BY <1>1 DEF Moved, IsMemory, Fields
<1>3. k.obj = [p \in DOMAIN k.obj |-> k.obj[p]]
  BY <1>1 DEF Moved, Fields, Put
<1>4. /\ DOMAIN k.obj = DOMAIN m.obj \cup {dst} /\ k.obj[dst] = m.obj[src]
      /\ \A p \in DOMAIN m.obj \ {src, dst} : k.obj[p] = m.obj[p]
  BY <1>1 DEF Moved, Fields, Put
<1>0. k.obj[src].data = Null
  <2>1. m.obj[src].data # Null => "data" \in DOMAIN m.obj[src]
    BY DEF Whole
  <2>. QED BY <1>1, <2>1 DEF Moved, Fields, Put
<1> HIDE DEF k
<1>5. IsFiniteSet(DOMAIN k.obj)
  <2>1. IsFiniteSet(DOMAIN m.obj)
    BY DEF Whole
  <2>2. IsFiniteSet(DOMAIN m.obj \cup {dst})
    BY <2>1, FS_AddElement
  <2>. QED BY <1>4, <2>2
<1>6. \A p \in DOMAIN k.obj : p = src \/ p = dst \/ p \in DOMAIN m.obj \ {src, dst}
  BY <1>4
<1>7. \A p \in DOMAIN k.obj : k.obj[p].data # Null =>
           /\ "data" \in DOMAIN k.obj[p] /\ k.obj[p].data \in DOMAIN k.heap
           /\ NumElements(k.obj[p].shape) = k.heap[k.obj[p].data].bytes
  <2>1. SUFFICES ASSUME NEW p \in DOMAIN k.obj, k.obj[p].data # Null
                 PROVE  /\ "data" \in DOMAIN k.obj[p] /\ k.obj[p].data \in DOMAIN k.heap
                        /\ NumElements(k.obj[p].shape) = k.heap[k.obj[p].data].bytes
    OBVIOUS
  <2>2. PICK q \in DOMAIN m.obj : k.obj[p] = m.obj[q]
    BY <1>0, <1>4, <1>6, <2>1
  <2>3. /\ "data" \in DOMAIN m.obj[q] /\ m.obj[q].data \in DOMAIN m.heap
        /\ NumElements(m.obj[q].shape) = m.heap[m.obj[q].data].bytes
    BY <2>1, <2>2 DEF Whole
  <2>. QED BY <1>2, <2>2, <2>3
<1>8. \A p, q \in DOMAIN k.obj :
        k.obj[p].data # Null /\ k.obj[p].data = k.obj[q].data => p = q
  BY <1>0, <1>4, <1>6 DEF Whole
<1>9. \A z \in DOMAIN k.heap : \E p \in DOMAIN k.obj : k.obj[p].data = z
  <2>1. SUFFICES ASSUME NEW z \in DOMAIN m.heap PROVE \E p \in DOMAIN k.obj : k.obj[p].data = z
    BY <1>2
  <2>2. PICK p \in DOMAIN m.obj : m.obj[p].data = z
    BY DEF Whole
  <2>3. p # dst
    BY <2>2, WholeCounted DEF Owned
  <2>. QED BY <1>4, <2>2, <2>3
<1>10. Whole(k)
  BY <1>2, <1>3, <1>5, <1>7, <1>8, <1>9 DEF Whole
<1>. QED BY <1>0, <1>2, <1>4, <1>10 DEF k

(* Releasing an object leaves it there, with nothing.                      *)
LEMMA Releases ==
  ASSUME NEW m, Whole(m), NEW o \in DOMAIN m.obj
  PROVE  LET k == Release(m, o)
         IN  /\ Whole(k) /\ DOMAIN k.obj = DOMAIN m.obj /\ k.obj[o].data = Null
             /\ \A p \in DOMAIN m.obj \ {o} : Same(m, k, p)
<1> DEFINE k == Release(m, o)
           d == Destroy(m, o)
<1>1. CASE ~ Owned(m, o)
  <2>1. k = m /\ m.obj[o].data = Null
    BY <1>1 DEF Release, Owned
  <2>. QED BY <2>1 DEF Same
<1>2. CASE Owned(m, o)
  <2> DEFINE a == m.obj[o].data
             b == NumElements(m.obj[o].shape)
             R == RecordFree(m, b)
  <2>1. d = Without(m, {o})
    BY DestroyIs
  <2>2. /\ Whole(d) /\ DOMAIN d.obj = DOMAIN m.obj \ {o}
        /\ \A p \in DOMAIN m.obj \ {o} : Same(m, d, p)
    BY <2>1, WithoutWhole
  <2>3. DOMAIN m = Fields /\ "data" \in DOMAIN m.obj[o]
    BY <1>2 DEF Whole, IsMemory, Owned
  <2>4. /\ R.heap = m.heap /\ R.obj = m.obj /\ DOMAIN R = Fields
    BY <2>3 DEF RecordFree, Fields
  <2>5. k = [R EXCEPT !.heap = Drop(m.heap, a), !.obj[o].data = Null]
    <3> HIDE DEF R, a, b
    <3>. QED BY <1>2, <2>4 DEF Release, R, a, b
  <2> HIDE DEF R, k
  <2>6. /\ k.obj = [m.obj EXCEPT ![o].data = Null] /\ IsMemory(k)
    BY <2>4, <2>5 DEF Fields, IsMemory
  <2>7. d = [k EXCEPT !.obj = Drop(@, o)]
    BY DEF Destroy, k
  <2> HIDE DEF d
  <2>8. /\ d.heap = k.heap /\ d.current = k.current /\ d.balance = k.balance
        /\ d.obj = [p \in DOMAIN m.obj \ {o} |-> m.obj[p]]
    BY <2>6, <2>7 DEF Fields, IsMemory, Drop
  <2>9. /\ DOMAIN k.obj = DOMAIN m.obj /\ k.obj[o].data = Null
        /\ k.obj = [p \in DOMAIN k.obj |-> k.obj[p]]
        /\ \A p \in DOMAIN m.obj \ {o} : k.obj[p] = d.obj[p]
    BY <2>3, <2>6, <2>8
  <2>10. Whole(k)
    <3>1. \A p \in DOMAIN k.obj : k.obj[p].data # Null =>
               /\ "data" \in DOMAIN k.obj[p] /\ k.obj[p].data \in DOMAIN k.heap
               /\ NumElements(k.obj[p].shape) = k.heap[k.obj[p].data].bytes
      <4>1. SUFFICES ASSUME NEW p \in DOMAIN k.obj, k.obj[p].data # Null
                     PROVE  /\ "data" \in DOMAIN k.obj[p] /\ k.obj[p].data \in DOMAIN k.heap
                            /\ NumElements(k.obj[p].shape) = k.heap[k.obj[p].data].bytes
        OBVIOUS
      <4>2. p \in DOMAIN d.obj /\ k.obj[p] = d.obj[p]
        BY <2>2, <2>9, <4>1
      <4>3. /\ "data" \in DOMAIN d.obj[p] /\ d.obj[p].data \in DOMAIN d.heap
            /\ NumElements(d.obj[p].shape) = d.heap[d.obj[p].data].bytes
        BY <2>2, <4>1, <4>2 DEF Whole
      <4>. QED BY <2>8, <4>2, <4>3
    <3>2. \A p, q \in DOMAIN k.obj :
            k.obj[p].data # Null /\ k.obj[p].data = k.obj[q].data => p = q
      BY <2>2, <2>9 DEF Whole
    <3>3. \A z \in DOMAIN k.heap : \E p \in DOMAIN k.obj : k.obj[p].data = z
      <4>1. SUFFICES ASSUME NEW z \in DOMAIN d.heap PROVE \E p \in DOMAIN k.obj : k.obj[p].data = z
        BY <2>8
      <4>2. PICK p \in DOMAIN d.obj : d.obj[p].data = z
        BY <2>2 DEF Whole
      <4>. QED BY <2>2, <2>9, <4>2
    <3>4. IsFiniteSet(DOMAIN k.obj)
      BY <2>9 DEF Whole
    <3>5. /\ k.heap = [y \in DOMAIN k.heap |-> k.heap[y]] /\ DOMAIN k.heap \subseteq Addrs
          /\ \A y \in DOMAIN k.heap :
               DOMAIN k.heap[y] = {"bytes", "what"} /\ k.heap[y].bytes \in Nat
      <4>1. /\ d.heap = [y \in DOMAIN d.heap |-> d.heap[y]] /\ DOMAIN d.heap \subseteq Addrs
            /\ \A y \in DOMAIN d.heap :
                 DOMAIN d.heap[y] = {"bytes", "what"} /\ d.heap[y].bytes \in Nat
        BY <2>2 DEF Whole
      <4>. QED BY <2>8, <4>1
    <3>6. k.current = HeapBytes(k.heap) /\ k.balance = HeapBytes(k.heap)
      BY <2>2, <2>8 DEF Whole
    <3>7. \A p \in DOMAIN k.obj : k.obj[p].data # Null => "data" \in DOMAIN k.obj[p]
      BY <3>1
    <3>. QED BY <2>6, <2>9, <3>1, <3>2, <3>3, <3>4, <3>5, <3>6, <3>7 DEF Whole
  <2>11. \A p \in DOMAIN m.obj \ {o} : Same(m, k, p)
    BY <2>2, <2>8, <2>9 DEF Same
  <2>. QED BY <2>9, <2>10, <2>11 DEF k
<1>. QED BY <1>1, <1>2

(* A destroyed object is gone, the others are what they were.              *)
LEMMA Destroys ==
  ASSUME NEW m, Whole(m), NEW o \in DOMAIN m.obj
  PROVE  LET k == Destroy(m, o)
         IN  /\ Whole(k) /\ DOMAIN k.obj = DOMAIN m.obj \ {o}
             /\ \A p \in DOMAIN m.obj \ {o} : Same(m, k, p)
<1>1. {o} \in SUBSET (DOMAIN m.obj)
  OBVIOUS
<1>2. Destroy(m, o) = Without(m, {o})
  BY DestroyIs
<1>3. LET k == Without(m, {o})
      IN  /\ Whole(k) /\ DOMAIN k.obj = DOMAIN m.obj \ {o}
          /\ \A p \in DOMAIN m.obj \ {o} : Same(m, k, p)
  BY <1>1, WithoutWhole
<1>. QED BY <1>2, <1>3

(* Moving into an object releases what it had.                             *)
LEMMA MoveAssigns ==
  ASSUME NEW m, Whole(m), NEW src \in DOMAIN m.obj, NEW dst \in DOMAIN m.obj, dst # src
  PROVE  LET k == MoveAssign(m, dst, src)
         IN  /\ Whole(k) /\ DOMAIN k.obj = DOMAIN m.obj
             /\ k.obj[dst] = m.obj[src] /\ k.obj[src].data = Null
             /\ m.obj[src].data # Null => k.heap[m.obj[src].data] = m.heap[m.obj[src].data]
             /\ \A p \in DOMAIN m.obj \ {src, dst} : Same(m, k, p)
<1> DEFINE r == Release(m, dst)
           k == Moved(r, dst, src)
<1>1. MoveAssign(m, dst, src) = k
  BY DEF MoveAssign
<1>2. /\ Whole(r) /\ DOMAIN r.obj = DOMAIN m.obj /\ r.obj[dst].data = Null
      /\ \A p \in DOMAIN m.obj \ {dst} : Same(m, r, p)
  BY Releases
<1> HIDE DEF r
<1>3. ~ Owned(r, dst) /\ src \in DOMAIN r.obj
  BY <1>2 DEF Owned
<1>4. /\ Whole(k) /\ DOMAIN k.obj = DOMAIN r.obj \cup {dst} /\ k.heap = r.heap
      /\ k.obj[dst] = r.obj[src] /\ k.obj[src].data = Null
      /\ \A p \in DOMAIN r.obj \ {src, dst} : k.obj[p] = r.obj[p]
  BY <1>2, <1>3, Moves
<1> HIDE DEF k
<1>5. Same(m, r, src)
  BY <1>2
<1>6. \A p \in DOMAIN m.obj \ {src, dst} : Same(m, k, p)
  BY <1>2, <1>4 DEF Same
<1>. QED BY <1>1, <1>2, <1>4, <1>5, <1>6 DEF Same

(* Two removals are one of both.                                           *)
LEMMA WithoutBoth ==
  ASSUME NEW m, Whole(m), NEW s \in SUBSET (DOMAIN m.obj), NEW o \in DOMAIN m.obj \ s
  PROVE  Destroy(Without(m, s), o) = Without(m, s \cup {o})
<1> DEFINE n == Without(m, s)
           k == Without(n, {o})
           j == Without(m, s \cup {o})
<1>1. Whole(n) /\ o \in DOMAIN n.obj
  BY WithoutWhole
<1>2. Destroy(n, o) = k
  <2> HIDE DEF n
  <2>. QED BY <1>1, DestroyIs
<1>3. /\ n.heap = HeapWithout(m, s) /\ n.obj = [p \in DOMAIN m.obj \ s |-> m.obj[p]]
  BY DEF Without
<1>4. n.obj[o] = m.obj[o]
  BY <1>3
<1>5. HeapWithout(n, {o}) = HeapWithout(m, s \cup {o})
  <2> DEFINE S == {m.obj[p].data : p \in s}
             a == m.obj[o].data
  <2>1. {n.obj[p].data : p \in {o}} = {a}
    BY <1>4
  <2>2. {m.obj[p].data : p \in s \cup {o}} = S \cup {a}
    OBVIOUS
  <2>3. n.heap = [x \in DOMAIN m.heap \ S |-> m.heap[x]]
    BY <1>3 DEF HeapWithout
  <2> HIDE DEF S, a, n
  <2>4. HeapWithout(n, {o}) = [x \in DOMAIN n.heap \ {a} |-> n.heap[x]]
    BY <2>1 DEF HeapWithout
  <2>5. HeapWithout(m, s \cup {o}) = [x \in DOMAIN m.heap \ (S \cup {a}) |-> m.heap[x]]
    BY <2>2 DEF HeapWithout
  <2>. QED BY <2>3, <2>4, <2>5
<1>6. [p \in DOMAIN n.obj \ {o} |-> n.obj[p]] = [p \in DOMAIN m.obj \ (s \cup {o}) |-> m.obj[p]]
  <2> HIDE DEF n
  <2>. QED BY <1>3
<1>7. k = j
  <2> HIDE DEF n
  <2>. QED BY <1>5, <1>6 DEF Without
<1>. QED BY <1>2, <1>7

(* Whatever the order, destroying some objects leaves the others.          *)
LEMMA DestroysAll ==
  ASSUME NEW m, Whole(m), NEW os \in SUBSET (DOMAIN m.obj)
  PROVE  LET k == DestroyAll(m, os)
         IN  /\ Whole(k) /\ DOMAIN k.obj = DOMAIN m.obj \ os
             /\ \A p \in DOMAIN m.obj \ os : Same(m, k, p)
<1> DEFINE Step(f, s) == IF s = {} THEN m ELSE Destroy(f[s \ {Chosen(s)}], Chosen(s))
           iter == CHOOSE f : f = [s \in SUBSET os |-> Step(f, s)]
           G == [s \in SUBSET os |-> Without(m, s)]
<1>1. DestroyAll(m, os) = iter[os]
  BY DEF DestroyAll, FoldSet, MapThenFoldSet, Chosen
<1>2. ASSUME NEW s \in SUBSET os, s # {}
      PROVE  /\ Chosen(s) \in s /\ s \ {Chosen(s)} \in SUBSET os
             /\ Destroy(Without(m, s \ {Chosen(s)}), Chosen(s)) = Without(m, s)
  <2>1. Chosen(s) \in s
    BY <1>2 DEF Chosen
  <2>2. /\ s \ {Chosen(s)} \in SUBSET (DOMAIN m.obj)
        /\ Chosen(s) \in DOMAIN m.obj \ (s \ {Chosen(s)})
        /\ (s \ {Chosen(s)}) \cup {Chosen(s)} = s
    BY <2>1
  <2>3. Destroy(Without(m, s \ {Chosen(s)}), Chosen(s))
          = Without(m, (s \ {Chosen(s)}) \cup {Chosen(s)})
    BY <2>2, WithoutBoth
  <2>. QED BY <2>1, <2>2, <2>3
<1>3. Without(m, {}) = m
  <2> DEFINE k == Without(m, {})
  <2>1. HeapWithout(m, {}) = m.heap
    BY DEF HeapWithout, Whole
  <2>2. m.obj = [p \in DOMAIN m.obj |-> m.obj[p]] /\ DOMAIN m.obj \ {} = DOMAIN m.obj
    BY DEF Whole
  <2>3. k.heap = m.heap /\ k.current = m.current /\ k.balance = m.balance /\ IsMemory(k)
    BY <2>1 DEF Whole, Without, IsMemory, Fields
  <2>4. k.obj = m.obj
    BY <2>2 DEF Without
  <2> HIDE DEF k
  <2>5. k = m
    BY <2>3, <2>4, SameFields DEF Whole
  <2>. QED BY <2>5 DEF k
<1>4. G = [s \in SUBSET os |-> Step(G, s)]
  <2>1. SUFFICES ASSUME NEW s \in SUBSET os PROVE Without(m, s) = Step(G, s)
    OBVIOUS
  <2>2. CASE s = {}
    BY <1>3, <2>2
  <2>3. CASE s # {}
    BY <1>2, <2>3
  <2>. QED BY <2>2, <2>3
<1>5. iter = [s \in SUBSET os |-> Step(iter, s)]
  <2> HIDE DEF G, Step
  <2>. QED BY <1>4
<1> HIDE DEF iter
<1>6. \A s \in SUBSET os : iter[s] = Without(m, s)
  <2> DEFINE bad == {s \in SUBSET os : iter[s] # Without(m, s)}
  <2>1. SUFFICES ASSUME bad # {} PROVE FALSE
    OBVIOUS
  <2>2. PICK s \in bad : \A t \in bad : t \subseteq s => t = s
    <3>1. bad \in SUBSET (SUBSET os)
      OBVIOUS
    <3>2. IsFiniteSet(os)
      BY FS_Subset DEF Whole
    <3> HIDE DEF bad
    <3>. QED BY <2>1, <3>1, <3>2, SmallestSubset
  <2>3. iter[s] = Step(iter, s) /\ s \in SUBSET os /\ iter[s] # Without(m, s)
    BY <1>5, <2>2
  <2>4. CASE s = {}
    BY <1>3, <2>3, <2>4
  <2>5. CASE s # {}
    <3> DEFINE t == s \ {Chosen(s)}
    <3>1. t \in SUBSET os /\ t \subseteq s /\ t # s
      BY <1>2, <2>3, <2>5
    <3>2. iter[t] = Without(m, t)
      BY <2>2, <3>1
    <3>3. iter[s] = Destroy(iter[t], Chosen(s))
      BY <2>3, <2>5
    <3>. QED BY <1>2, <2>3, <2>5, <3>2, <3>3
  <2>. QED BY <2>4, <2>5
<1>7. DestroyAll(m, os) = Without(m, os)
  BY <1>1, <1>6
<1>. QED BY <1>7, WithoutWhole

-----------------------------------------------------------------------------
(* Objects and weights.                                                    *)

(* The weights in the map of memory m.                                     *)
Held(m) == {n \in NameSet \cup {Unknown} : HasWeight(m, n)}
InMaps(s) == {InMap(n) : n \in s}
Slots == {Slot(n) : n \in NameSet}

(* A whole memory of the model's layers and of a map.                      *)
Placed(m) == Whole(m) /\ DOMAIN m.obj = Slots \cup InMaps(Held(m))

(* Object o of memory m is the weight n of the directory d, load v.        *)
Holds(m, o, n, d, v) ==
  /\ m.obj[o].data # Null /\ Contents(m, o) = <<n, v>>
  /\ m.obj[o].shape = EntryShape(d, n)

(* What is the same holds the same.                                        *)
LEMMA HoldsStill ==
  ASSUME NEW m, NEW k, NEW o, Same(m, k, o), NEW n, NEW d, NEW v, Holds(m, o, n, d, v)
  PROVE  Holds(k, o, n, d, v)
BY DEF Holds, Same, Contents

(* Every object has one name.                                              *)
LEMMA ObjectsDiffer ==
  /\ \A n, k : InMap(n) = InMap(k) => n = k
  /\ \A n, k : Slot(n) = Slot(k) => n = k
  /\ \A n, k : InMap(n) # Slot(k)
  /\ \A n : InMap(n) # Local /\ Slot(n) # Local
  /\ \A n : InMap(n)[1] = "map" /\ Slot(n)[1] # "map"
  /\ Local[1] # "map"
<1>1. \A n, k : InMap(n) = InMap(k) => n = k
  <2>1. SUFFICES ASSUME NEW n, NEW k, InMap(n) = InMap(k) PROVE n = k
    OBVIOUS
  <2>2. InMap(n)[2] = n /\ InMap(k)[2] = k
    BY DEF InMap
  <2>. QED BY <2>1, <2>2
<1>2. \A n, k : Slot(n) = Slot(k) => n = k
  <2>1. SUFFICES ASSUME NEW n, NEW k, Slot(n) = Slot(k) PROVE n = k
    OBVIOUS
  <2>2. Slot(n)[2] = n /\ Slot(k)[2] = k
    BY DEF Slot
  <2>. QED BY <2>1, <2>2
<1>3. \A n : InMap(n)[1] = "map" /\ Slot(n)[1] = "slot"
  BY DEF InMap, Slot
<1>4. Local[1] = "local"
  BY DEF Local
<1>5. "map" # "slot" /\ "map" # "local" /\ "slot" # "local"
  OBVIOUS
<1>6. \A n, k : InMap(n) # Slot(k)
  BY <1>3, <1>5
<1>7. \A n : InMap(n) # Local /\ Slot(n) # Local
  BY <1>3, <1>4, <1>5
<1>. QED BY <1>1, <1>2, <1>3, <1>4, <1>5, <1>6, <1>7

(* The map of a memory, from its objects.                                  *)
LEMMA HeldIs ==
  ASSUME NEW m, NEW s \in SUBSET (NameSet \cup {Unknown}), NEW rest,
         DOMAIN m.obj = Slots \cup InMaps(s) \cup rest, rest \subseteq {Local}
  PROVE  Held(m) = s /\ MapObjects(m) = InMaps(s)
<1>1. \A n : HasWeight(m, n) => n \in s
  <2>1. SUFFICES ASSUME NEW n, InMap(n) \in DOMAIN m.obj PROVE n \in s
    BY DEF HasWeight
  <2>2. InMap(n) \notin Slots /\ InMap(n) \notin rest
    BY ObjectsDiffer DEF Slots
  <2>3. InMap(n) \in InMaps(s)
    BY <2>1, <2>2
  <2>. QED BY <2>3, ObjectsDiffer DEF InMaps
<1>2. \A n \in s : HasWeight(m, n)
  BY DEF HasWeight, InMaps
<1>3. Held(m) = s
  BY <1>1, <1>2 DEF Held
<1>4. \A o \in InMaps(s) : o[1] = "map"
  BY ObjectsDiffer DEF InMaps
<1>5. \A o \in Slots \cup rest : o[1] # "map"
  BY ObjectsDiffer DEF Slots
<1>6. MapObjects(m) = InMaps(s)
  BY <1>4, <1>5 DEF MapObjects
<1>. QED BY <1>3, <1>6

(* A whole memory of layers and a map is placed.                           *)
LEMMA PlacedIs ==
  ASSUME NEW m, Whole(m), NEW s \in SUBSET (NameSet \cup {Unknown}),
         DOMAIN m.obj = Slots \cup InMaps(s)
  PROVE  Placed(m) /\ Held(m) = s
<1> DEFINE rest == {}
<1>1. rest \subseteq {Local} /\ DOMAIN m.obj = Slots \cup InMaps(s) \cup rest
  OBVIOUS
<1> HIDE DEF rest
<1>2. Held(m) = s
  BY <1>1, HeldIs, Zenon
<1>. QED BY <1>2 DEF Placed

(* An exception takes the map and the tensor in hand with it; so does the  *)
(* end of the scope of a map.                                              *)
LEMMA Unwinds ==
  ASSUME NEW m, Whole(m), NEW s \in SUBSET (NameSet \cup {Unknown}), NEW rest,
         DOMAIN m.obj = Slots \cup InMaps(s) \cup rest, rest \subseteq {Local}
  PROVE  /\ Placed(Unwound(m)) /\ Held(Unwound(m)) = {}
         /\ rest = {} => /\ Placed(DestroyAll(m, MapObjects(m)))
                         /\ Held(DestroyAll(m, MapObjects(m))) = {}
<1>1. MapObjects(m) = InMaps(s)
  BY HeldIs
<1>2. /\ InMaps(s) \cap Slots = {} /\ Local \notin Slots /\ Local \notin InMaps(s)
  BY ObjectsDiffer DEF InMaps, Slots
<1>3. ASSUME NEW os \in SUBSET (DOMAIN m.obj), DOMAIN m.obj \ os = Slots
      PROVE  Placed(DestroyAll(m, os)) /\ Held(DestroyAll(m, os)) = {}
  <2> DEFINE k == DestroyAll(m, os)
  <2>1. Whole(k) /\ DOMAIN k.obj = DOMAIN m.obj \ os
    BY DestroysAll
  <2> HIDE DEF k
  <2>2. InMaps({}) = {}
    BY DEF InMaps
  <2>3. DOMAIN k.obj = Slots \cup InMaps({})
    BY <1>3, <2>1, <2>2
  <2>. QED BY <2>1, <2>3, PlacedIs DEF k
<1> DEFINE os == MapObjects(m) \cup (DOMAIN m.obj \cap {Local})
<1>4. os \in SUBSET (DOMAIN m.obj) /\ DOMAIN m.obj \ os = Slots
  BY <1>1, <1>2
<1>5. Unwound(m) = DestroyAll(m, os)
  BY DEF Unwound
<1>6. rest = {} => MapObjects(m) \in SUBSET (DOMAIN m.obj) /\ DOMAIN m.obj \ MapObjects(m) = Slots
  BY <1>1, <1>2
<1> HIDE DEF os
<1>. QED BY <1>3, <1>4, <1>5, <1>6

(* The tensor of an entry is read into memory of its own.                  *)
LEMMA EntryRead ==
  ASSUME NEW m, Placed(m), Unused(m) # {}, NEW d, d.name \in NameSet, NEW v,
         NEW n \in NameSet \cup {Unknown}
  PROVE  LET k == Fill(Construct(m, Local, EntryShape(d, n), "FP32"), Local, <<n, v>>)
         IN  /\ Whole(k) /\ DOMAIN k.obj = DOMAIN m.obj \cup {Local}
             /\ Holds(k, Local, n, d, v) /\ \A o \in DOMAIN m.obj : Same(m, k, o)
<1> DEFINE c == Construct(m, Local, EntryShape(d, n), "FP32")
           k == Fill(c, Local, <<n, v>>)
<1>1. Local \notin DOMAIN m.obj
  BY ObjectsDiffer DEF Placed, Slots, InMaps
<1>2. NumElements(EntryShape(d, n)) \in Nat \ {0}
  BY EntryShapes, ElementsPositive
<1>3. /\ Whole(c) /\ DOMAIN c.obj = DOMAIN m.obj \cup {Local}
      /\ c.obj[Local].shape = EntryShape(d, n) /\ c.obj[Local].data # Null
      /\ \A o \in DOMAIN m.obj : Same(m, c, o)
  BY <1>1, <1>2, Constructs DEF Placed
<1> HIDE DEF c
<1>4. /\ Whole(k) /\ k.obj = c.obj /\ Contents(k, Local) = <<n, v>>
      /\ \A o \in DOMAIN c.obj \ {Local} : Same(c, k, o)
  BY <1>3, Fills
<1> HIDE DEF k
<1>5. \A o \in DOMAIN m.obj : Same(m, k, o)
  BY <1>1, <1>3, <1>4 DEF Same
<1>6. Holds(k, Local, n, d, v)
  BY <1>3, <1>4 DEF Holds
<1>. QED BY <1>3, <1>4, <1>5, <1>6 DEF c, k

(* WeightMap::add keeps it there.                                          *)
LEMMA Adds ==
  ASSUME NEW m, Placed(m), Unused(m) # {}, NEW d, d.name \in NameSet, NEW v,
         NEW n \in NameSet \cup {Unknown}, ~ HasWeight(m, n)
  PROVE  LET r == Fill(Construct(m, Local, EntryShape(d, n), "FP32"), Local, <<n, v>>)
             k == Destroy(Moved(r, InMap(n), Local), Local)
         IN  /\ Placed(k) /\ Held(k) = Held(m) \cup {n}
             /\ Holds(k, InMap(n), n, d, v)
             /\ \A o \in DOMAIN m.obj : Same(m, k, o)
<1> DEFINE r == Fill(Construct(m, Local, EntryShape(d, n), "FP32"), Local, <<n, v>>)
           j == Moved(r, InMap(n), Local)
           k == Destroy(j, Local)
<1>1. /\ Whole(r) /\ DOMAIN r.obj = DOMAIN m.obj \cup {Local}
      /\ Holds(r, Local, n, d, v) /\ \A o \in DOMAIN m.obj : Same(m, r, o)
  BY EntryRead
<1>2. /\ Local \notin DOMAIN m.obj /\ InMap(n) \notin DOMAIN m.obj /\ InMap(n) # Local
  BY ObjectsDiffer DEF Placed, Slots, InMaps, HasWeight
<1> HIDE DEF r
<1>3. ~ Owned(r, InMap(n)) /\ Local \in DOMAIN r.obj
  BY <1>1, <1>2 DEF Owned
<1>4. /\ Whole(j) /\ DOMAIN j.obj = DOMAIN r.obj \cup {InMap(n)} /\ j.heap = r.heap
      /\ j.obj[InMap(n)] = r.obj[Local] /\ j.obj[Local].data = Null
      /\ \A p \in DOMAIN r.obj \ {Local, InMap(n)} : j.obj[p] = r.obj[p]
  BY <1>1, <1>2, <1>3, Moves
<1> HIDE DEF j
<1>5. /\ Whole(k) /\ DOMAIN k.obj = DOMAIN j.obj \ {Local}
      /\ \A p \in DOMAIN j.obj \ {Local} : Same(j, k, p)
  BY <1>1, <1>4, Destroys
<1> HIDE DEF k
<1>6. DOMAIN k.obj = DOMAIN m.obj \cup {InMap(n)}
  BY <1>1, <1>2, <1>4, <1>5
<1>7. \A o \in DOMAIN m.obj : Same(m, k, o)
  <2>1. SUFFICES ASSUME NEW o \in DOMAIN m.obj PROVE Same(m, k, o)
    OBVIOUS
  <2>2. Same(m, r, o) /\ j.obj[o] = r.obj[o] /\ j.heap = r.heap /\ Same(j, k, o)
    BY <1>1, <1>2, <1>4, <1>5
  <2>. QED BY <2>2 DEF Same
<1>8. Holds(k, InMap(n), n, d, v)
  <2>1. Holds(j, InMap(n), n, d, v)
    BY <1>1, <1>4 DEF Holds, Contents
  <2>2. Same(j, k, InMap(n))
    BY <1>2, <1>4, <1>5
  <2>. QED BY <2>1, <2>2, HoldsStill
<1>9. Placed(k) /\ Held(k) = Held(m) \cup {n}
  <2> DEFINE s == Held(m) \cup {n}
  <2>1. s \in SUBSET (NameSet \cup {Unknown}) /\ InMaps(s) = InMaps(Held(m)) \cup {InMap(n)}
    BY DEF Held, InMaps
  <2> HIDE DEF s
  <2>2. DOMAIN k.obj = Slots \cup InMaps(s)
    BY <1>6, <2>1 DEF Placed
  <2>. QED BY <1>5, <2>1, <2>2, PlacedIs DEF s
<1>. QED BY <1>7, <1>8, <1>9 DEF r, j, k

(* WeightMap::take leaves the tensor in the hands of its caller.           *)
LEMMA TakesOut ==
  ASSUME NEW m, Placed(m), NEW n, HasWeight(m, n)
  PROVE  LET k == Taken(m, n)
         IN  /\ Whole(k) /\ DOMAIN k.obj = (DOMAIN m.obj \ {InMap(n)}) \cup {Local}
             /\ k.heap = m.heap /\ k.obj[Local] = m.obj[InMap(n)]
             /\ \A p \in DOMAIN m.obj \ {InMap(n)} : k.obj[p] = m.obj[p]
<1> DEFINE j == Moved(m, Local, InMap(n))
           k == Destroy(j, InMap(n))
<1>1. /\ Whole(m) /\ InMap(n) \in DOMAIN m.obj /\ Local \notin DOMAIN m.obj
      /\ Local # InMap(n)
  BY ObjectsDiffer DEF Placed, Slots, InMaps, HasWeight
<1>2. ~ Owned(m, Local)
  BY <1>1 DEF Owned
<1>3. /\ Whole(j) /\ DOMAIN j.obj = DOMAIN m.obj \cup {Local} /\ j.heap = m.heap
      /\ j.obj[Local] = m.obj[InMap(n)] /\ j.obj[InMap(n)].data = Null
      /\ \A p \in DOMAIN m.obj \ {InMap(n), Local} : j.obj[p] = m.obj[p]
  BY <1>1, <1>2, Moves
<1>4. Taken(m, n) = [j EXCEPT !.obj = Drop(@, InMap(n))]
  BY DEF Taken
<1> HIDE DEF j
<1>5. k = [j EXCEPT !.obj = Drop(@, InMap(n))]
  BY <1>3 DEF Destroy, Release, Owned
<1>6. Whole(k) /\ DOMAIN k.obj = DOMAIN j.obj \ {InMap(n)}
  <2>1. InMap(n) \in DOMAIN j.obj
    BY <1>1, <1>3
  <2>. QED BY <1>3, <2>1, Destroys
<1> HIDE DEF k
<1>7. k.heap = j.heap /\ \A p \in DOMAIN j.obj \ {InMap(n)} : k.obj[p] = j.obj[p]
  BY <1>3, <1>5 DEF Drop, Whole, IsMemory, Fields
<1>8. Taken(m, n) = k
  BY <1>4, <1>5
<1>. QED BY <1>1, <1>3, <1>6, <1>7, <1>8

(* What is not taken further dies with the exception.                      *)
LEMMA TakenDies ==
  ASSUME NEW m, Placed(m), NEW n \in NameSet \cup {Unknown}, HasWeight(m, n)
  PROVE  LET k == Destroy(Taken(m, n), Local)
         IN  /\ Placed(k) /\ Held(k) = Held(m) \ {n}
             /\ \A o \in DOMAIN m.obj \ {InMap(n)} : Same(m, k, o)
<1> DEFINE j == Taken(m, n)
           k == Destroy(j, Local)
<1>1. /\ Whole(j) /\ DOMAIN j.obj = (DOMAIN m.obj \ {InMap(n)}) \cup {Local}
      /\ j.heap = m.heap /\ j.obj[Local] = m.obj[InMap(n)]
      /\ \A p \in DOMAIN m.obj \ {InMap(n)} : j.obj[p] = m.obj[p]
  BY TakesOut
<1>2. Local \notin DOMAIN m.obj
  BY ObjectsDiffer DEF Placed, Slots, InMaps
<1> HIDE DEF j
<1>3. /\ Whole(k) /\ DOMAIN k.obj = DOMAIN j.obj \ {Local}
      /\ \A p \in DOMAIN j.obj \ {Local} : Same(j, k, p)
  BY <1>1, Destroys
<1> HIDE DEF k
<1>4. DOMAIN k.obj = DOMAIN m.obj \ {InMap(n)}
  BY <1>1, <1>2, <1>3
<1>5. \A o \in DOMAIN m.obj \ {InMap(n)} : Same(m, k, o)
  BY <1>1, <1>2, <1>3 DEF Same
<1>6. Placed(k) /\ Held(k) = Held(m) \ {n}
  <2> DEFINE s == Held(m) \ {n}
  <2>1. s \in SUBSET (NameSet \cup {Unknown}) /\ InMaps(s) = InMaps(Held(m)) \ {InMap(n)}
    BY ObjectsDiffer DEF Held, InMaps
  <2>2. InMap(n) \notin Slots
    BY ObjectsDiffer DEF Slots
  <2> HIDE DEF s
  <2>3. DOMAIN k.obj = Slots \cup InMaps(s)
    BY <1>4, <2>1, <2>2 DEF Placed
  <2>. QED BY <1>3, <2>1, <2>3, PlacedIs DEF s
<1>. QED BY <1>5, <1>6 DEF j, k

(* load_weight of a layer moves it in, in place of what was there.         *)
LEMMA TakesIn ==
  ASSUME NEW m, Placed(m), NEW n \in NameSet, HasWeight(m, n), NEW d, NEW v,
         Holds(m, InMap(n), n, d, v)
  PROVE  LET k == Destroy(MoveAssign(Taken(m, n), Slot(n), Local), Local)
         IN  /\ Placed(k) /\ Held(k) = Held(m) \ {n} /\ Holds(k, Slot(n), n, d, v)
             /\ \A o \in DOMAIN m.obj \ {InMap(n), Slot(n)} : Same(m, k, o)
<1> DEFINE t == Taken(m, n)
           j == MoveAssign(t, Slot(n), Local)
           k == Destroy(j, Local)
<1>1. /\ Whole(t) /\ DOMAIN t.obj = (DOMAIN m.obj \ {InMap(n)}) \cup {Local}
      /\ t.heap = m.heap /\ t.obj[Local] = m.obj[InMap(n)]
      /\ \A p \in DOMAIN m.obj \ {InMap(n)} : t.obj[p] = m.obj[p]
  BY TakesOut
<1>2. /\ Local \notin DOMAIN m.obj /\ Slot(n) \in DOMAIN m.obj
      /\ Slot(n) # InMap(n) /\ Slot(n) # Local /\ InMap(n) # Local
  BY ObjectsDiffer DEF Placed, Slots, InMaps
<1> HIDE DEF t
<1>3. /\ Whole(j) /\ DOMAIN j.obj = DOMAIN t.obj
      /\ j.obj[Slot(n)] = t.obj[Local] /\ j.obj[Local].data = Null
      /\ t.obj[Local].data # Null => j.heap[t.obj[Local].data] = t.heap[t.obj[Local].data]
      /\ \A p \in DOMAIN t.obj \ {Local, Slot(n)} : Same(t, j, p)
  BY <1>1, <1>2, MoveAssigns
<1> HIDE DEF j
<1>4. /\ Whole(k) /\ DOMAIN k.obj = DOMAIN j.obj \ {Local}
      /\ \A p \in DOMAIN j.obj \ {Local} : Same(j, k, p)
  BY <1>1, <1>3, Destroys
<1> HIDE DEF k
<1>5. DOMAIN k.obj = DOMAIN m.obj \ {InMap(n)}
  BY <1>1, <1>2, <1>3, <1>4
<1>6. \A o \in DOMAIN m.obj \ {InMap(n), Slot(n)} : Same(m, k, o)
  <2>1. SUFFICES ASSUME NEW o \in DOMAIN m.obj \ {InMap(n), Slot(n)} PROVE Same(m, k, o)
    OBVIOUS
  <2>2. Same(t, j, o) /\ t.obj[o] = m.obj[o] /\ t.heap = m.heap /\ Same(j, k, o)
    BY <1>1, <1>2, <1>3, <1>4
  <2>. QED BY <2>2 DEF Same
<1>7. Holds(k, Slot(n), n, d, v)
  <2>1. Holds(j, Slot(n), n, d, v)
    BY <1>1, <1>3 DEF Holds, Contents
  <2>2. Same(j, k, Slot(n))
    BY <1>1, <1>2, <1>3, <1>4
  <2>. QED BY <2>1, <2>2, HoldsStill
<1>8. Placed(k) /\ Held(k) = Held(m) \ {n}
  <2> DEFINE s == Held(m) \ {n}
  <2>1. s \in SUBSET (NameSet \cup {Unknown}) /\ InMaps(s) = InMaps(Held(m)) \ {InMap(n)}
    BY ObjectsDiffer DEF Held, InMaps
  <2>2. InMap(n) \notin Slots
    BY ObjectsDiffer DEF Slots
  <2> HIDE DEF s
  <2>3. DOMAIN k.obj = Slots \cup InMaps(s)
    BY <1>5, <2>1, <2>2 DEF Placed
  <2>. QED BY <1>4, <2>1, <2>3, PlacedIs DEF s
<1>. QED BY <1>6, <1>7, <1>8 DEF t, j, k

-----------------------------------------------------------------------------
(* Loading.  The weights in the map are entries of the directory; a read   *)
(* has put there the entries up to its own, and a load has moved those its *)
(* plan took so far into their layers, where the checks so far found them  *)
(* right.  Left alone by any failure before, nothing else is missing.      *)
LoadTypes ==
  /\ asked.name \in NameSet /\ loads \in Nat /\ Placed(mem)
  /\ call = [fn |-> call.fn, at |-> call.at] /\ call.fn \in {"none", "read", "load"}
  /\ call.fn # "none" <=> outcome = "running"

MapHolds ==
  \A n \in Held(mem) : Holds(mem, InMap(n), n, asked, loads) /\ n \in EntrySet(asked)

ReadSoFar ==
  call.fn = "read" =>
    /\ call.at \in 1 .. (Len(Entries(asked)) + 1)
    /\ Held(mem) = {Entries(asked)[i] : i \in 1 .. (call.at - 1)}

(* The layer of n has its weight.                                          *)
Arrived(n) == Holds(mem, Slot(n), n, asked, loads) /\ n \in EntrySet(asked) \ Held(mem)

Took(p) == {n \in NameSet : \E q \in 1 .. (p - 1) : Plan[q] = TakeOf(n)}

LoadedSoFar ==
  call.fn = "load" =>
    /\ call.at \in 1 .. (Len(Plan) + 1)
    /\ \A n \in Took(call.at) : Arrived(n)
    /\ \A p \in 1 .. (call.at - 1) : Plan[p].op = "check" => Fit(Plan[p].names)
    /\ ~ again => Held(mem) = EntrySet(asked) \ Took(call.at)
    /\ EntrySet(asked) \ NameSet \subseteq Held(mem)

AfterRead ==
  /\ outcome \in {"none", "unread", "no memory", "dropped", "ready"} => Held(mem) = {}
  /\ outcome = "read" => Held(mem) = EntrySet(asked)

AfterLoad ==
  /\ outcome \in {"failed", "loaded", "ready", "refused"} =>
       EntrySet(asked) \ NameSet \subseteq Held(mem)
  /\ outcome \in {"loaded", "ready", "refused"} =>
       \A n \in NameSet : Arrived(n) /\ (n[2] \notin LayerNorms => Fit({n}))

LoadInv ==
  LoadTypes /\ MapHolds /\ ReadSoFar /\ LoadedSoFar /\ AfterRead /\ AfterLoad /\ RefusedForCause

(* Nothing of a load outlives an exception of the read.                    *)
LEMMA ReadEnds ==
  ASSUME LoadInv, Placed(mem'), Held(mem') = {}, UNCHANGED <<asked, loads>>,
         NEW how \in {"unread", "no memory"}, End(how),
         how = "unread" => asked.kind \in {"duplicate", "unparsable", "unreadable"}
  PROVE  LoadInv'
<1>1. /\ call' = [fn |-> "none", at |-> 0] /\ outcome' = how
      /\ asked' = asked /\ loads' = loads
  BY DEF End, Idle
<1>2. LoadTypes'
  BY <1>1 DEF LoadInv, LoadTypes
<1>3. MapHolds' /\ ReadSoFar' /\ LoadedSoFar' /\ AfterRead' /\ AfterLoad'
  BY <1>1 DEF MapHolds, ReadSoFar, LoadedSoFar, AfterRead, AfterLoad
<1>4. RefusedForCause'
  BY <1>1 DEF RefusedForCause
<1>. QED BY <1>2, <1>3, <1>4 DEF LoadInv

(* A load that fails leaves in the map what it did not take.               *)
LEMMA LoadEnds ==
  ASSUME LoadInv, Placed(mem'), MapHolds', UNCHANGED <<asked, loads, again>>, End("failed"),
         EntrySet(asked) \ NameSet \subseteq Held(mem'),
         \/ again
         \/ asked.kind \in {"missing", "malformed"}
         \/ asked.kind = "misfit" /\ asked.name[2] \notin LayerNorms
  PROVE  LoadInv'
<1>1. /\ call' = [fn |-> "none", at |-> 0] /\ outcome' = "failed"
      /\ asked' = asked /\ loads' = loads /\ again' = again
  BY DEF End, Idle
<1>2. LoadTypes'
  BY <1>1 DEF LoadInv, LoadTypes
<1>3. ReadSoFar' /\ LoadedSoFar' /\ AfterRead' /\ AfterLoad'
  BY <1>1 DEF ReadSoFar, LoadedSoFar, AfterRead, AfterLoad
<1>4. RefusedForCause'
  BY <1>1 DEF RefusedForCause
<1>. QED BY <1>2, <1>3, <1>4 DEF LoadInv

(* The objects there are while a map is read.                              *)
LEMMA WhileReading ==
  ASSUME LoadInv, Reading
  PROVE  /\ outcome = "running" /\ call.at \in 1 .. Len(Entries(asked))
         /\ asked.name \in NameSet /\ Placed(mem)
         /\ Entry \in NameSet \cup {Unknown} /\ Entry \in EntrySet(asked)
         /\ Held(mem) = {Entries(asked)[i] : i \in 1 .. (call.at - 1)}
         /\ Held(mem) \in SUBSET (NameSet \cup {Unknown})
         /\ HasWeight(mem, Entry) => asked.kind = "duplicate"
<1> DEFINE e == Entries(asked)
<1>1. /\ outcome = "running" /\ call.fn = "read" /\ asked.name \in NameSet /\ Placed(mem)
  BY DEF LoadInv, LoadTypes, Reading
<1>2. /\ e \in Seq(NameSet \cup {Unknown})
      /\ \A p \in 1 .. Len(e) : e[p] \in EntrySet(asked)
      /\ asked.kind # "duplicate" => \A p, q \in 1 .. Len(e) : e[p] = e[q] => p = q
  BY <1>1, EntriesAre
<1>3. /\ call.at \in 1 .. (Len(e) + 1) /\ call.at <= Len(e)
      /\ Held(mem) = {e[i] : i \in 1 .. (call.at - 1)}
  BY <1>1 DEF LoadInv, ReadSoFar, Reading
<1>4. Entry = e[call.at]
  BY DEF Entry
<1> HIDE DEF e
<1>5. Len(e) \in Nat
  BY <1>2
<1>6. call.at \in 1 .. Len(e)
  BY <1>3, <1>5
<1>7. e[call.at] \in NameSet \cup {Unknown}
  BY <1>2, <1>6
<1>8. ASSUME HasWeight(mem, Entry) PROVE asked.kind = "duplicate"
  <2>1. Entry \in Held(mem)
    BY <1>4, <1>7, <1>8 DEF Held
  <2>2. PICK i \in 1 .. (call.at - 1) : e[i] = e[call.at]
    BY <1>3, <1>4, <2>1
  <2>3. i \in 1 .. Len(e) /\ i # call.at
    BY <1>5, <1>6
  <2>. QED BY <1>2, <1>6, <2>2, <2>3
<1>9. Held(mem) \in SUBSET (NameSet \cup {Unknown})
  BY DEF Held
<1>. QED BY <1>1, <1>2, <1>3, <1>4, <1>6, <1>7, <1>8, <1>9 DEF e

(* A read that fails on an entry before there is a tensor.                 *)
LEMMA UnwoundMap ==
  ASSUME NEW m, Placed(m)
  PROVE  Placed(Unwound(m)) /\ Held(Unwound(m)) = {}
<1> DEFINE s == Held(m)
           rest == {}
<1>1. /\ s \in SUBSET (NameSet \cup {Unknown}) /\ rest \subseteq {Local} /\ Whole(m)
      /\ DOMAIN m.obj = Slots \cup InMaps(s) \cup rest
  BY DEF Held, Placed
<1> HIDE DEF s, rest
<1>. QED BY <1>1, Unwinds

(* The same of the end of the scope of a map.                              *)
LEMMA DroppedMap ==
  ASSUME NEW m, Placed(m)
  PROVE  /\ Placed(DestroyAll(m, MapObjects(m)))
         /\ Held(DestroyAll(m, MapObjects(m))) = {}
<1> DEFINE s == Held(m)
           rest == {}
<1>1. /\ s \in SUBSET (NameSet \cup {Unknown}) /\ rest \subseteq {Local} /\ Whole(m)
      /\ DOMAIN m.obj = Slots \cup InMaps(s) \cup rest /\ rest = {}
  BY DEF Held, Placed
<1> HIDE DEF s, rest
<1>. QED BY <1>1, Unwinds

(* Another directory, once the map of the last is gone.                    *)
LEMMA LoadDirectoryKeeps ==
  ASSUME LoadInv, NEW d, d.name \in NameSet, LoadDirectory(d)
  PROVE  LoadInv'
<1>1. /\ call = Idle /\ outcome \in {"none", "unread", "no memory", "dropped"}
      /\ asked' = d /\ loads' = loads + 1 /\ call' = [fn |-> "read", at |-> 1]
      /\ outcome' = "running" /\ mem' = mem
  BY DEF LoadDirectory
<1>2. Held(mem) = {}
  BY <1>1 DEF LoadInv, AfterRead
<1>7. call' = [fn |-> call'.fn, at |-> call'.at] /\ call'.fn = "read" /\ call'.at = 1
  BY <1>1
<1>3. LoadTypes'
  <2>1. loads \in Nat /\ Placed(mem)
    BY DEF LoadInv, LoadTypes
  <2>2. loads' \in Nat
    <3>1. loads' = loads + 1
      BY <1>1, Zenon
    <3>. QED BY <2>1, <3>1
  <2>4. asked'.name \in NameSet
    BY <1>1, Zenon
  <2>3. Placed(mem')
    BY <1>1, <2>1
  <2>. QED BY <1>1, <1>7, <2>2, <2>3, <2>4 DEF LoadTypes
<1>4. Len(Entries(d)) \in Nat
  BY EntriesAre
<1>5. ReadSoFar'
  <2>1. 1 \in 1 .. (Len(Entries(d)) + 1) /\ 1 .. (1 - 1) = {}
    BY <1>4
  <2>2. Held(mem') = {Entries(d)[i] : i \in 1 .. (1 - 1)}
    BY <1>1, <1>2, <2>1
  <2>. QED BY <1>1, <1>7, <2>1, <2>2 DEF ReadSoFar
<1>6. MapHolds' /\ LoadedSoFar' /\ AfterRead' /\ AfterLoad' /\ RefusedForCause'
  BY <1>1, <1>2 DEF MapHolds, LoadedSoFar, AfterRead, AfterLoad, RefusedForCause
<1>. QED BY <1>3, <1>5, <1>6 DEF LoadInv

(* Dtype or shape do not parse.                                           *)
LEMMA RejectEntryKeeps ==
  ASSUME LoadInv, RejectEntry
  PROVE  LoadInv'
<1>1. /\ Reading /\ Wrong("unparsable") /\ mem' = Unwound(mem) /\ End("unread")
      /\ UNCHANGED <<asked, loads>>
  BY DEF RejectEntry
<1>2. Placed(mem') /\ Held(mem') = {}
  BY <1>1, WhileReading, UnwoundMap
<1>. QED BY <1>1, <1>2, ReadEnds DEF Wrong

(* There is no memory for the tensor of an entry.                          *)
LEMMA AllocationFailsKeeps ==
  ASSUME LoadInv, AllocationFails
  PROVE  LoadInv'
<1>1. /\ Reading /\ mem' = Unwound(mem) /\ End("no memory") /\ UNCHANGED <<asked, loads>>
  BY DEF AllocationFails
<1>2. Placed(mem') /\ Held(mem') = {}
  BY <1>1, WhileReading, UnwoundMap
<1>. QED BY <1>1, <1>2, ReadEnds

(* Its file is not right, or its name is there already.                    *)
LEMMA RejectTensorKeeps ==
  ASSUME LoadInv, RejectTensor
  PROVE  LoadInv'
<1> DEFINE r == ReadTensor
           s == Held(mem)
           rest == {Local}
<1>1. /\ Reading /\ Unused(mem) # {} /\ mem' = Unwound(r) /\ End("unread")
      /\ UNCHANGED <<asked, loads>> /\ (Wrong("unreadable") \/ HasWeight(mem, Entry))
  BY DEF RejectTensor, Room
<1>2. /\ asked.name \in NameSet /\ Placed(mem) /\ Entry \in NameSet \cup {Unknown}
      /\ s \in SUBSET (NameSet \cup {Unknown})
      /\ HasWeight(mem, Entry) => asked.kind = "duplicate"
  BY <1>1, WhileReading
<1>3. Whole(r) /\ DOMAIN r.obj = DOMAIN mem.obj \cup {Local}
  BY <1>1, <1>2, EntryRead DEF ReadTensor
<1>4. DOMAIN r.obj = Slots \cup InMaps(s) \cup rest /\ rest \subseteq {Local}
  BY <1>2, <1>3 DEF Placed
<1> HIDE DEF r, s, rest
<1>5. Placed(mem') /\ Held(mem') = {}
  BY <1>1, <1>2, <1>3, <1>4, Unwinds
<1>6. asked.kind \in {"duplicate", "unparsable", "unreadable"}
  BY <1>1, <1>2 DEF Wrong
<1>. QED BY <1>1, <1>5, <1>6, ReadEnds

(* The next step of the function under way.                                *)
LEMMA CallAdvances ==
  ASSUME LoadInv, call' = [call EXCEPT !.at = @ + 1]
  PROVE  call' = [fn |-> call'.fn, at |-> call'.at] /\ call'.fn = call.fn /\ call'.at = call.at + 1
<1>1. call = [fn |-> call.fn, at |-> call.at]
  BY DEF LoadInv, LoadTypes
<1> DEFINE f == call.fn
           p == call.at
<1> HIDE DEF f, p
<1>2. call = [fn |-> f, at |-> p]
  BY <1>1 DEF f, p
<1>3. call' = [fn |-> f, at |-> p + 1]
  BY <1>2
<1>4. call'.fn = f /\ call'.at = p + 1
  BY <1>3
<1>. QED BY <1>3, <1>4 DEF f, p

(* The tensor of an entry joins the map.                                   *)
LEMMA AddTensorKeeps ==
  ASSUME LoadInv, AddTensor
  PROVE  LoadInv'
<1> DEFINE e == Entries(asked)
<1>1. /\ Reading /\ Unused(mem) # {} /\ ~ HasWeight(mem, Entry)
      /\ mem' = Destroy(Moved(ReadTensor, InMap(Entry), Local), Local)
      /\ call' = [call EXCEPT !.at = @ + 1] /\ UNCHANGED <<outcome, asked, loads, again>>
  BY DEF AddTensor, Room
<1>2. /\ outcome = "running" /\ call.fn = "read" /\ call.at \in 1 .. Len(e) /\ asked.name \in NameSet
      /\ Placed(mem) /\ Entry \in NameSet \cup {Unknown} /\ Entry \in EntrySet(asked)
      /\ Held(mem) = {e[i] : i \in 1 .. (call.at - 1)}
  BY <1>1, WhileReading DEF Reading
<1>3. /\ Placed(mem') /\ Held(mem') = Held(mem) \cup {Entry}
      /\ Holds(mem', InMap(Entry), Entry, asked, loads)
      /\ \A o \in DOMAIN mem.obj : Same(mem, mem', o)
  BY <1>1, <1>2, Adds DEF ReadTensor
<1>4. /\ call' = [fn |-> call'.fn, at |-> call'.at] /\ call'.fn = "read"
      /\ call'.at = call.at + 1
  BY <1>1, <1>2, CallAdvances
<1>5. LoadTypes'
  BY <1>1, <1>2, <1>3, <1>4 DEF LoadInv, LoadTypes
<1>6. MapHolds'
  <2>1. SUFFICES ASSUME NEW n \in Held(mem')
                 PROVE  Holds(mem', InMap(n), n, asked, loads) /\ n \in EntrySet(asked)
    BY <1>1 DEF MapHolds
  <2>2. CASE n = Entry
    BY <1>2, <1>3, <2>2
  <2>3. CASE n \in Held(mem)
    <3>1. Holds(mem, InMap(n), n, asked, loads) /\ n \in EntrySet(asked)
      BY <2>3 DEF LoadInv, MapHolds
    <3>2. Same(mem, mem', InMap(n))
      BY <1>3, <2>3 DEF Held, HasWeight
    <3>. QED BY <3>1, <3>2, HoldsStill
  <2>. QED BY <1>3, <2>2, <2>3
<1>7. ReadSoFar'
  <2>1. Entry = e[call.at]
    BY DEF Entry
  <2> HIDE DEF e
  <2>2. Len(e) \in Nat
    <3>1. e \in Seq(NameSet \cup {Unknown})
      BY <1>2, EntriesAre DEF e
    <3>. QED BY <3>1
  <2>3. Held(mem') = {e[i] : i \in 1 .. call.at}
    <3>1. 1 .. call.at = (1 .. (call.at - 1)) \cup {call.at}
      BY <1>2, <2>2
    <3>. QED BY <1>2, <1>3, <2>1, <3>1
  <2>4. call'.at \in 1 .. (Len(e) + 1) /\ call'.at - 1 = call.at
    BY <1>2, <1>4, <2>2
  <2>. QED BY <1>1, <1>4, <2>3, <2>4 DEF ReadSoFar, e
<1>8. LoadedSoFar' /\ AfterRead' /\ AfterLoad' /\ RefusedForCause'
  BY <1>1, <1>2, <1>4 DEF LoadedSoFar, AfterRead, AfterLoad, RefusedForCause
<1>. QED BY <1>5, <1>6, <1>7, <1>8 DEF LoadInv

(* After the last entry the map holds them all.                            *)
LEMMA ReadAllKeeps ==
  ASSUME LoadInv, ReadAll
  PROVE  LoadInv'
<1> DEFINE e == Entries(asked)
<1>1. /\ call.fn = "read" /\ ~ Reading /\ call' = [fn |-> "none", at |-> 0] /\ outcome' = "read"
      /\ mem' = mem /\ asked' = asked /\ loads' = loads /\ again' = again
  BY DEF ReadAll, End, Idle
<1>2. asked.name \in NameSet /\ Placed(mem) /\ loads \in Nat
  BY DEF LoadInv, LoadTypes
<1>3. Held(mem) = EntrySet(asked)
  <2>1. /\ e \in Seq(NameSet \cup {Unknown})
        /\ \A p \in 1 .. Len(e) : e[p] \in EntrySet(asked)
        /\ \A n \in EntrySet(asked) : \E p \in 1 .. Len(e) : e[p] = n
    BY <1>2, EntriesAre
  <2>2. /\ call.at \in 1 .. (Len(e) + 1) /\ ~ (call.at <= Len(e))
        /\ Held(mem) = {e[i] : i \in 1 .. (call.at - 1)}
    BY <1>1 DEF LoadInv, ReadSoFar, Reading
  <2> HIDE DEF e
  <2>3. Len(e) \in Nat
    BY <2>1
  <2>4. call.at - 1 = Len(e)
    BY <2>2, <2>3
  <2>. QED BY <2>1, <2>2, <2>4
<1>4. LoadTypes'
  BY <1>1, <1>2 DEF LoadTypes
<1>5. MapHolds'
  BY <1>1 DEF LoadInv, MapHolds
<1>6. ReadSoFar' /\ LoadedSoFar' /\ AfterRead' /\ AfterLoad' /\ RefusedForCause'
  BY <1>1, <1>3 DEF ReadSoFar, LoadedSoFar, AfterRead, AfterLoad, RefusedForCause
<1>. QED BY <1>4, <1>5, <1>6 DEF LoadInv

(* A load begins with nothing taken.                                       *)
LEMMA LoadWeightsKeeps ==
  ASSUME LoadInv, LoadWeights
  PROVE  LoadInv'
<1>1. /\ outcome \in {"read", "failed"} /\ call' = [fn |-> "load", at |-> 1]
      /\ outcome' = "running" /\ mem' = mem /\ asked' = asked /\ loads' = loads
      /\ again' = (outcome = "failed")
  BY DEF LoadWeights
<1>2. call' = [fn |-> call'.fn, at |-> call'.at] /\ call'.fn = "load" /\ call'.at = 1
  BY <1>1
<1>3. asked.name \in NameSet /\ Placed(mem) /\ loads \in Nat
  BY DEF LoadInv, LoadTypes
<1>4. LoadTypes'
  BY <1>1, <1>2, <1>3 DEF LoadTypes
<1>5. MapHolds'
  BY <1>1 DEF LoadInv, MapHolds
<1>6. LoadedSoFar'
  <2>1. 1 .. (1 - 1) = {} /\ 1 \in 1 .. (Len(Plan) + 1)
    BY PlanIs, WeightLoadingAssumption
  <2>2. Took(1) = {}
    BY <2>1 DEF Took
  <2>3. EntrySet(asked) \ NameSet \subseteq Held(mem)
    <3>1. CASE outcome = "read"
      BY <3>1 DEF LoadInv, AfterRead
    <3>2. CASE outcome = "failed"
      BY <3>2 DEF LoadInv, AfterLoad
    <3>. QED BY <1>1, <3>1, <3>2
  <2>4. ~ again' => Held(mem) = EntrySet(asked) \ Took(1)
    <3>1. ASSUME ~ again' PROVE outcome = "read"
      BY <1>1, <3>1
    <3>2. outcome = "read" => Held(mem) = EntrySet(asked)
      BY DEF LoadInv, AfterRead
    <3>. QED BY <2>2, <3>1, <3>2
  <2>. QED BY <1>1, <1>2, <2>1, <2>2, <2>3, <2>4 DEF LoadedSoFar
<1>7. ReadSoFar' /\ AfterRead' /\ AfterLoad' /\ RefusedForCause'
  BY <1>1, <1>2 DEF ReadSoFar, AfterRead, AfterLoad, RefusedForCause
<1>. QED BY <1>4, <1>5, <1>6, <1>7 DEF LoadInv

(* The weight a step takes was not taken before.                           *)
LEMMA WhileTaking ==
  ASSUME LoadInv, Loading("take")
  PROVE  /\ outcome = "running" /\ call.fn = "load" /\ call.at \in 1 .. Len(Plan)
         /\ asked.name \in NameSet /\ Placed(mem)
         /\ Name \in NameSet /\ Plan[call.at] = TakeOf(Name)
         /\ Name \notin Took(call.at) /\ Took(call.at + 1) = Took(call.at) \cup {Name}
<1> DEFINE p == call.at
<1>1. /\ outcome = "running" /\ call.fn = "load" /\ asked.name \in NameSet /\ Placed(mem)
  BY DEF LoadInv, LoadTypes, Loading
<1>2. p \in 1 .. (Len(Plan) + 1) /\ p <= Len(Plan) /\ Plan[p].op = "take"
  BY <1>1 DEF LoadInv, LoadedSoFar, Loading
<1>3. Len(Plan) \in Nat
  BY PlanIs, WeightLoadingAssumption
<1>4. p \in 1 .. Len(Plan)
  BY <1>2, <1>3
<1>5. PICK n \in NameSet : Plan[p] = TakeOf(n)
  BY <1>2, <1>4, TakesAre
<1>6. Name = n
  BY <1>5 DEF Name, TakeOf
<1>7. \A x : Plan[p] = TakeOf(x) => x = n
  <2>1. SUFFICES ASSUME NEW x, Plan[p] = TakeOf(x) PROVE x = n
    OBVIOUS
  <2>2. Plan[p].names = {x} /\ Plan[p].names = {n}
    BY <1>5, <2>1 DEF TakeOf
  <2>. QED BY <2>2
<1>8. n \notin Took(p)
  <2>1. SUFFICES ASSUME n \in Took(p) PROVE FALSE
    OBVIOUS
  <2>2. PICK q \in 1 .. (p - 1) : Plan[q] = TakeOf(n)
    BY <2>1 DEF Took
  <2>3. q \in 1 .. Len(Plan) /\ q # p
    BY <1>3, <1>4
  <2>4. /\ Plan[q].op = "take" /\ Plan[p].op = "take" /\ Plan[q].names = Plan[p].names
    BY <1>2, <1>5, <2>2
  <2>. QED BY <1>4, <2>3, <2>4, TakesDiffer
<1>9. Took(p + 1) = Took(p) \cup {n}
  <2>1. 1 .. (p + 1 - 1) = (1 .. (p - 1)) \cup {p}
    BY <1>3, <1>4
  <2>2. ASSUME NEW x PROVE x \in Took(p + 1) <=> x \in Took(p) \/ x = n
    <3>1. x \in Took(p + 1) <=>
            x \in NameSet /\ \E q \in (1 .. (p - 1)) \cup {p} : Plan[q] = TakeOf(x)
      BY <2>1 DEF Took
    <3>2. x \in Took(p) <=> x \in NameSet /\ \E q \in 1 .. (p - 1) : Plan[q] = TakeOf(x)
      BY DEF Took
    <3>3. Plan[p] = TakeOf(x) <=> x = n
      BY <1>5, <1>7
    <3>. QED BY <1>5, <3>1, <3>2, <3>3
  <2>. QED BY <2>2
<1>. QED BY <1>1, <1>4, <1>5, <1>6, <1>8, <1>9

(* A take fails if the weight is not there only for the directory's sake.  *)
LEMMA TakeMissingKeeps ==
  ASSUME LoadInv, TakeMissing
  PROVE  LoadInv'
<1>1. /\ Loading("take") /\ ~ HasWeight(mem, Name) /\ End("failed")
      /\ mem' = mem /\ asked' = asked /\ loads' = loads /\ again' = again
  BY DEF TakeMissing
<1>2. Placed(mem')
  BY <1>1, WhileTaking
<1>3. MapHolds'
  BY <1>1 DEF LoadInv, MapHolds
<1>4. EntrySet(asked) \ NameSet \subseteq Held(mem')
  <2>1. call.fn = "load"
    BY <1>1 DEF Loading
  <2>. QED BY <1>1, <2>1 DEF LoadInv, LoadedSoFar
<1>5. ~ again => asked.kind = "missing"
  <2>1. SUFFICES ASSUME ~ again PROVE asked.kind = "missing"
    OBVIOUS
  <2>2. /\ call.fn = "load" /\ Name \in NameSet /\ Name \notin Took(call.at)
    BY <1>1, WhileTaking
  <2>3. Held(mem) = EntrySet(asked) \ Took(call.at)
    BY <2>1, <2>2 DEF LoadInv, LoadedSoFar
  <2>4. Name \notin Held(mem)
    BY <1>1 DEF Held
  <2>5. Name \notin EntrySet(asked)
    BY <2>2, <2>3, <2>4
  <2>. QED BY <2>2, <2>5 DEF EntrySet
<1>. QED BY <1>1, <1>2, <1>3, <1>4, <1>5, LoadEnds

(* What is left in the map is what it was.                                 *)
LEMMA MapStill ==
  ASSUME LoadInv, UNCHANGED <<asked, loads>>, Held(mem') \subseteq Held(mem),
         \A n \in Held(mem') : Same(mem, mem', InMap(n))
  PROVE  MapHolds'
<1>1. SUFFICES ASSUME NEW n \in Held(mem')
               PROVE  Holds(mem', InMap(n), n, asked, loads) /\ n \in EntrySet(asked)
  BY DEF MapHolds
<1>2. Holds(mem, InMap(n), n, asked, loads) /\ n \in EntrySet(asked)
  BY <1>1 DEF LoadInv, MapHolds
<1>3. Same(mem, mem', InMap(n))
  BY <1>1
<1>. QED BY <1>2, <1>3, HoldsStill

(* Only a tensor that is malformed has another rank.                       *)
LEMMA TakeMalformedKeeps ==
  ASSUME LoadInv, TakeMalformed
  PROVE  LoadInv'
<1>1. /\ Loading("take") /\ HasWeight(mem, Name) /\ End("failed")
      /\ Len(mem.obj[InMap(Name)].shape) # Len(Shape(Name))
      /\ mem' = Destroy(Taken(mem, Name), Local)
      /\ UNCHANGED <<asked, loads, again>>
  BY DEF TakeMalformed
<1>2. /\ call.fn = "load" /\ asked.name \in NameSet /\ Placed(mem) /\ Name \in NameSet
  BY <1>1, WhileTaking
<1>3. /\ Placed(mem') /\ Held(mem') = Held(mem) \ {Name}
      /\ \A o \in DOMAIN mem.obj \ {InMap(Name)} : Same(mem, mem', o)
  BY <1>1, <1>2, TakenDies
<1>4. MapHolds'
  <2>1. \A n \in Held(mem') : InMap(n) \in DOMAIN mem.obj \ {InMap(Name)}
    BY <1>3, ObjectsDiffer DEF Held, HasWeight
  <2>. QED BY <1>1, <1>3, <2>1, MapStill
<1>5. asked.kind = "malformed"
  <2>1. Name \in Held(mem)
    BY <1>1, <1>2 DEF Held
  <2>2. mem.obj[InMap(Name)].shape = EntryShape(asked, Name)
    BY <2>1 DEF LoadInv, MapHolds, Holds
  <2>3. asked.kind # "malformed" => Len(EntryShape(asked, Name)) = Len(Shape(Name))
    BY <1>2, EntryShapes
  <2>. QED BY <1>1, <2>2, <2>3
<1>6. EntrySet(asked) \ NameSet \subseteq Held(mem')
  BY <1>2, <1>3 DEF LoadInv, LoadedSoFar
<1>. QED BY <1>1, <1>3, <1>4, <1>5, <1>6, LoadEnds

(* A weight moves from the map into its layer, and no other moves.         *)
LEMMA TakeKeeps ==
  ASSUME LoadInv, Take
  PROVE  LoadInv'
<1> DEFINE p == call.at
<1>1. /\ Loading("take") /\ HasWeight(mem, Name)
      /\ mem' = Destroy(MoveAssign(Taken(mem, Name), Slot(Name), Local), Local)
      /\ call' = [call EXCEPT !.at = @ + 1]
      /\ outcome' = outcome /\ asked' = asked /\ loads' = loads /\ again' = again
  BY DEF Take, NextStep
<1>2. /\ outcome = "running" /\ call.fn = "load" /\ p \in 1 .. Len(Plan)
      /\ asked.name \in NameSet /\ Placed(mem) /\ Name \in NameSet /\ Plan[p] = TakeOf(Name)
      /\ Name \notin Took(p) /\ Took(p + 1) = Took(p) \cup {Name}
  BY <1>1, WhileTaking
<1>3. call' = [fn |-> call'.fn, at |-> call'.at] /\ call'.fn = "load" /\ call'.at = p + 1
  BY <1>1, <1>2, CallAdvances
<1>4. Name \in Held(mem) /\ Holds(mem, InMap(Name), Name, asked, loads) /\ Name \in EntrySet(asked)
  BY <1>1, <1>2 DEF Held, LoadInv, MapHolds
<1>5. /\ Placed(mem') /\ Held(mem') = Held(mem) \ {Name}
      /\ Holds(mem', Slot(Name), Name, asked, loads)
      /\ \A o \in DOMAIN mem.obj \ {InMap(Name), Slot(Name)} : Same(mem, mem', o)
  BY <1>1, <1>2, <1>4, TakesIn
<1>6. LoadTypes'
  BY <1>1, <1>2, <1>3, <1>5 DEF LoadInv, LoadTypes
<1>7. MapHolds'
  <2>1. \A n \in Held(mem') : InMap(n) \in DOMAIN mem.obj \ {InMap(Name), Slot(Name)}
    BY <1>5, ObjectsDiffer DEF Held, HasWeight
  <2>. QED BY <1>1, <1>5, <2>1, MapStill
<1>8. ASSUME NEW n \in Took(p) PROVE Same(mem, mem', Slot(n)) /\ Arrived(n)
  <2>1. n \in NameSet /\ n # Name
    BY <1>2 DEF Took
  <2>2. Slot(n) \in DOMAIN mem.obj \ {InMap(Name), Slot(Name)}
    BY <1>2, <2>1, ObjectsDiffer DEF Placed, Slots
  <2>3. Arrived(n)
    BY <1>2 DEF LoadInv, LoadedSoFar
  <2>. QED BY <1>5, <2>2, <2>3
<1>9. LoadedSoFar'
  <2>1. ASSUME NEW n \in Took(p + 1) PROVE Arrived(n)'
    <3>1. CASE n = Name
      BY <1>1, <1>4, <1>5, <3>1 DEF Arrived
    <3>2. CASE n \in Took(p)
      <4>1. Holds(mem, Slot(n), n, asked, loads) /\ n \in EntrySet(asked) \ Held(mem)
        BY <1>8, <3>2 DEF Arrived
      <4>2. Same(mem, mem', Slot(n))
        BY <1>8, <3>2
      <4>3. Holds(mem', Slot(n), n, asked, loads)
        BY <4>1, <4>2, HoldsStill
      <4>. QED BY <1>1, <1>5, <4>1, <4>3 DEF Arrived
    <3>. QED BY <1>2, <3>1, <3>2
  <2>2. Len(Plan) \in Nat
    BY PlanIs, WeightLoadingAssumption
  <2>3. ASSUME NEW q \in 1 .. p, Plan[q].op = "check" PROVE Fit(Plan[q].names)'
    <3>1. q \in 1 .. (p - 1) /\ q \in 1 .. Len(Plan)
      <4>1. q # p
        BY <1>2, <2>3 DEF TakeOf
      <4>. QED BY <1>2, <2>2, <4>1
    <3>2. Fit(Plan[q].names)
      BY <1>2, <2>3, <3>1 DEF LoadInv, LoadedSoFar
    <3>3. ASSUME NEW n \in Plan[q].names PROVE mem'.obj[Slot(n)].shape = Shape(n)
      <4>1. n \in NameSet /\ \E i \in 1 .. (q - 1) : Plan[i] = TakeOf(n)
        BY <2>3, <3>1, ChecksAre
      <4>2. \A i \in 1 .. (q - 1) : i \in 1 .. (p - 1)
        BY <1>2, <2>2, <3>1
      <4>3. n \in Took(p)
        BY <4>1, <4>2 DEF Took
      <4>4. mem'.obj[Slot(n)] = mem.obj[Slot(n)]
        BY <1>8, <4>3 DEF Same
      <4>. QED BY <3>2, <4>4 DEF Fit
    <3>. QED BY <3>3 DEF Fit
  <2>4. ~ again => Held(mem') = EntrySet(asked) \ Took(p + 1)
    BY <1>2, <1>5 DEF LoadInv, LoadedSoFar
  <2>5. EntrySet(asked) \ NameSet \subseteq Held(mem')
    BY <1>2, <1>5 DEF LoadInv, LoadedSoFar
  <2>6. p + 1 \in 1 .. (Len(Plan) + 1) /\ p + 1 - 1 = p
    BY <1>2, <2>2
  <2>7. call'.at \in 1 .. (Len(Plan) + 1) /\ Took(call'.at) = Took(p + 1)
    BY <1>3, <2>6
  <2>8. \A q \in 1 .. (call'.at - 1) : Plan[q].op = "check" => Fit(Plan[q].names)'
    <3>1. call'.at - 1 = p
      <4>1. call'.at = p + 1
        BY <1>3, Zenon
      <4> DEFINE c == call'.at
      <4> HIDE DEF c
      <4>2. c = p + 1
        BY <4>1 DEF c
      <4>3. p \in Nat
        BY <1>2, <2>2
      <4>4. c - 1 = p
        BY <4>2, <4>3
      <4>. QED BY <4>4 DEF c
    <3> DEFINE Fine(q) == Fit(Plan[q].names)'
    <3>2. \A q \in 1 .. p : Plan[q].op = "check" => Fine(q)
      BY <2>3
    <3> HIDE DEF Fine
    <3>3. \A q \in 1 .. (call'.at - 1) : Plan[q].op = "check" => Fine(q)
      BY <3>1, <3>2
    <3>. QED BY <3>3 DEF Fine
  <2>9. ~ again' => Held(mem') = EntrySet(asked') \ Took(call'.at)
    BY <1>1, <2>4, <2>7
  <2>10. EntrySet(asked') \ NameSet \subseteq Held(mem')
    BY <1>1, <2>5
  <2>11. \A n \in Took(call'.at) : Arrived(n)'
    BY <2>1, <2>7
  <2>. QED BY <2>7, <2>8, <2>9, <2>10, <2>11 DEF LoadedSoFar
<1>10. ReadSoFar' /\ AfterRead' /\ AfterLoad' /\ RefusedForCause'
  BY <1>1, <1>2, <1>3 DEF ReadSoFar, AfterRead, AfterLoad, RefusedForCause
<1>. QED BY <1>6, <1>7, <1>9, <1>10 DEF LoadInv

(* What a check looks at was taken, into its layer.                        *)
LEMMA WhileChecking ==
  ASSUME LoadInv, Loading("check")
  PROVE  /\ outcome = "running" /\ call.fn = "load" /\ call.at \in 1 .. Len(Plan)
         /\ Len(Plan) \in Nat /\ asked.name \in NameSet /\ Placed(mem)
         /\ Plan[call.at].op = "check"
         /\ \A n \in Plan[call.at].names :
              n \in NameSet /\ n[2] \notin LayerNorms /\ Arrived(n)
         /\ Took(call.at + 1) = Took(call.at)
<1> DEFINE p == call.at
<1>1. /\ outcome = "running" /\ call.fn = "load" /\ asked.name \in NameSet /\ Placed(mem)
  BY DEF LoadInv, LoadTypes, Loading
<1>2. p \in 1 .. (Len(Plan) + 1) /\ p <= Len(Plan) /\ Plan[p].op = "check"
  BY <1>1 DEF LoadInv, LoadedSoFar, Loading
<1>3. Len(Plan) \in Nat
  BY PlanIs, WeightLoadingAssumption
<1>4. p \in 1 .. Len(Plan)
  BY <1>2, <1>3
<1>5. ASSUME NEW n \in Plan[p].names
      PROVE  n \in NameSet /\ n[2] \notin LayerNorms /\ Arrived(n)
  <2>1. /\ n \in NameSet /\ n[2] \notin LayerNorms
        /\ \E q \in 1 .. (p - 1) : Plan[q] = TakeOf(n)
    BY <1>2, <1>4, ChecksAre
  <2>2. n \in Took(p)
    BY <2>1 DEF Took
  <2>. QED BY <1>1, <2>1, <2>2 DEF LoadInv, LoadedSoFar
<1>6. Took(p + 1) = Took(p)
  <2>1. 1 .. (p + 1 - 1) = (1 .. (p - 1)) \cup {p}
    BY <1>3, <1>4
  <2>2. \A n : Plan[p] # TakeOf(n)
    BY <1>2 DEF TakeOf
  <2>. QED BY <2>1, <2>2 DEF Took
<1>. QED BY <1>1, <1>2, <1>3, <1>4, <1>5, <1>6

(* Shapes that fit still fit after the next check.                         *)
LEMMA CheckKeeps ==
  ASSUME LoadInv, Check
  PROVE  LoadInv'
<1> DEFINE p == call.at
<1>1. /\ Loading("check") /\ Fit(Plan[p].names) /\ call' = [call EXCEPT !.at = @ + 1]
      /\ outcome' = outcome /\ mem' = mem /\ asked' = asked /\ loads' = loads /\ again' = again
  BY DEF Check, NextStep
<1>2. /\ outcome = "running" /\ call.fn = "load" /\ p \in 1 .. Len(Plan) /\ Len(Plan) \in Nat
      /\ asked.name \in NameSet /\ Placed(mem) /\ Took(p + 1) = Took(p)
  BY <1>1, WhileChecking
<1>3. call' = [fn |-> call'.fn, at |-> call'.at] /\ call'.fn = "load" /\ call'.at = p + 1
  BY <1>1, <1>2, CallAdvances
<1>4. LoadTypes'
  BY <1>1, <1>2, <1>3 DEF LoadInv, LoadTypes
<1>5. MapHolds'
  BY <1>1 DEF LoadInv, MapHolds
<1>6. LoadedSoFar'
  <2>1. call'.at \in 1 .. (Len(Plan) + 1) /\ Took(call'.at) = Took(p)
    BY <1>2, <1>3
  <2>2. \A n \in Took(p) : Arrived(n)
    BY <1>2 DEF LoadInv, LoadedSoFar
  <2>3. \A n \in Took(call'.at) : Arrived(n)'
    BY <1>1, <2>1, <2>2 DEF Arrived
  <2>4. \A q \in 1 .. (p - 1) : Plan[q].op = "check" => Fit(Plan[q].names)
    BY <1>2 DEF LoadInv, LoadedSoFar
  <2>5. \A q \in 1 .. (call'.at - 1) : Plan[q].op = "check" => Fit(Plan[q].names)
    <3>1. call'.at = p + 1
      BY <1>3, Zenon
    <3>2. p \in Nat
      BY <1>2
    <3>3. \A q \in 1 .. (call'.at - 1) : q = p \/ q \in 1 .. (p - 1)
      BY <3>1, <3>2
    <3>. QED BY <1>1, <2>4, <3>3
  <2>6. \A q \in 1 .. (call'.at - 1) : Plan[q].op = "check" => Fit(Plan[q].names)'
    BY <1>1, <2>5 DEF Fit
  <2>7. /\ ~ again => Held(mem) = EntrySet(asked) \ Took(p)
        /\ EntrySet(asked) \ NameSet \subseteq Held(mem)
    BY <1>2 DEF LoadInv, LoadedSoFar
  <2>8. /\ ~ again' => Held(mem') = EntrySet(asked') \ Took(call'.at)
        /\ EntrySet(asked') \ NameSet \subseteq Held(mem')
    BY <1>1, <2>1, <2>7
  <2>. QED BY <2>1, <2>3, <2>6, <2>8 DEF LoadedSoFar
<1>7. ReadSoFar' /\ AfterRead' /\ AfterLoad' /\ RefusedForCause'
  BY <1>1, <1>2, <1>3 DEF ReadSoFar, AfterRead, AfterLoad, RefusedForCause
<1>. QED BY <1>4, <1>5, <1>6, <1>7 DEF LoadInv

(* Only an entry of another shape does not fit.                            *)
LEMMA CheckFailsKeeps ==
  ASSUME LoadInv, CheckFails
  PROVE  LoadInv'
<1>1. /\ Loading("check") /\ ~ Fit(Plan[call.at].names) /\ End("failed")
      /\ mem' = mem /\ asked' = asked /\ loads' = loads /\ again' = again
  BY DEF CheckFails
<1>2. /\ call.fn = "load" /\ asked.name \in NameSet /\ Placed(mem)
      /\ \A n \in Plan[call.at].names : n \in NameSet /\ n[2] \notin LayerNorms /\ Arrived(n)
  BY <1>1, WhileChecking
<1>3. PICK n \in Plan[call.at].names : mem.obj[Slot(n)].shape # Shape(n)
  BY <1>1 DEF Fit
<1>4. EntryShape(asked, n) # Shape(n) /\ n \in NameSet /\ n[2] \notin LayerNorms
  BY <1>2, <1>3 DEF Arrived, Holds
<1>5. n = asked.name /\ asked.kind \in {"misfit", "malformed"}
  BY <1>2, <1>4, EntryShapes
<1>6. \/ asked.kind \in {"missing", "malformed"}
      \/ asked.kind = "misfit" /\ asked.name[2] \notin LayerNorms
  BY <1>4, <1>5
<1>7. MapHolds'
  BY <1>1 DEF LoadInv, MapHolds
<1>8. EntrySet(asked) \ NameSet \subseteq Held(mem')
  BY <1>1, <1>2 DEF LoadInv, LoadedSoFar
<1>9. Placed(mem')
  BY <1>1, <1>2
<1>. QED BY <1>1, <1>6, <1>7, <1>8, <1>9, LoadEnds

(* At the end of the plan every layer has its weight.                      *)
LEMMA LoadedAllKeeps ==
  ASSUME LoadInv, LoadedAll
  PROVE  LoadInv'
<1> DEFINE p == call.at
<1>1. /\ call.fn = "load" /\ p > Len(Plan) /\ call' = [fn |-> "none", at |-> 0]
      /\ outcome' = "loaded" /\ mem' = mem /\ asked' = asked /\ loads' = loads
  BY DEF LoadedAll, End, Idle
<1>2. Len(Plan) \in Nat
  BY PlanIs, WeightLoadingAssumption
<1>3. /\ p \in 1 .. (Len(Plan) + 1) /\ \A n \in Took(p) : Arrived(n)
      /\ \A q \in 1 .. (p - 1) : Plan[q].op = "check" => Fit(Plan[q].names)
      /\ EntrySet(asked) \ NameSet \subseteq Held(mem)
  BY <1>1 DEF LoadInv, LoadedSoFar
<1>4. 1 .. (p - 1) = 1 .. Len(Plan)
  BY <1>1, <1>2, <1>3
<1>5. \A n \in NameSet : Arrived(n)
  BY <1>3, <1>4, TakesAre DEF Took
<1>6. ASSUME NEW n \in NameSet, n[2] \notin LayerNorms PROVE Fit({n})
  <2>1. PICK q \in 1 .. Len(Plan) : Plan[q].op = "check" /\ n \in Plan[q].names
    BY <1>6, ChecksAre
  <2>2. Fit(Plan[q].names)
    BY <1>3, <1>4, <2>1
  <2>. QED BY <2>1, <2>2 DEF Fit
<1>7. LoadTypes'
  BY <1>1 DEF LoadInv, LoadTypes
<1>8. MapHolds'
  BY <1>1 DEF LoadInv, MapHolds
<1>9. AfterLoad'
  <2>1. ASSUME NEW n \in NameSet PROVE Arrived(n)' /\ (n[2] \notin LayerNorms => Fit({n})')
    BY <1>1, <1>5, <1>6 DEF Arrived, Fit
  <2>2. EntrySet(asked') \ NameSet \subseteq Held(mem')
    BY <1>1, <1>3
  <2>. QED BY <1>1, <2>1, <2>2 DEF AfterLoad
<1>10. ReadSoFar' /\ LoadedSoFar' /\ AfterRead' /\ RefusedForCause'
  BY <1>1 DEF ReadSoFar, LoadedSoFar, AfterRead, RefusedForCause
<1>. QED BY <1>7, <1>8, <1>9, <1>10 DEF LoadInv

(* A loaded model is refused only for what is left in the map.             *)
LEMMA CheckModelKeeps ==
  ASSUME LoadInv, CheckModel
  PROVE  LoadInv'
<1>1. /\ outcome = "loaded" /\ call' = call /\ mem' = mem /\ asked' = asked /\ loads' = loads
      /\ outcome' = IF MapObjects(mem) = {} /\ Initialized(mem) THEN "ready" ELSE "refused"
  BY DEF CheckModel
<1>2. call.fn = "none" /\ Placed(mem)
  BY <1>1 DEF LoadInv, LoadTypes
<1>3. MapObjects(mem) = InMaps(Held(mem))
  <2> DEFINE s == Held(mem)
             rest == {}
  <2>1. /\ s \in SUBSET (NameSet \cup {Unknown}) /\ rest \subseteq {Local}
        /\ DOMAIN mem.obj = Slots \cup InMaps(s) \cup rest
    BY <1>2 DEF Held, Placed
  <2> HIDE DEF s, rest
  <2>2. MapObjects(mem) = InMaps(s)
    BY <2>1, HeldIs
  <2>. QED BY <2>2 DEF s
<1>4. \A n \in NameSet : Arrived(n)
  BY <1>1 DEF LoadInv, AfterLoad
<1>5. Initialized(mem)
  <2>1. SUFFICES ASSUME NEW n \in NameSet PROVE Owned(mem, Slot(n))
    BY NamesOnce DEF Initialized
  <2>2. mem.obj[Slot(n)].data # Null /\ Slot(n) \in DOMAIN mem.obj
    BY <1>2, <1>4 DEF Arrived, Holds, Placed, Slots
  <2>. QED BY <2>2 DEF Owned
<1>6. outcome' = "ready" => Held(mem) = {}
  BY <1>1, <1>3 DEF InMaps
<1>7. outcome' = "refused" => asked.kind = "extra"
  <2>1. SUFFICES ASSUME outcome' = "refused" PROVE asked.kind = "extra"
    OBVIOUS
  <2>2. PICK n : n \in Held(mem)
    BY <1>1, <1>3, <1>5, <2>1 DEF InMaps
  <2>3. n \in EntrySet(asked)
    BY <2>2 DEF LoadInv, MapHolds
  <2>4. n \notin NameSet
    BY <1>4, <2>2 DEF Arrived
  <2>. QED BY <2>3, <2>4 DEF EntrySet
<1>8. outcome' \in {"ready", "refused"}
  BY <1>1
<1>9. LoadTypes'
  BY <1>1, <1>2, <1>8 DEF LoadInv, LoadTypes
<1>10. MapHolds'
  BY <1>1 DEF LoadInv, MapHolds
<1>11. AfterLoad'
  BY <1>1, <1>8 DEF LoadInv, AfterLoad, Arrived, Fit
<1>12. AfterRead'
  BY <1>1, <1>6, <1>8 DEF AfterRead
<1>13. ReadSoFar' /\ LoadedSoFar'
  BY <1>1, <1>2 DEF ReadSoFar, LoadedSoFar
<1>14. RefusedForCause'
  BY <1>1, <1>7, <1>8 DEF RefusedForCause
<1>. QED BY <1>9, <1>10, <1>11, <1>12, <1>13, <1>14 DEF LoadInv

(* The map goes, with what is left in it.                                  *)
LEMMA DropWeightsKeeps ==
  ASSUME LoadInv, DropWeights
  PROVE  LoadInv'
<1>1. /\ outcome \in {"failed", "loaded", "ready", "refused"} /\ outcome' = "dropped"
      /\ call' = call /\ asked' = asked /\ loads' = loads
      /\ mem' = DestroyAll(mem, MapObjects(mem))
  BY DEF DropWeights
<1>2. call.fn = "none" /\ Placed(mem)
  BY <1>1 DEF LoadInv, LoadTypes
<1>3. Placed(mem') /\ Held(mem') = {}
  BY <1>1, <1>2, DroppedMap
<1>4. LoadTypes'
  BY <1>1, <1>2, <1>3 DEF LoadInv, LoadTypes
<1>5. /\ MapHolds' /\ ReadSoFar' /\ LoadedSoFar' /\ AfterRead' /\ AfterLoad'
      /\ RefusedForCause'
  BY <1>1, <1>2, <1>3 DEF MapHolds, ReadSoFar, LoadedSoFar, AfterRead, AfterLoad, RefusedForCause
<1>. QED BY <1>4, <1>5 DEF LoadInv

(* The layers hold nothing when it all begins.                             *)
LEMMA LoadInit == Init => LoadInv
<1> SUFFICES ASSUME Init PROVE LoadInv
  OBVIOUS
<1>1. /\ call = [fn |-> "none", at |-> 0] /\ outcome = "none" /\ loads = 0
      /\ asked = [kind |-> "good", name |-> Names[1]]
      /\ mem = [heap |-> << >>, current |-> 0, balance |-> 0,
                obj |-> [o \in Slots |-> NoTensor]]
  BY NamesOnce DEF Init, Idle, Slots
<1>2. asked.name \in NameSet
  <2>1. Names \in Seq(NameSet) /\ Len(Names) = 11 * NumHiddenLayers + 3
    BY NamesAre
  <2>2. 1 \in 1 .. Len(Names)
    BY <2>1, WeightLoadingAssumption
  <2>. QED BY <1>1, <2>1, <2>2
<1>3. IsFiniteSet(Slots)
  <2> DEFINE I == 1 .. Len(Names)
             f == [i \in I |-> Slot(Names[i])]
  <2>1. Names \in Seq(NameSet)
    BY NamesAre
  <2>2. IsFiniteSet(I)
    BY <2>1, FS_Interval
  <2>3. \A i \in I : Names[i] \in NameSet
    BY <2>1
  <2>4. \A n \in NameSet : \E i \in I : Names[i] = n
    BY <2>1, NamesOnce DEF Range
  <2>5. f \in Surjection(I, Slots)
    <3>1. f \in [I -> Slots]
      BY <2>3 DEF Slots
    <3>2. \A s \in Slots : \E i \in I : f[i] = s
      BY <2>4 DEF Slots
    <3>. QED BY <3>1, <3>2 DEF Surjection
  <2> HIDE DEF I, f
  <2>. QED BY <2>2, <2>5, FS_Surjection
<1>4. /\ mem.heap = << >> /\ mem.current = 0 /\ mem.balance = 0
      /\ mem.obj = [o \in Slots |-> NoTensor] /\ IsMemory(mem)
  BY <1>1 DEF IsMemory, Fields
<1>5. DOMAIN mem.heap = {} /\ mem.heap = [a \in DOMAIN mem.heap |-> mem.heap[a]]
  BY <1>4
<1>6. HeapBytes(mem.heap) = 0
  <2>1. Counted(mem.heap)
    BY <1>5, FS_EmptySet DEF Counted
  <2>2. Units(SizeOf(mem.heap), DOMAIN mem.heap) = {}
    BY <1>5 DEF Units
  <2>. QED BY <2>1, <2>2, HeapUnits, FS_EmptySet
<1>7. \A o \in DOMAIN mem.obj : mem.obj[o].data = Null
  BY <1>4 DEF NoTensor
<1>8. Whole(mem)
  <2>1. mem.obj = [o \in DOMAIN mem.obj |-> mem.obj[o]] /\ DOMAIN mem.obj = Slots
    BY <1>4
  <2>. QED BY <1>3, <1>4, <1>5, <1>6, <1>7, <2>1 DEF Whole
<1>9. Placed(mem) /\ Held(mem) = {}
  <2> DEFINE s == {}
  <2>1. s \in SUBSET (NameSet \cup {Unknown}) /\ DOMAIN mem.obj = Slots \cup InMaps(s)
    BY <1>4 DEF InMaps
  <2> HIDE DEF s
  <2>2. Placed(mem) /\ Held(mem) = s
    BY <1>8, <2>1, PlacedIs
  <2>. QED BY <2>2 DEF s
<1>10. LoadTypes
  <2>1. call = [fn |-> call.fn, at |-> call.at] /\ call.fn = "none" /\ loads \in Nat
    BY <1>1
  <2>. QED BY <1>1, <1>2, <1>9, <2>1 DEF LoadTypes
<1>11. /\ MapHolds /\ ReadSoFar /\ LoadedSoFar /\ AfterRead /\ AfterLoad /\ RefusedForCause
  BY <1>1, <1>9 DEF MapHolds, ReadSoFar, LoadedSoFar, AfterRead, AfterLoad, RefusedForCause
<1>. QED BY <1>10, <1>11 DEF LoadInv

(* Every step keeps the invariant.                                         *)
LEMMA LoadNext == LoadInv /\ [Next]_vars => LoadInv'
<1> SUFFICES ASSUME LoadInv, [Next]_vars PROVE LoadInv'
  OBVIOUS
<1>1. CASE UNCHANGED vars
  <2>1. /\ mem' = mem /\ call' = call /\ outcome' = outcome /\ asked' = asked
        /\ loads' = loads /\ again' = again
    BY <1>1 DEF vars
  <2>. QED BY <2>1 DEF LoadInv, LoadTypes, MapHolds, ReadSoFar, LoadedSoFar, AfterRead, AfterLoad,
                       RefusedForCause, Arrived, Fit
<1>2. CASE \E d \in Directories(IF loads = 0 THEN FirstKinds ELSE RetryKinds) : LoadDirectory(d)
  <2>1. PICK d \in Directories(IF loads = 0 THEN FirstKinds ELSE RetryKinds) : LoadDirectory(d)
    BY <1>2
  <2>2. d.name \in NameSet
    BY NamesOnce DEF Directories
  <2>. QED BY <2>1, <2>2, LoadDirectoryKeeps
<1>3. CASE RejectEntry
  BY <1>3, RejectEntryKeeps
<1>4. CASE AllocationFails
  BY <1>4, AllocationFailsKeeps
<1>5. CASE RejectTensor
  BY <1>5, RejectTensorKeeps
<1>6. CASE AddTensor
  BY <1>6, AddTensorKeeps
<1>7. CASE ReadAll
  BY <1>7, ReadAllKeeps
<1>8. CASE LoadWeights
  BY <1>8, LoadWeightsKeeps
<1>9. CASE TakeMissing
  BY <1>9, TakeMissingKeeps
<1>10. CASE TakeMalformed
  BY <1>10, TakeMalformedKeeps
<1>11. CASE Take
  BY <1>11, TakeKeeps
<1>12. CASE Check
  BY <1>12, CheckKeeps
<1>13. CASE CheckFails
  BY <1>13, CheckFailsKeeps
<1>14. CASE LoadedAll
  BY <1>14, LoadedAllKeeps
<1>15. CASE CheckModel
  BY <1>15, CheckModelKeeps
<1>16. CASE DropWeights
  BY <1>16, DropWeightsKeeps
<1>. QED BY <1>1, <1>2, <1>3, <1>4, <1>5, <1>6, <1>7, <1>8, <1>9, <1>10, <1>11, <1>12, <1>13,
            <1>14, <1>15, <1>16 DEF Next

(* So it holds of loading alone.                                           *)
THEOREM LoadSpecInv == Spec => []LoadInv
<1>. QED BY LoadInit, LoadNext, PTL DEF Spec

(* And with passes over what was loaded: a pass touches no weight.         *)
THEOREM ForwardSpecInv == ForwardSpec => []LoadInv
<1>1. ForwardInit => LoadInv
  BY LoadInit DEF ForwardInit
<1>2. LoadInv /\ [ForwardNext]_<<loadingVars, forwardVars>> => LoadInv'
  <2>1. ForwardNext => Next \/ UNCHANGED vars
    BY DEF ForwardNext, Begin, BeginBatch, Start, Locals, Compute, CopyRow, UpdateLayer, AdvanceCache,
           Return, Throw, NextOp, EndPass, loadingVars
  <2>2. UNCHANGED <<loadingVars, forwardVars>> => UNCHANGED vars
    BY DEF loadingVars
  <2>. QED BY <2>1, <2>2, LoadNext
<1>. QED BY <1>1, <1>2, PTL DEF ForwardSpec

(* Whatever fails on the way, and however often it is tried again, every   *)
(* allocation has one owner that knows its size, and the tracker counts    *)
(* exactly those.                                                          *)
THEOREM HeapAlwaysOwned == ForwardSpec => []HeapOwned
<1>1. LoadInv => HeapOwned
  <2> SUFFICES ASSUME LoadInv PROVE HeapOwned
    OBVIOUS
  <2>1. Whole(mem) /\ DOMAIN mem.obj = Slots \cup InMaps(Held(mem))
    BY DEF LoadInv, LoadTypes, Placed
  <2>2. Null \notin DOMAIN mem.heap
    BY <2>1, WholeCounted
  <2>3. ASSUME NEW a \in DOMAIN mem.heap
        PROVE  \E o \in DOMAIN mem.obj :
                 /\ mem.obj[o].data = a /\ NumElements(mem.obj[o].shape) = mem.heap[a].bytes
                 /\ \A p \in DOMAIN mem.obj : mem.obj[p].data = a => p = o
    <3>1. PICK o \in DOMAIN mem.obj : mem.obj[o].data = a
      BY <2>1 DEF Whole
    <3>2. mem.obj[o].data # Null
      BY <2>2, <3>1
    <3>. QED BY <2>1, <3>1, <3>2 DEF Whole
  <2>4. \A o \in DOMAIN mem.obj : Owned(mem, o) => mem.obj[o].data \in DOMAIN mem.heap
    BY <2>1 DEF Whole, Owned
  <2>5. mem.current = mem.balance /\ mem.current = HeapBytes(mem.heap)
    BY <2>1 DEF Whole
  <2>6. outcome \in {"unread", "no memory", "dropped"} =>
          DOMAIN mem.obj = {Slot(n) : n \in Range(Names)}
    <3>1. outcome \in {"unread", "no memory", "dropped"} => Held(mem) = {}
      BY DEF LoadInv, AfterRead
    <3>. QED BY <2>1, <3>1, NamesOnce DEF Slots, InMaps
  <2>. QED BY <2>3, <2>4, <2>5, <2>6 DEF HeapOwned, HeapBytes
<1>. QED BY <1>1, ForwardSpecInv, PTL

(* When load_weights returns, every layer has the weight of its own name   *)
(* from this directory, in its shape where one is asked for; main goes on  *)
(* only if the directory had nothing else.                                 *)
THEOREM AlwaysLoadedWhole == ForwardSpec => []LoadedWhole
<1>1. LoadInv => LoadedWhole
  <2> SUFFICES ASSUME LoadInv, outcome \in {"loaded", "ready", "refused"}
               PROVE  /\ \A n \in Range(Names) :
                           /\ Owned(mem, Slot(n)) /\ Contents(mem, Slot(n)) = <<n, loads>>
                           /\ n[2] \notin LayerNorms => mem.obj[Slot(n)].shape = Shape(n)
                      /\ MapObjects(mem) \subseteq {InMap(Unknown)}
                      /\ outcome = "ready" => Range(Entries(asked)) = Range(Names)
    BY DEF LoadedWhole
  <2>1. /\ Placed(mem) /\ asked.name \in NameSet /\ Range(Names) = NameSet
    BY NamesOnce DEF LoadInv, LoadTypes
  <2>2. /\ \A n \in NameSet : Arrived(n) /\ (n[2] \notin LayerNorms => Fit({n}))
        /\ EntrySet(asked) \ NameSet \subseteq Held(mem)
    BY DEF LoadInv, AfterLoad
  <2>3. \A n \in NameSet :
          /\ Owned(mem, Slot(n)) /\ Contents(mem, Slot(n)) = <<n, loads>>
          /\ n[2] \notin LayerNorms => mem.obj[Slot(n)].shape = Shape(n)
    BY <2>1, <2>2 DEF Arrived, Holds, Placed, Slots, Owned, Fit
  <2>4. Held(mem) \subseteq {Unknown}
    BY <2>2 DEF Held, Arrived
  <2>5. MapObjects(mem) \subseteq {InMap(Unknown)}
    <3> DEFINE s == Held(mem)
               rest == {}
    <3>1. /\ s \in SUBSET (NameSet \cup {Unknown}) /\ rest \subseteq {Local}
          /\ DOMAIN mem.obj = Slots \cup InMaps(s) \cup rest
      BY <2>1 DEF Held, Placed
    <3> HIDE DEF s, rest
    <3>2. MapObjects(mem) = InMaps(s)
      BY <3>1, HeldIs
    <3>. QED BY <2>4, <3>2 DEF s, InMaps
  <2>6. outcome = "ready" => Range(Entries(asked)) = NameSet
    <3>1. SUFFICES ASSUME outcome = "ready" PROVE Range(Entries(asked)) = NameSet
      OBVIOUS
    <3>2. Held(mem) = {}
      BY <3>1 DEF LoadInv, AfterRead
    <3>3. EntrySet(asked) = NameSet
      BY <2>2, <3>2 DEF Arrived
    <3>4. /\ Entries(asked) \in Seq(NameSet \cup {Unknown})
          /\ \A p \in 1 .. Len(Entries(asked)) : Entries(asked)[p] \in EntrySet(asked)
          /\ \A n \in EntrySet(asked) : \E p \in 1 .. Len(Entries(asked)) : Entries(asked)[p] = n
      BY <2>1, EntriesAre
    <3> DEFINE e == Entries(asked)
    <3> HIDE DEF e
    <3>5. Range(e) = NameSet
      BY <3>3, <3>4 DEF Range, e
    <3>. QED BY <3>5 DEF e
  <2>. QED BY <2>1, <2>3, <2>5, <2>6
<1>. QED BY <1>1, ForwardSpecInv, PTL

(* Nothing but the directory ever keeps a load from succeeding.            *)
THEOREM AlwaysRefusedForCause == ForwardSpec => []RefusedForCause
<1>1. LoadInv => RefusedForCause
  BY DEF LoadInv
<1>. QED BY <1>1, ForwardSpecInv, PTL

-----------------------------------------------------------------------------
(* A forward pass, stage by stage.  A layer has 25 stages; all but the     *)
(* fifteenth, which writes the cache, are one operation.                   *)
CacheOps == IF job.kind = "batch" THEN 3 * Len(job.tokens) ELSE 1
LayerLength == 24 + CacheOps
At(l, j) == 1 + ((l - 1) * LayerLength + j)
Place(s) == IF s <= 15 THEN s ELSE s + CacheOps - 1

UpdateOp(l) == Op("update_layer", << >>, <<"k_rot", "v_3d">>, Nowhere, l)

LayerEntry(l) == << Op("locals", << >>, << >>, Nowhere, l),
               RMSNorm(l, "input_layernorm", Current(l), "normed_1") >>
LayerBetween(l) == << Op("add", << >>, <<Current(l), "attn_out">>, "residual_after_attn", l),
                 RMSNorm(l, "post_attention_layernorm", "residual_after_attn", "normed_2") >>
LayerExit(l) == << Op("add", << >>, <<"residual_after_attn", "mlp_out">>, Other(Current(l)), l) >>

StageOp(l, s) ==
  CASE s \in 1..2   -> LayerEntry(l)[s]
    [] s \in 3..14  -> Projections(l)[s - 2]
    [] s = 15       -> UpdateOp(l)
    [] s \in 16..18 -> Output(l)[s - 15]
    [] s \in 19..20 -> LayerBetween(l)[s - 18]
    [] s \in 21..24 -> Mlp(l)[s - 20]
    [] OTHER        -> LayerExit(l)[s - 24]

(* The tensor that a stage writes, and what each row of it is then.        *)
Outs == << Nowhere, "normed_1", "q_flat", "k_flat", "v_flat", "q_2d", "k_2d", "q_normed_2d",
           "k_normed_2d", "q_3d", "k_3d", "v_3d", "q_rot", "k_rot", Nowhere, "attn_out_3d",
           "attn_out_flat", "attn_out", "residual_after_attn", "normed_2", "gate", "up", "act",
           "mlp_out" >>

AttendedOf(l, i) == <<"attention", QueryOf(l, job.tokens[i]), ContextOf(i)>>
MiddleOf(l, i) == <<"add", Hidden(l - 1, job.tokens[i]), LinearOf(l, "o_proj", AttendedOf(l, i))>>
Normed2Of(l, i) == NormOf(l, "post_attention_layernorm", MiddleOf(l, i))
ActOf(l, i) == <<"silu_and_mul", LinearOf(l, "gate_proj", Normed2Of(l, i)),
                                 LinearOf(l, "up_proj", Normed2Of(l, i))>>

Term(l, s, i) ==
  LET t == job.tokens[i]
  IN  CASE s = 2         -> Normed(l, t)
        [] s \in {3, 6}  -> LinearOf(l, "q_proj", Normed(l, t))
        [] s \in {4, 7}  -> LinearOf(l, "k_proj", Normed(l, t))
        [] s \in {5, 12} -> ValueOf(l, t)
        [] s \in {8, 10} -> NormOf(l, "q_norm", LinearOf(l, "q_proj", Normed(l, t)))
        [] s \in {9, 11} -> NormOf(l, "k_norm", LinearOf(l, "k_proj", Normed(l, t)))
        [] s = 13        -> QueryOf(l, t)
        [] s = 14        -> KeyOf(l, t)
        [] s \in {16, 17} -> AttendedOf(l, i)
        [] s = 18        -> LinearOf(l, "o_proj", AttendedOf(l, i))
        [] s = 19        -> MiddleOf(l, i)
        [] s = 20        -> Normed2Of(l, i)
        [] s = 21        -> LinearOf(l, "gate_proj", Normed2Of(l, i))
        [] s = 22        -> LinearOf(l, "up_proj", Normed2Of(l, i))
        [] s = 23        -> ActOf(l, i)
        [] s = 24        -> LinearOf(l, "down_proj", ActOf(l, i))

HiddenRows(l) == [i \in Rows |-> Hidden(l, job.tokens[i])]

(* Before stage s of layer l.                                              *)
LayerState(l, s) ==
  /\ buf[Current(l)] = HiddenRows(l - 1)
  /\ \A q \in 2 .. (s - 1) : q # 15 => buf[Outs[q]] = [i \in Rows |-> Term(l, q, i)]

(* The row of the paged cache that row i of the pass goes to.              *)
RowOf(i) == job.past[i] + (IF job.kind = "batch" THEN 1 ELSE i)
InPool(l, i) == pool[job.of[i]][l][RowOf(i)] = job.tokens[i]

(* The layers before l have written what they cache.                       *)
WrittenTo(l) ==
  /\ mode = "paged" => \A k \in 1 .. (l - 1), i \in Rows : InPool(k, i)
  /\ mode = "contiguous" => Running /\ pass.next = l

BatchState(l, i, m) ==
  /\ \A k \in 1 .. (i - 1) : InPool(l, k)
  /\ m > 1 => buf["k_row"] = <<KeyOf(l, job.tokens[i])>>
  /\ m > 2 => buf["v_row"] = <<ValueOf(l, job.tokens[i])>>

AtStart == job.at = 1 /\ WrittenTo(1) /\ buf["input_ids"] = job.tokens
AtStage(l, s) ==
  /\ s = 15 => job.kind = "forward"
  /\ job.at = At(l, Place(s)) /\ LayerState(l, s) /\ WrittenTo(IF s <= 15 THEN l ELSE l + 1)
AtRow(l, i, m) ==
  /\ job.kind = "batch" /\ job.at = At(l, 14 + ((i - 1) * 3 + m))
  /\ LayerState(l, 15) /\ WrittenTo(l) /\ BatchState(l, i, m)
AtEnd(e) ==
  /\ job.at = At(NumLayers + 1, e)
  /\ e = 1 => WrittenTo(NumLayers + 1)
  /\ e > 1 => ~ Running /\ (mode = "paged" => \A k \in 1 .. NumLayers, i \in Rows : InPool(k, i))
  /\ e <= 2 => buf[Current(NumLayers + 1)] = HiddenRows(NumLayers)
  /\ e = 3 => buf["hidden_states"] = [i \in Rows |-> NormOf(0, "norm", Hidden(NumLayers, job.tokens[i]))]
  /\ e = 4 => buf["logits"] = [i \in Rows |-> LogitsOf(job.tokens[i])]

PassState ==
  \/ AtStart
  \/ \E l \in 1 .. NumLayers, s \in 1 .. 25 : AtStage(l, s)
  \/ \E l \in 1 .. NumLayers, i \in Rows, m \in 1 .. 3 : AtRow(l, i, m)
  \/ \E e \in 1 .. 4 : AtEnd(e)

(* What the pass has been given.                                           *)
JobTypes ==
  LET n == Len(job.tokens)
  IN  /\ job = [kind |-> job.kind, of |-> job.of, tokens |-> job.tokens, past |-> job.past,
                at |-> job.at]
      /\ n \in Nat \ {0} /\ job.tokens = [i \in 1 .. n |-> <<passes, i>>]
      /\ job.of \in [1 .. n -> Requests] /\ job.past \in [1 .. n -> Nat]
      /\ job.at \in Nat \ {0} /\ job.kind \in {"forward", "batch"}
      /\ DOMAIN buf = Tensors

JobFits ==
  LET n == Len(job.tokens)
  IN  /\ job.kind = "batch" =>
           /\ mode = "paged" /\ n \in 1 .. Cardinality(Requests) /\ IsInjective(job.of)
           /\ \A i \in 1 .. n : job.past[i] + 1 <= MaxTokens
      /\ job.kind = "forward" =>
           /\ \A i \in 1 .. n : job.of[i] = job.of[1] /\ job.past[i] = job.past[1]
           /\ job.past[1] + n <= MaxTokens /\ (job.past[1] # 0 => n = 1)

JobPast ==
  \A i \in Rows :
    /\ mode = "none" => job.past[i] = 0
    /\ mode = "paged" => job.past[i] = Len(cached[job.of[i]])
    /\ mode = "contiguous" /\ Running => job.past[i] = current_len /\ pass.len = Len(job.tokens)

NormsFit == \A p \in 1 .. (job.at - 1) : Program[p].op = "rms_norm" => Fits(Program[p])

PoolTypes ==
  /\ DOMAIN pool = Requests /\ cached \in [Requests -> Seq(Tags)]
  /\ \A r \in Requests : DOMAIN pool[r] = 1 .. NumLayers /\ Len(cached[r]) <= MaxTokens
  /\ \A r \in Requests, l \in 1 .. NumLayers : DOMAIN pool[r][l] = 1 .. MaxTokens

PoolHolds ==
  \A r \in Requests, l \in 1 .. NumLayers : \A p \in DOMAIN cached[r] : pool[r][l][p] = cached[r][p]

ModeAgrees ==
  /\ mode \in {"unset", "none", "contiguous", "paged"}
  /\ mode # "contiguous" => ~ Running /\ fed = << >>
  /\ mode # "paged" => \A r \in Requests : cached[r] = << >>

ModelInv ==
  /\ LoadInv /\ CacheInv /\ PoolTypes /\ PoolHolds /\ ModeAgrees
  /\ IF Passing
     THEN /\ outcome = "ready" /\ passes > 0 /\ mode # "unset"
          /\ JobTypes /\ JobFits /\ JobPast /\ PassState /\ NormsFit
     ELSE job = NoJob /\ ~ Running

-----------------------------------------------------------------------------
(* The programs, operation by operation.                                   *)

(* c is f and then g, as functions of the numbers from one.                *)
Joins(c, f, m, g, k, A) ==
  /\ c \in [1 .. m + k -> A]
  /\ \A i \in 1 .. m : c[i] = f[i]
  /\ \A i \in 1 .. k : c[m + i] = g[i]

(* Two sequences, one after the other.                                     *)
LEMMA Joined ==
  ASSUME NEW A, NEW m \in Nat, NEW f \in [1 .. m -> A], NEW k \in Nat, NEW g \in [1 .. k -> A]
  PROVE  Joins(f \o g, f, m, g, k, A)
<1>1. f \in Seq(A) /\ Len(f) = m /\ g \in Seq(A) /\ Len(g) = k
  BY FunctionIsSeq
<1> DEFINE c == f \o g
           n == m + k
<1>2. /\ c \in Seq(A) /\ Len(c) = Len(f) + Len(g)
      /\ \A i \in 1 .. Len(f) + Len(g) : c[i] = IF i <= Len(f) THEN f[i] ELSE g[i - Len(f)]
  BY <1>1, ConcatProperties, Zenon
<1> HIDE DEF c
<1>3. c \in Seq(A) /\ Len(c) = n
  BY <1>1, <1>2
<1>4. c \in [1 .. n -> A]
  BY <1>3
<1>5. \A i \in 1 .. n : c[i] = IF i <= m THEN f[i] ELSE g[i - m]
  BY <1>1, <1>2
<1>6. \A i \in 1 .. m : c[i] = f[i]
  BY <1>5
<1>7. ASSUME NEW i \in 1 .. k PROVE c[m + i] = g[i]
  <2>1. m + i \in 1 .. n /\ ~ m + i <= m /\ (m + i) - m = i
    OBVIOUS
  <2>. QED BY <1>5, <2>1
<1>. QED BY <1>4, <1>6, <1>7 DEF c, Joins

(* A layer whose cache is written by the w operations of ops.              *)
LayerOps(l, ops, w) ==
  [j \in 1 .. 24 + w |->
     IF j <= 14 THEN StageOp(l, j)
     ELSE IF j <= 14 + w THEN ops[j - 14] ELSE StageOp(l, j - w + 1)]

(* What a stage is.                                                        *)
LEMMA Stages ==
  ASSUME NEW l
  PROVE  /\ \A i \in 1 .. 2 : StageOp(l, i) = LayerEntry(l)[i]
         /\ \A i \in 1 .. 12 : StageOp(l, 2 + i) = Projections(l)[i]
         /\ StageOp(l, 15) = UpdateOp(l)
         /\ \A i \in 1 .. 3 : StageOp(l, 15 + i) = Output(l)[i]
         /\ \A i \in 1 .. 2 : StageOp(l, 18 + i) = LayerBetween(l)[i]
         /\ \A i \in 1 .. 4 : StageOp(l, 20 + i) = Mlp(l)[i]
         /\ \A i \in 1 .. 1 : StageOp(l, 24 + i) = LayerExit(l)[i]
<1>1. \A i \in 1 .. 2 : StageOp(l, i) = LayerEntry(l)[i]
  BY DEF StageOp
<1>2. \A i \in 1 .. 12 : StageOp(l, 2 + i) = Projections(l)[i]
  BY DEF StageOp
<1>3. StageOp(l, 15) = UpdateOp(l)
  BY DEF StageOp
<1>4. \A i \in 1 .. 3 : StageOp(l, 15 + i) = Output(l)[i]
  BY DEF StageOp
<1>5. \A i \in 1 .. 2 : StageOp(l, 18 + i) = LayerBetween(l)[i]
  BY DEF StageOp
<1>6. \A i \in 1 .. 4 : StageOp(l, 20 + i) = Mlp(l)[i]
  BY DEF StageOp
<1>7. \A i \in 1 .. 1 : StageOp(l, 24 + i) = LayerExit(l)[i]
  BY DEF StageOp
<1>. QED BY <1>1, <1>2, <1>3, <1>4, <1>5, <1>6, <1>7

(* So the operations of a layer are put together.                          *)
LEMMA LayerIs ==
  ASSUME NEW l, NEW w \in Nat, NEW B, NEW ops \in [1 .. w -> B]
  PROVE  DecoderLayer(l, Current(l), Projections(l) \o ops \o Output(l), Other(Current(l)))
           = LayerOps(l, ops, w)
<1> DEFINE U == {StageOp(l, s) : s \in 1 .. 25} \cup {ops[i] : i \in 1 .. w}
           S(s) == StageOp(l, s)
           a == LayerEntry(l)
           p == Projections(l)
           o == Output(l)
           c == LayerBetween(l)
           m == Mlp(l)
           e == LayerExit(l)
           d == DecoderLayer(l, Current(l), p \o ops \o o, Other(Current(l)))
<1>1. d = a \o (p \o ops \o o) \o c \o m \o e
  <2> HIDE DEF p, o
  <2>. QED BY DEF DecoderLayer, LayerEntry, LayerBetween, LayerExit
<1>2. (\A s \in 1 .. 25 : S(s) \in U) /\ (\A i \in 1 .. w : ops[i] \in U)
  OBVIOUS
<1>3. /\ a = [i \in 1 .. 2 |-> a[i]] /\ p = [i \in 1 .. 12 |-> p[i]]
      /\ o = [i \in 1 .. 3 |-> o[i]] /\ c = [i \in 1 .. 2 |-> c[i]]
      /\ m = [i \in 1 .. 4 |-> m[i]] /\ e = [i \in 1 .. 1 |-> e[i]]
  BY DEF LayerEntry, Projections, Output, LayerBetween, Mlp, LayerExit
<1>4. /\ \A i \in 1 .. 2 : a[i] = S(i)
      /\ \A i \in 1 .. 12 : p[i] = S(2 + i)
      /\ \A i \in 1 .. 3 : o[i] = S(15 + i)
      /\ \A i \in 1 .. 2 : c[i] = S(18 + i)
      /\ \A i \in 1 .. 4 : m[i] = S(20 + i)
      /\ \A i \in 1 .. 1 : e[i] = S(24 + i)
  BY Stages
<1> HIDE DEF U, S, a, p, o, c, m, e, d
<1>5. /\ \A i \in 1 .. 2 : i \in 1 .. 25
      /\ \A i \in 1 .. 12 : 2 + i \in 1 .. 25
      /\ \A i \in 1 .. 3 : 15 + i \in 1 .. 25
      /\ \A i \in 1 .. 2 : 18 + i \in 1 .. 25
      /\ \A i \in 1 .. 4 : 20 + i \in 1 .. 25
      /\ \A i \in 1 .. 1 : 24 + i \in 1 .. 25
  OBVIOUS
<1>6. a \in [1 .. 2 -> U] /\ p \in [1 .. 12 -> U] /\ o \in [1 .. 3 -> U]
  BY <1>2, <1>3, <1>4, <1>5
<1>7. c \in [1 .. 2 -> U] /\ m \in [1 .. 4 -> U] /\ e \in [1 .. 1 -> U]
  BY <1>2, <1>3, <1>4, <1>5
<1>8. ops \in [1 .. w -> U]
  BY <1>2
<1>9. 1 \in Nat /\ 2 \in Nat /\ 3 \in Nat /\ 4 \in Nat /\ 12 \in Nat
  OBVIOUS
<1> DEFINE c1 == p \o ops
           c2 == c1 \o o
           c3 == a \o c2
           c4 == c3 \o c
           c5 == c4 \o m
           c6 == c5 \o e
           n1 == 12 + w
           n2 == n1 + 3
           n3 == 2 + n2
           n4 == n3 + 2
           n5 == n4 + 4
           n6 == n5 + 1
<1>10. n1 \in Nat /\ n2 \in Nat /\ n3 \in Nat /\ n4 \in Nat /\ n5 \in Nat /\ n6 \in Nat
  OBVIOUS
<1>11. Joins(c1, p, 12, ops, w, U) /\ c1 \in [1 .. n1 -> U]
  <2>1. Joins(c1, p, 12, ops, w, U)
    BY <1>9, <1>6, <1>8, Joined, Zenon
  <2>. QED BY <2>1 DEF Joins
<1> HIDE DEF c1, n1
<1>12. Joins(c2, c1, n1, o, 3, U) /\ c2 \in [1 .. n2 -> U]
  <2>1. Joins(c2, c1, n1, o, 3, U)
    BY <1>9, <1>6, <1>10, <1>11, Joined, Zenon
  <2>. QED BY <2>1 DEF Joins
<1> HIDE DEF c2, n2
<1>13. Joins(c3, a, 2, c2, n2, U) /\ c3 \in [1 .. n3 -> U]
  <2>1. Joins(c3, a, 2, c2, n2, U)
    BY <1>9, <1>6, <1>10, <1>12, Joined, Zenon
  <2>. QED BY <2>1 DEF Joins
<1> HIDE DEF c3, n3
<1>14. Joins(c4, c3, n3, c, 2, U) /\ c4 \in [1 .. n4 -> U]
  <2>1. Joins(c4, c3, n3, c, 2, U)
    BY <1>9, <1>7, <1>10, <1>13, Joined, Zenon
  <2>. QED BY <2>1 DEF Joins
<1> HIDE DEF c4, n4
<1>15. Joins(c5, c4, n4, m, 4, U) /\ c5 \in [1 .. n5 -> U]
  <2>1. Joins(c5, c4, n4, m, 4, U)
    BY <1>9, <1>7, <1>10, <1>14, Joined, Zenon
  <2>. QED BY <2>1 DEF Joins
<1> HIDE DEF c5, n5
<1>16. Joins(c6, c5, n5, e, 1, U) /\ c6 \in [1 .. n6 -> U]
  <2>1. Joins(c6, c5, n5, e, 1, U)
    BY <1>9, <1>7, <1>10, <1>15, Joined, Zenon
  <2>. QED BY <2>1 DEF Joins
<1>17. d = c6
  BY <1>1 DEF c1, c2, c3, c4, c5
<1> HIDE DEF c6
<1>18. n1 = 12 + w /\ n2 = n1 + 3 /\ n3 = 2 + n2 /\ n4 = n3 + 2 /\ n5 = n4 + 4 /\ n6 = 24 + w
  BY DEF n1, n2, n3, n4, n5
<1> HIDE DEF n6
<1>19. /\ \A i \in 1 .. n4 : c6[i] = c4[i]
       /\ \A i \in 1 .. n3 : c6[i] = c3[i]
       /\ \A i \in 1 .. n2 : c6[2 + i] = c2[i]
       /\ \A i \in 1 .. n1 : c6[2 + i] = c1[i]
  <2>1. \A i \in 1 .. n4 : c6[i] = c4[i]
    <3>1. \A i \in 1 .. n4 : i \in 1 .. n5
      BY <1>10, <1>18
    <3>. QED BY <3>1, <1>15, <1>16 DEF Joins
  <2>2. \A i \in 1 .. n3 : c6[i] = c3[i]
    <3>1. \A i \in 1 .. n3 : i \in 1 .. n4
      BY <1>10, <1>18
    <3>. QED BY <3>1, <1>14, <2>1 DEF Joins
  <2>3. \A i \in 1 .. n2 : c6[2 + i] = c2[i]
    <3>1. \A i \in 1 .. n2 : 2 + i \in 1 .. n3
      BY <1>10, <1>18
    <3>. QED BY <3>1, <1>13, <2>2 DEF Joins
  <2>4. \A i \in 1 .. n1 : c6[2 + i] = c1[i]
    <3>1. \A i \in 1 .. n1 : i \in 1 .. n2
      BY <1>10, <1>18
    <3>. QED BY <3>1, <1>12, <2>3 DEF Joins
  <2>. QED BY <2>1, <2>2, <2>3, <2>4
<1>20. ASSUME NEW j \in 1 .. n6
       PROVE  c6[j] = IF j <= 14 THEN S(j) ELSE IF j <= 14 + w THEN ops[j - 14] ELSE S(j - w + 1)
  <2>1. CASE j \in 1 .. 2
    <3>1. j \in 1 .. n3 /\ j <= 14
      BY <1>10, <1>18, <2>1
    <3>2. c6[j] = S(j)
      BY <1>4, <1>13, <1>19, <2>1, <3>1 DEF Joins
    <3>. QED BY <3>1, <3>2
  <2>2. CASE j \in 3 .. 14
    <3> DEFINE i == j - 2
    <3>1. i \in 1 .. 12 /\ i \in 1 .. n1 /\ 2 + i = j /\ j <= 14
      BY <1>10, <1>18, <2>2
    <3> HIDE DEF i
    <3>2. c6[2 + i] = c1[i]
      BY <1>19, <3>1, Zenon
    <3>3. c1[i] = p[i]
      BY <1>11, <3>1 DEF Joins
    <3>4. p[i] = S(2 + i)
      BY <1>4, <3>1, Zenon
    <3>5. c6[2 + i] = S(2 + i)
      BY <3>2, <3>3, <3>4
    <3>. QED BY <3>1, <3>5
  <2>3. CASE j \in 15 .. 14 + w
    <3> DEFINE i == j - 14
    <3>1. i \in 1 .. w /\ 12 + i \in 1 .. n1 /\ 2 + (12 + i) = j /\ ~ j <= 14 /\ j <= 14 + w
      BY <1>10, <1>18, <2>3
    <3> HIDE DEF i
    <3>2. c6[2 + (12 + i)] = ops[i]
      BY <1>11, <1>19, <3>1 DEF Joins
    <3>. QED BY <3>1, <3>2 DEF i
  <2>4. CASE j \in 15 + w .. 17 + w
    <3> DEFINE i == j - (14 + w)
    <3>1. /\ i \in 1 .. 3 /\ n1 + i \in 1 .. n2 /\ 2 + (n1 + i) = j /\ 15 + i = j - w + 1
          /\ ~ j <= 14 /\ ~ j <= 14 + w
      BY <1>10, <1>18, <2>4
    <3> HIDE DEF i
    <3>2. c6[2 + (n1 + i)] = c2[n1 + i]
      BY <1>19, <3>1, Zenon
    <3>3. c2[n1 + i] = o[i]
      BY <1>12, <3>1 DEF Joins
    <3>4. o[i] = S(15 + i)
      BY <1>4, <3>1, Zenon
    <3>5. c6[2 + (n1 + i)] = S(15 + i)
      BY <3>2, <3>3, <3>4
    <3>. QED BY <3>1, <3>5
  <2>5. CASE j \in 18 + w .. 19 + w
    <3> DEFINE i == j - (17 + w)
    <3>1. /\ i \in 1 .. 2 /\ n3 + i \in 1 .. n4 /\ n3 + i = j /\ 18 + i = j - w + 1
          /\ ~ j <= 14 /\ ~ j <= 14 + w
      BY <1>10, <1>18, <2>5
    <3> HIDE DEF i
    <3>2. c6[n3 + i] = S(18 + i)
      BY <1>4, <1>14, <1>19, <3>1 DEF Joins
    <3>. QED BY <3>1, <3>2
  <2>6. CASE j \in 20 + w .. 23 + w
    <3> DEFINE i == j - (19 + w)
    <3>1. /\ i \in 1 .. 4 /\ n4 + i \in 1 .. n5 /\ n4 + i = j /\ 20 + i = j - w + 1
          /\ ~ j <= 14 /\ ~ j <= 14 + w
      BY <1>10, <1>18, <2>6
    <3> HIDE DEF i
    <3>2. c6[n4 + i] = S(20 + i)
      BY <1>4, <1>15, <1>16, <3>1 DEF Joins
    <3>. QED BY <3>1, <3>2
  <2>7. CASE j = 24 + w
    <3>1. /\ 1 \in 1 .. 1 /\ n5 + 1 = j /\ 24 + 1 = j - w + 1
          /\ ~ j <= 14 /\ ~ j <= 14 + w
      BY <1>10, <1>18, <2>7
    <3>2. c6[n5 + 1] = S(24 + 1)
      BY <1>4, <1>16, <3>1 DEF Joins
    <3>. QED BY <3>1, <3>2
  <2>. QED BY <1>10, <1>18, <2>1, <2>2, <2>3, <2>4, <2>5, <2>6, <2>7
<1>21. c6 = [j \in 1 .. 24 + w |-> c6[j]]
  BY <1>16, <1>18
<1>22. c6 = LayerOps(l, ops, w)
  BY <1>18, <1>20, <1>21 DEF LayerOps, S
<1>. QED BY <1>17, <1>22 DEF d, p, o

(* The operations that are of no layer.                                    *)
FirstOp == Op("embedding", <<0, "embed_tokens">>, <<"input_ids">>, "hidden_a", 0)
EndOp(e) ==
  CASE e = 1 -> Op("advance", << >>, << >>, Nowhere, 0)
    [] e = 2 -> RMSNorm(0, "norm", Current(NumLayers + 1), "hidden_states")
    [] e = 3 -> Linear(0, "lm_head", "hidden_states", "logits")

(* The parts of a model, in place: k operations a layer.                   *)
ModelLaid(program, f, k) ==
  LET n == NumLayers * k
  IN  /\ DOMAIN program = 1 .. 1 + n + 3 /\ Len(program) = 1 + n + 3
      /\ program[1] = FirstOp
      /\ \A l \in 1 .. NumLayers, j \in 1 .. k : program[1 + ((l - 1) * k + j)] = f[l][j]
      /\ \A e \in 1 .. 3 : program[1 + n + e] = EndOp(e)

(* So a model is put together from its layers.                             *)
LEMMA ModelIs ==
  ASSUME NEW k \in Nat \ {0}, NEW B, NEW f \in [1 .. NumLayers -> [1 .. k -> B]], NEW att,
         \A l \in 1 .. NumLayers : DecoderLayer(l, Current(l), att[l], Other(Current(l))) = f[l]
  PROVE  ModelLaid(Model(att), f, k)
<1> DEFINE N == NumLayers
           A == B \cup {FirstOp} \cup {EndOp(e) : e \in 1 .. 3}
           x == <<FirstOp>>
           y == FlattenSeq([l \in 1 .. N |->
                              DecoderLayer(l, Current(l), att[l], Other(Current(l)))])
           z == << Op("advance", << >>, << >>, Nowhere, 0),
                   RMSNorm(0, "norm", Current(NumLayers + 1), "hidden_states"),
                   Linear(0, "lm_head", "hidden_states", "logits") >>
           n == N * k
           c == x \o y
           m == 1 + n
<1>1. Model(att) = c \o z
  BY DEF Model, FirstOp
<1>2. /\ N \in Nat \ {0} /\ N \in Nat /\ n \in Nat
      /\ 1 \in Nat /\ 3 \in Nat /\ m \in Nat
  <2>1. N \in Nat \ {0} /\ N \in Nat
    BY DEF KVCacheAssumption
  <2> HIDE DEF N
  <2>2. n \in Nat
    BY <2>1
  <2> HIDE DEF n
  <2>. QED BY <2>1, <2>2
<1>3. y = Laid(f, N, k)
  <2>1. [l \in 1 .. N |-> DecoderLayer(l, Current(l), att[l], Other(Current(l)))] = f
    OBVIOUS
  <2> HIDE DEF N
  <2>2. FlattenSeq(f) = Laid(f, N, k)
    BY <1>2, FlattenLaid, Zenon DEF N
  <2>. QED BY <2>1, <2>2 DEF N
<1>4. y \in [1 .. n -> A]
  <2>1. \A p \in 1 .. n : f[(p - 1) \div k + 1][((p - 1) % k) + 1] \in A
    <3>1. SUFFICES ASSUME NEW p \in 1 .. n
                   PROVE  f[(p - 1) \div k + 1][((p - 1) % k) + 1] \in A
      OBVIOUS
    <3>2. (p - 1) \div k + 1 \in 1 .. N /\ ((p - 1) % k) + 1 \in 1 .. k
      BY <1>2, LaidFrom
    <3>. QED BY <3>2
  <2>. QED BY <1>3, <2>1 DEF Laid
<1>5. \A l \in 1 .. N, j \in 1 .. k : (l - 1) * k + j \in 1 .. n /\ y[(l - 1) * k + j] = f[l][j]
  <2>1. LiesInPlace(f, k)
    BY LaidAt, Zenon
  <2> HIDE DEF y, N
  <2>2. \A l \in 1 .. N : \A j \in 1 .. k :
          (l - 1) * k + j \in 1 .. N * k /\ Laid(f, N, k)[(l - 1) * k + j] = f[l][j]
    BY <1>2, <2>1, Zenon DEF LiesInPlace
  <2>. QED BY <1>3, <2>2, Zenon
<1>6. x \in [1 .. 1 -> A] /\ x[1] = FirstOp
  OBVIOUS
<1>7. z \in [1 .. 3 -> A] /\ \A e \in 1 .. 3 : z[e] = EndOp(e)
  <2>1. z[1] = EndOp(1) /\ z[2] = EndOp(2) /\ z[3] = EndOp(3)
    BY DEF EndOp
  <2>2. z = [e \in 1 .. 3 |-> z[e]]
    OBVIOUS
  <2>3. \A e \in 1 .. 3 : e = 1 \/ e = 2 \/ e = 3
    OBVIOUS
  <2> HIDE DEF z
  <2>4. \A e \in 1 .. 3 : z[e] = EndOp(e)
    BY <2>1, <2>3
  <2>. QED BY <2>2, <2>4
<1> HIDE DEF x, y, z, A, N, n
<1>8. Joins(c, x, 1, y, n, A) /\ c \in [1 .. m -> A]
  <2>1. Joins(c, x, 1, y, n, A)
    BY <1>2, <1>4, <1>6, Joined, Zenon
  <2>. QED BY <2>1 DEF Joins
<1> HIDE DEF c, m
<1> DEFINE d == c \o z
<1>9. Joins(d, c, m, z, 3, A)
  BY <1>2, <1>7, <1>8, Joined, Zenon
<1> HIDE DEF d
<1>10. DOMAIN d = 1 .. m + 3 /\ Len(d) = m + 3
  <2>1. d \in [1 .. m + 3 -> A] /\ m + 3 \in Nat
    BY <1>2, <1>9 DEF Joins
  <2>. QED BY <2>1, FunctionIsSeq
<1>11. d[1] = FirstOp
  <2>1. 1 \in 1 .. 1 /\ 1 \in 1 .. m
    BY <1>2 DEF m
  <2>. QED BY <1>6, <1>8, <1>9, <2>1 DEF Joins
<1>12. ASSUME NEW l \in 1 .. N, NEW j \in 1 .. k
       PROVE  d[1 + ((l - 1) * k + j)] = f[l][j]
  <2> DEFINE p == (l - 1) * k + j
  <2>1. p \in 1 .. n /\ y[p] = f[l][j]
    BY <1>5
  <2> HIDE DEF p
  <2>2. 1 + p \in 1 .. m
    BY <1>2, <2>1 DEF m
  <2>3. c[1 + p] = y[p]
    BY <1>8, <2>1 DEF Joins
  <2>4. d[1 + p] = c[1 + p]
    BY <1>9, <2>2 DEF Joins
  <2>. QED BY <2>1, <2>3, <2>4 DEF p
<1>13. \A e \in 1 .. 3 : d[m + e] = EndOp(e)
  BY <1>7, <1>9 DEF Joins
<1>14. m = 1 + NumLayers * k
  BY DEF m, n, N
<1>15. d = Model(att)
  BY <1>1 DEF d
<1>. QED BY <1>10, <1>11, <1>12, <1>13, <1>14, <1>15 DEF ModelLaid, N

(* What a batch does for row i between projections and attention.          *)
BatchOp(l, i, m) ==
  CASE m = 1 -> OfRow("row", <<"k_rot">>, "k_row", l, i)
    [] m = 2 -> OfRow("row", <<"v_3d">>, "v_row", l, i)
    [] m = 3 -> OfRow("update_layer", <<"k_row", "v_row">>, Nowhere, l, i)

(* What the cache writes of a batch are, row by row.                       *)
LEMMA BatchWritesAre ==
  ASSUME NEW l, NEW b \in Nat \ {0}
  PROVE  LET B == {BatchOp(l, i, m) : i \in 1 .. b, m \in 1 .. 3}
         IN  /\ BatchWrites(l, b) \in [1 .. b * 3 -> B]
             /\ \A i \in 1 .. b, m \in 1 .. 3 :
                  /\ (i - 1) * 3 + m \in 1 .. b * 3
                  /\ BatchWrites(l, b)[(i - 1) * 3 + m] = BatchOp(l, i, m)
<1> DEFINE B == {BatchOp(l, i, m) : i \in 1 .. b, m \in 1 .. 3}
           row(i) == << OfRow("row", <<"k_rot">>, "k_row", l, i),
                        OfRow("row", <<"v_3d">>, "v_row", l, i),
                        OfRow("update_layer", <<"k_row", "v_row">>, Nowhere, l, i) >>
           s == [i \in 1 .. b |-> row(i)]
           k == 3
<1>1. BatchWrites(l, b) = FlattenSeq(s)
  BY DEF BatchWrites
<1>2. ASSUME NEW i \in 1 .. b
      PROVE  row(i) \in [1 .. k -> B] /\ \A m \in 1 .. k : row(i)[m] = BatchOp(l, i, m)
  <2> DEFINE r == row(i)
  <2>1. r[1] = BatchOp(l, i, 1) /\ r[2] = BatchOp(l, i, 2) /\ r[3] = BatchOp(l, i, 3)
    BY DEF BatchOp
  <2>2. r = [m \in 1 .. k |-> r[m]]
    OBVIOUS
  <2>3. \A m \in 1 .. k : m = 1 \/ m = 2 \/ m = 3
    OBVIOUS
  <2> HIDE DEF r
  <2>4. \A m \in 1 .. k : r[m] = BatchOp(l, i, m)
    BY <2>1, <2>3
  <2>. QED BY <2>2, <2>4 DEF r
<1>3. s \in [1 .. b -> [1 .. k -> B]] /\ \A i \in 1 .. b, m \in 1 .. k : s[i][m] = BatchOp(l, i, m)
  <2> HIDE DEF B, row, k
  <2>. QED BY <1>2
<1>4. k \in Nat \ {0}
  OBVIOUS
<1> HIDE DEF s, B, k
<1>5. FlattenSeq(s) = Laid(s, b, k)
  BY <1>3, <1>4, FlattenLaid, Zenon
<1>6. LiesInPlace(s, k)
  BY <1>4, LaidAt, Zenon
<1>7. \A i \in 1 .. b, m \in 1 .. k :
        (i - 1) * k + m \in 1 .. b * k /\ Laid(s, b, k)[(i - 1) * k + m] = s[i][m]
  BY <1>6, Zenon DEF LiesInPlace
<1>8. Laid(s, b, k) \in [1 .. b * k -> B]
  <2>1. \A p \in 1 .. b * k : s[(p - 1) \div k + 1][((p - 1) % k) + 1] \in B
    <3>1. SUFFICES ASSUME NEW p \in 1 .. b * k
                   PROVE  s[(p - 1) \div k + 1][((p - 1) % k) + 1] \in B
      OBVIOUS
    <3>2. (p - 1) \div k + 1 \in 1 .. b /\ ((p - 1) % k) + 1 \in 1 .. k
      BY <1>4, LaidFrom
    <3>. QED BY <1>3, <3>2
  <2>. QED BY <2>1 DEF Laid
<1>9. /\ BatchWrites(l, b) \in [1 .. b * k -> B]
      /\ \A i \in 1 .. b, m \in 1 .. k :
           (i - 1) * k + m \in 1 .. b * k /\ BatchWrites(l, b)[(i - 1) * k + m] = BatchOp(l, i, m)
  <2>1. BatchWrites(l, b) = Laid(s, b, k)
    BY <1>1, <1>5, Zenon
  <2>2. ASSUME NEW i \in 1 .. b, NEW m \in 1 .. k
        PROVE  /\ (i - 1) * k + m \in 1 .. b * k
               /\ BatchWrites(l, b)[(i - 1) * k + m] = BatchOp(l, i, m)
    <3>1. (i - 1) * k + m \in 1 .. b * k /\ Laid(s, b, k)[(i - 1) * k + m] = s[i][m]
      BY <1>7, Zenon
    <3>2. s[i][m] = BatchOp(l, i, m)
      BY <1>3, Zenon
    <3>. QED BY <2>1, <3>1, <3>2, Zenon
  <2>. QED BY <1>8, <2>1, <2>2, Zenon
<1>10. k = 3
  BY DEF k
<1> HIDE DEF k
<1>11. /\ BatchWrites(l, b) \in [1 .. b * 3 -> B]
       /\ \A i \in 1 .. b, m \in 1 .. 3 :
           (i - 1) * 3 + m \in 1 .. b * 3 /\ BatchWrites(l, b)[(i - 1) * 3 + m] = BatchOp(l, i, m)
  BY <1>9, <1>10, Zenon
<1>. QED BY <1>11 DEF B

(* The rows of a pass, and how many operations its layers have.            *)
LEMMA Lengths ==
  ASSUME JobTypes
  PROVE  /\ Rows = 1 .. Len(job.tokens) /\ Len(job.tokens) \in Nat \ {0}
         /\ CacheOps \in Nat \ {0} /\ LayerLength \in Nat \ {0} /\ LayerLength = 24 + CacheOps
         /\ job.kind = "batch" => CacheOps = 3 * Len(job.tokens)
         /\ job.kind = "forward" => CacheOps = 1
<1>1. Len(job.tokens) \in Nat \ {0} /\ Rows = 1 .. Len(job.tokens)
  <2> DEFINE n == Len(job.tokens)
  <2>1. n \in Nat \ {0} /\ job.tokens = [i \in 1 .. n |-> <<passes, i>>]
    BY DEF JobTypes
  <2> HIDE DEF n
  <2>2. DOMAIN job.tokens = 1 .. n
    BY <2>1
  <2>. QED BY <2>1, <2>2 DEF Rows, n
<1>2. job.kind \in {"forward", "batch"}
  BY DEF JobTypes
<1>3. CacheOps \in Nat \ {0}
  BY <1>1, <1>2 DEF CacheOps
<1>4. LayerLength \in Nat \ {0} /\ LayerLength = 24 + CacheOps
  BY <1>3 DEF LayerLength
<1>. QED BY <1>1, <1>3, <1>4 DEF CacheOps

(* Where the operations lie, and what comes after what.                    *)
LEMMA Positions ==
  ASSUME JobTypes
  PROVE  /\ At(1, 1) = 2
         /\ \A l \in 1 .. NumLayers + 1, j \in Nat :
              At(l, j) \in Nat \ {0} /\ At(l, j) + 1 = At(l, j + 1)
         /\ \A l \in 1 .. NumLayers : At(l, LayerLength + 1) = At(l + 1, 1)
         /\ \A l \in 1 .. NumLayers, j \in 1 .. LayerLength : At(l, j) < At(NumLayers + 1, 1)
<1> DEFINE N == NumLayers
           k == LayerLength
<1>1. N \in Nat \ {0} /\ k \in Nat \ {0}
  BY Lengths
<1> HIDE DEF N, k
<1>2. At(1, 1) = 2
  BY <1>1 DEF At, k
<1>3. ASSUME NEW l \in 1 .. N + 1, NEW j \in Nat
      PROVE  At(l, j) \in Nat \ {0} /\ At(l, j) + 1 = At(l, j + 1)
  <2> DEFINE b == (l - 1) * k
  <2>1. b \in Nat
    BY <1>1
  <2>2. At(l, j) = 1 + (b + j) /\ At(l, j + 1) = 1 + (b + (j + 1))
    BY DEF At, k
  <2> HIDE DEF b
  <2>. QED BY <2>1, <2>2
<1>4. ASSUME NEW l \in 1 .. N
      PROVE  At(l, k + 1) = At(l + 1, 1)
  <2>1. (l - 1) * k + (k + 1) = ((l + 1) - 1) * k + 1
    BY <1>1
  <2>. QED BY <2>1 DEF At, k
<1>5. ASSUME NEW l \in 1 .. N, NEW j \in 1 .. k
      PROVE  At(l, j) < At(N + 1, 1)
  <2> DEFINE s == [i \in 1 .. N |-> i]
             b == (l - 1) * k + j
  <2>1. LiesInPlace(s, k)
    BY <1>1, LaidAt, Zenon
  <2> HIDE DEF s
  <2>2. b \in 1 .. N * k
    BY <1>1, <2>1, Zenon DEF LiesInPlace
  <2> DEFINE e == N * k
  <2>3. e \in Nat
    BY <1>1
  <2>4. At(l, j) = 1 + b /\ At(N + 1, 1) = 1 + (e + 1)
    <3>1. (N + 1) - 1 = N
      BY <1>1
    <3>. QED BY <3>1 DEF At, k
  <2> HIDE DEF b, e
  <2>5. b \in 1 .. e
    BY <2>2 DEF b, e
  <2>. QED BY <2>3, <2>4, <2>5
<1>. QED BY <1>2, <1>3, <1>4, <1>5 DEF N, k

(* The operation at every place of a program.                              *)
ProgramLaid ==
  /\ DOMAIN Program = 1 .. At(NumLayers + 1, 3) /\ Len(Program) = At(NumLayers + 1, 3)
  /\ Program[1] = FirstOp
  /\ \A l \in 1 .. NumLayers, s \in 1 .. 25 :
       (s = 15 => job.kind = "forward") => Program[At(l, Place(s))] = StageOp(l, s)
  /\ job.kind = "batch" =>
       \A l \in 1 .. NumLayers, i \in Rows, m \in 1 .. 3 :
         Program[At(l, 14 + ((i - 1) * 3 + m))] = BatchOp(l, i, m)
  /\ \A e \in 1 .. 3 : Program[At(NumLayers + 1, e)] = EndOp(e)

(* The program of a pass is laid out as said, whatever the job.            *)
LEMMA ProgramIs ==
  ASSUME JobTypes, JobFits
  PROVE  ProgramLaid
<1> DEFINE k == LayerLength
           w == CacheOps
           b == Len(job.tokens)
           ops == [l \in 1 .. NumLayers |->
                     IF job.kind = "batch" THEN BatchWrites(l, b) ELSE <<UpdateOp(l)>>]
           f == [l \in 1 .. NumLayers |-> LayerOps(l, ops[l], w)]
           B == {f[l][j] : l \in 1 .. NumLayers, j \in 1 .. k}
<1>1. /\ Rows = 1 .. b /\ b \in Nat \ {0} /\ w \in Nat \ {0} /\ k \in Nat \ {0} /\ k = 24 + w
      /\ job.kind \in {"forward", "batch"}
      /\ job.kind = "batch" => w = b * 3
      /\ job.kind = "forward" => w = 1
  <2>1. job.kind \in {"forward", "batch"}
    BY DEF JobTypes
  <2>. QED BY <2>1, Lengths
<1> HIDE DEF k, w, b
<1>2. /\ job.kind = "batch" => b \in 1 .. Cardinality(Requests)
  BY DEF JobFits, b
<1> DEFINE att == [l \in 1 .. NumLayers |-> Projections(l) \o ops[l] \o Output(l)]
<1>3. Program = Model(att)
  <2>1. CASE job.kind = "batch"
    <3>1. Program = BatchProgram[b]
      BY <2>1 DEF Program, b
    <3>2. BatchProgram[b] = Model([l \in 1 .. NumLayers |-> BatchAttention(l, b)])
      BY <1>2, <2>1 DEF BatchProgram
    <3>3. [l \in 1 .. NumLayers |-> BatchAttention(l, b)] = att
      BY <2>1 DEF BatchAttention
    <3>. QED BY <3>1, <3>2, <3>3
  <2>2. CASE job.kind = "forward"
    <3>1. Program = ForwardProgram
      BY <2>2 DEF Program
    <3>2. ASSUME NEW l \in 1 .. NumLayers PROVE Attention(l) = att[l]
      BY <2>2 DEF Attention, UpdateOp
    <3>3. [l \in 1 .. NumLayers |-> Attention(l)] = att
      BY <3>2
    <3>. QED BY <3>1, <3>3 DEF ForwardProgram
  <2>. QED BY <1>1, <2>1, <2>2
<1>4. ASSUME NEW l \in 1 .. NumLayers
      PROVE  /\ ops[l] = [c \in 1 .. w |-> ops[l][c]]
             /\ job.kind = "forward" => ops[l][1] = UpdateOp(l)
             /\ job.kind = "batch" => \A i \in 1 .. b, m \in 1 .. 3 :
                  (i - 1) * 3 + m \in 1 .. w /\ ops[l][(i - 1) * 3 + m] = BatchOp(l, i, m)
  <2>1. CASE job.kind = "batch"
    <3>1. ops[l] = BatchWrites(l, b) /\ w = b * 3
      BY <1>1, <2>1
    <3> HIDE DEF ops
    <3>. QED BY <1>1, <2>1, <3>1, BatchWritesAre
  <2>2. CASE job.kind = "forward"
    <3>1. ops[l] = <<UpdateOp(l)>> /\ w = 1
      BY <1>1, <2>2
    <3>. QED BY <2>2, <3>1
  <2>. QED BY <1>1, <2>1, <2>2
<1> HIDE DEF ops
<1>5. f \in [1 .. NumLayers -> [1 .. k -> B]]
  <2>1. ASSUME NEW l \in 1 .. NumLayers PROVE f[l] = [j \in 1 .. k |-> f[l][j]]
    <3>1. f[l] = LayerOps(l, ops[l], w)
      OBVIOUS
    <3> HIDE DEF f
    <3>. QED BY <1>1, <3>1 DEF LayerOps
  <2>2. f = [l \in 1 .. NumLayers |-> f[l]]
    OBVIOUS
  <2> HIDE DEF f
  <2>. QED BY <2>1, <2>2
<1>6. ASSUME NEW l \in 1 .. NumLayers
      PROVE  DecoderLayer(l, Current(l), att[l], Other(Current(l))) = f[l]
  <2> DEFINE C == {ops[l][c] : c \in 1 .. w}
  <2>1. ops[l] \in [1 .. w -> C] /\ w \in Nat
    BY <1>1, <1>4
  <2> HIDE DEF C
  <2>2. DecoderLayer(l, Current(l), Projections(l) \o ops[l] \o Output(l), Other(Current(l)))
          = LayerOps(l, ops[l], w)
    BY <2>1, LayerIs, Zenon
  <2>. QED BY <2>2
<1>7. /\ \A l \in 1 .. NumLayers, j \in 1 .. 14 : j \in 1 .. k /\ f[l][j] = StageOp(l, j)
      /\ \A l \in 1 .. NumLayers, c \in 1 .. w : 14 + c \in 1 .. k /\ f[l][14 + c] = ops[l][c]
      /\ \A l \in 1 .. NumLayers, s \in 16 .. 25 :
           s + w - 1 \in 1 .. k /\ f[l][s + w - 1] = StageOp(l, s)
  <2> SUFFICES ASSUME NEW l \in 1 .. NumLayers
               PROVE  /\ \A j \in 1 .. 14 : j \in 1 .. k /\ f[l][j] = StageOp(l, j)
                      /\ \A c \in 1 .. w : 14 + c \in 1 .. k /\ f[l][14 + c] = ops[l][c]
                      /\ \A s \in 16 .. 25 :
                           s + w - 1 \in 1 .. k /\ f[l][s + w - 1] = StageOp(l, s)
    OBVIOUS
  <2> DEFINE o == ops[l]
             g == LayerOps(l, o, w)
  <2>0. f[l] = g
    OBVIOUS
  <2> HIDE DEF o, f
  <2>1. \A j \in 1 .. 24 + w :
          g[j] = IF j <= 14 THEN StageOp(l, j)
                 ELSE IF j <= 14 + w THEN o[j - 14] ELSE StageOp(l, j - w + 1)
    BY DEF LayerOps
  <2> HIDE DEF g
  <2>2. \A j \in 1 .. 14 : j \in 1 .. 24 + w /\ g[j] = StageOp(l, j)
    BY <1>1, <2>1
  <2>3. ASSUME NEW c \in 1 .. w PROVE 14 + c \in 1 .. 24 + w /\ g[14 + c] = o[c]
    <3>1. /\ 14 + c \in 1 .. 24 + w /\ ~ (14 + c <= 14) /\ 14 + c <= 14 + w
          /\ (14 + c) - 14 = c
      BY <1>1
    <3>. QED BY <2>1, <3>1
  <2>4. ASSUME NEW s \in 16 .. 25
        PROVE  s + w - 1 \in 1 .. 24 + w /\ g[s + w - 1] = StageOp(l, s)
    <3>1. /\ s + w - 1 \in 1 .. 24 + w /\ ~ (s + w - 1 <= 14) /\ ~ (s + w - 1 <= 14 + w)
          /\ (s + w - 1) - w + 1 = s
      BY <1>1
    <3>. QED BY <2>1, <3>1
  <2>. QED BY <1>1, <2>0, <2>2, <2>3, <2>4 DEF o
<1> HIDE DEF f, B, att
<1>8. ModelLaid(Program, f, k)
  <2>1. ModelLaid(Model(att), f, k)
    BY <1>1, <1>5, <1>6, ModelIs, Zenon
  <2>. QED BY <1>3, <2>1
<1>9. \A l \in 1 .. NumLayers, j \in 1 .. k : Program[At(l, j)] = f[l][j]
  BY <1>8 DEF ModelLaid, At, k
<1>10. /\ At(NumLayers + 1, 3) = 1 + NumLayers * k + 3
       /\ \A e \in 1 .. 3 : At(NumLayers + 1, e) = 1 + NumLayers * k + e
  <2>1. (NumLayers + 1) - 1 = NumLayers /\ NumLayers * k \in Nat
    BY <1>1
  <2>. QED BY <2>1 DEF At, k
<1>11. ASSUME NEW l \in 1 .. NumLayers, NEW s \in 1 .. 25, s = 15 => job.kind = "forward"
       PROVE  Program[At(l, Place(s))] = StageOp(l, s)
  <2>1. CASE s \in 1 .. 14
    <3>1. Place(s) = s
      BY <2>1 DEF Place
    <3>. QED BY <1>7, <1>9, <2>1, <3>1
  <2>2. CASE s = 15
    <3>0. Place(s) = 15 /\ 1 \in 1 .. w /\ 14 + 1 = 15
      BY <1>1, <2>2 DEF Place
    <3>1. Place(s) = 15 /\ 1 \in 1 .. w /\ 14 + 1 = 15 /\ ops[l][1] = UpdateOp(l)
      BY <1>4, <1>11, <2>2, <3>0
    <3>2. 15 \in 1 .. k /\ f[l][15] = UpdateOp(l)
      BY <1>7, <3>1
    <3>3. StageOp(l, 15) = UpdateOp(l)
      BY Stages
    <3>. QED BY <1>9, <2>2, <3>1, <3>2, <3>3
  <2>3. CASE s \in 16 .. 25
    <3>1. Place(s) = s + w - 1
      BY <2>3 DEF Place, w
    <3>. QED BY <1>7, <1>9, <2>3, <3>1
  <2>. QED BY <2>1, <2>2, <2>3
<1>12. ASSUME job.kind = "batch", NEW l \in 1 .. NumLayers, NEW i \in Rows, NEW m \in 1 .. 3
       PROVE  Program[At(l, 14 + ((i - 1) * 3 + m))] = BatchOp(l, i, m)
  <2> DEFINE c == (i - 1) * 3 + m
  <2>1. c \in 1 .. w /\ ops[l][c] = BatchOp(l, i, m)
    BY <1>1, <1>4, <1>12
  <2> HIDE DEF c
  <2>2. Program[At(l, 14 + c)] = BatchOp(l, i, m)
    BY <1>7, <1>9, <2>1
  <2>. QED BY <2>2 DEF c
<1>13. \A e \in 1 .. 3 : Program[At(NumLayers + 1, e)] = EndOp(e)
  BY <1>8, <1>10 DEF ModelLaid
<1>14. /\ DOMAIN Program = 1 .. At(NumLayers + 1, 3) /\ Len(Program) = At(NumLayers + 1, 3)
       /\ Program[1] = FirstOp
  BY <1>8, <1>10 DEF ModelLaid
<1>. QED BY <1>11, <1>12, <1>13, <1>14 DEF ProgramLaid

(* The operations of no weight, by name.                                   *)
Rotary(l, in, out) == Op("rotary", << >>, <<in>>, out, l)
Attend(l) == Op("attention", << >>, <<"q_rot", "k_rot", "v_3d">>, "attn_out_3d", l)
Add(l, in, more, out) == Op("add", << >>, <<in, more>>, out, l)
Act(l) == Op("silu_and_mul", << >>, <<"gate", "up">>, "act", l)

(* The operations of a layer, one by one.                                  *)
LEMMA StageIs ==
  ASSUME NEW l
  PROVE  /\ StageOp(l, 1) = Op("locals", << >>, << >>, Nowhere, l)
         /\ StageOp(l, 2) = RMSNorm(l, "input_layernorm", Current(l), "normed_1")
         /\ StageOp(l, 3) = Linear(l, "q_proj", "normed_1", "q_flat")
         /\ StageOp(l, 4) = Linear(l, "k_proj", "normed_1", "k_flat")
         /\ StageOp(l, 5) = Linear(l, "v_proj", "normed_1", "v_flat")
         /\ StageOp(l, 6) = Copy("q_flat", "q_2d")
         /\ StageOp(l, 7) = Copy("k_flat", "k_2d")
         /\ StageOp(l, 8) = RMSNorm(l, "q_norm", "q_2d", "q_normed_2d")
         /\ StageOp(l, 9) = RMSNorm(l, "k_norm", "k_2d", "k_normed_2d")
         /\ StageOp(l, 10) = Copy("q_normed_2d", "q_3d")
         /\ StageOp(l, 11) = Copy("k_normed_2d", "k_3d")
         /\ StageOp(l, 12) = Copy("v_flat", "v_3d")
         /\ StageOp(l, 13) = Rotary(l, "q_3d", "q_rot")
         /\ StageOp(l, 14) = Rotary(l, "k_3d", "k_rot")
         /\ StageOp(l, 15) = UpdateOp(l)
         /\ StageOp(l, 16) = Attend(l)
         /\ StageOp(l, 17) = Copy("attn_out_3d", "attn_out_flat")
         /\ StageOp(l, 18) = Linear(l, "o_proj", "attn_out_flat", "attn_out")
         /\ StageOp(l, 19) = Add(l, Current(l), "attn_out", "residual_after_attn")
         /\ StageOp(l, 20) =
              RMSNorm(l, "post_attention_layernorm", "residual_after_attn", "normed_2")
         /\ StageOp(l, 21) = Linear(l, "gate_proj", "normed_2", "gate")
         /\ StageOp(l, 22) = Linear(l, "up_proj", "normed_2", "up")
         /\ StageOp(l, 23) = Act(l)
         /\ StageOp(l, 24) = Linear(l, "down_proj", "act", "mlp_out")
         /\ StageOp(l, 25) = Add(l, "residual_after_attn", "mlp_out", Other(Current(l)))
<1>1. /\ StageOp(l, 1) = Op("locals", << >>, << >>, Nowhere, l)
      /\ StageOp(l, 2) = RMSNorm(l, "input_layernorm", Current(l), "normed_1")
  <2>1. /\ LayerEntry(l)[1] = Op("locals", << >>, << >>, Nowhere, l)
        /\ LayerEntry(l)[2] = RMSNorm(l, "input_layernorm", Current(l), "normed_1")
    BY DEF LayerEntry, Rotary, Attend, Add, Act
  <2>2. /\ StageOp(l, 1) = LayerEntry(l)[1]
        /\ StageOp(l, 2) = LayerEntry(l)[2]
    BY DEF StageOp
  <2>. QED BY <2>1, <2>2, Zenon
<1>2. /\ StageOp(l, 3) = Linear(l, "q_proj", "normed_1", "q_flat")
      /\ StageOp(l, 4) = Linear(l, "k_proj", "normed_1", "k_flat")
      /\ StageOp(l, 5) = Linear(l, "v_proj", "normed_1", "v_flat")
      /\ StageOp(l, 6) = Copy("q_flat", "q_2d")
      /\ StageOp(l, 7) = Copy("k_flat", "k_2d")
      /\ StageOp(l, 8) = RMSNorm(l, "q_norm", "q_2d", "q_normed_2d")
      /\ StageOp(l, 9) = RMSNorm(l, "k_norm", "k_2d", "k_normed_2d")
      /\ StageOp(l, 10) = Copy("q_normed_2d", "q_3d")
      /\ StageOp(l, 11) = Copy("k_normed_2d", "k_3d")
      /\ StageOp(l, 12) = Copy("v_flat", "v_3d")
      /\ StageOp(l, 13) = Rotary(l, "q_3d", "q_rot")
      /\ StageOp(l, 14) = Rotary(l, "k_3d", "k_rot")
  <2>1. /\ Projections(l)[1] = Linear(l, "q_proj", "normed_1", "q_flat")
        /\ Projections(l)[2] = Linear(l, "k_proj", "normed_1", "k_flat")
        /\ Projections(l)[3] = Linear(l, "v_proj", "normed_1", "v_flat")
        /\ Projections(l)[4] = Copy("q_flat", "q_2d")
        /\ Projections(l)[5] = Copy("k_flat", "k_2d")
        /\ Projections(l)[6] = RMSNorm(l, "q_norm", "q_2d", "q_normed_2d")
        /\ Projections(l)[7] = RMSNorm(l, "k_norm", "k_2d", "k_normed_2d")
        /\ Projections(l)[8] = Copy("q_normed_2d", "q_3d")
        /\ Projections(l)[9] = Copy("k_normed_2d", "k_3d")
        /\ Projections(l)[10] = Copy("v_flat", "v_3d")
        /\ Projections(l)[11] = Rotary(l, "q_3d", "q_rot")
        /\ Projections(l)[12] = Rotary(l, "k_3d", "k_rot")
    BY DEF Projections, Rotary, Attend, Add, Act
  <2>2. /\ StageOp(l, 3) = Projections(l)[1]
        /\ StageOp(l, 4) = Projections(l)[2]
        /\ StageOp(l, 5) = Projections(l)[3]
        /\ StageOp(l, 6) = Projections(l)[4]
        /\ StageOp(l, 7) = Projections(l)[5]
        /\ StageOp(l, 8) = Projections(l)[6]
        /\ StageOp(l, 9) = Projections(l)[7]
        /\ StageOp(l, 10) = Projections(l)[8]
        /\ StageOp(l, 11) = Projections(l)[9]
        /\ StageOp(l, 12) = Projections(l)[10]
        /\ StageOp(l, 13) = Projections(l)[11]
        /\ StageOp(l, 14) = Projections(l)[12]
    BY DEF StageOp
  <2>. QED BY <2>1, <2>2, Zenon
<1>3. /\ StageOp(l, 16) = Attend(l)
      /\ StageOp(l, 17) = Copy("attn_out_3d", "attn_out_flat")
      /\ StageOp(l, 18) = Linear(l, "o_proj", "attn_out_flat", "attn_out")
  <2>1. /\ Output(l)[1] = Attend(l)
        /\ Output(l)[2] = Copy("attn_out_3d", "attn_out_flat")
        /\ Output(l)[3] = Linear(l, "o_proj", "attn_out_flat", "attn_out")
    BY DEF Output, Rotary, Attend, Add, Act
  <2>2. /\ StageOp(l, 16) = Output(l)[1]
        /\ StageOp(l, 17) = Output(l)[2]
        /\ StageOp(l, 18) = Output(l)[3]
    BY DEF StageOp
  <2>. QED BY <2>1, <2>2, Zenon
<1>4. /\ StageOp(l, 19) = Add(l, Current(l), "attn_out", "residual_after_attn")
      /\ StageOp(l, 20) = RMSNorm(l, "post_attention_layernorm", "residual_after_attn", "normed_2")
  <2>1. /\ LayerBetween(l)[1] = Add(l, Current(l), "attn_out", "residual_after_attn")
        /\ LayerBetween(l)[2] =
             RMSNorm(l, "post_attention_layernorm", "residual_after_attn", "normed_2")
    BY DEF LayerBetween, Rotary, Attend, Add, Act
  <2>2. /\ StageOp(l, 19) = LayerBetween(l)[1]
        /\ StageOp(l, 20) = LayerBetween(l)[2]
    BY DEF StageOp
  <2>. QED BY <2>1, <2>2, Zenon
<1>5. /\ StageOp(l, 21) = Linear(l, "gate_proj", "normed_2", "gate")
      /\ StageOp(l, 22) = Linear(l, "up_proj", "normed_2", "up")
      /\ StageOp(l, 23) = Act(l)
      /\ StageOp(l, 24) = Linear(l, "down_proj", "act", "mlp_out")
  <2>1. /\ Mlp(l)[1] = Linear(l, "gate_proj", "normed_2", "gate")
        /\ Mlp(l)[2] = Linear(l, "up_proj", "normed_2", "up")
        /\ Mlp(l)[3] = Act(l)
        /\ Mlp(l)[4] = Linear(l, "down_proj", "act", "mlp_out")
    BY DEF Mlp, Rotary, Attend, Add, Act
  <2>2. /\ StageOp(l, 21) = Mlp(l)[1]
        /\ StageOp(l, 22) = Mlp(l)[2]
        /\ StageOp(l, 23) = Mlp(l)[3]
        /\ StageOp(l, 24) = Mlp(l)[4]
    BY DEF StageOp
  <2>. QED BY <2>1, <2>2, Zenon
<1>6. /\ StageOp(l, 25) = Add(l, "residual_after_attn", "mlp_out", Other(Current(l)))
  <2>1. /\ LayerExit(l)[1] = Add(l, "residual_after_attn", "mlp_out", Other(Current(l)))
    BY DEF LayerExit, Rotary, Attend, Add, Act
  <2>2. /\ StageOp(l, 25) = LayerExit(l)[1]
    BY DEF StageOp
  <2>. QED BY <2>1, <2>2, Zenon
<1>7. StageOp(l, 15) = UpdateOp(l)
  BY Stages
<1>. QED BY <1>1, <1>2, <1>3, <1>4, <1>5, <1>6, <1>7, Zenon

(* No two stages of a layer write the same tensor, and none its input.     *)
LEMMA OutsDiffer ==
  /\ \A q, s \in 2 .. 24 : q # 15 /\ s # 15 /\ q # s => Outs[q] # Outs[s]
  /\ \A s \in 2 .. 24, l \in Nat : s # 15 => Outs[s] # Current(l) /\ Outs[s] # Other(Current(l))
<1> DEFINE Others == {"hidden_a", "hidden_b"}
           Index == [v \in {Outs[s] : s \in (2 .. 24) \ {15}} |->
                       CHOOSE s \in (2 .. 24) \ {15} : Outs[s] = v]
<1>1. \A q, s \in 2 .. 24 : q # 15 /\ s # 15 /\ q # s => Outs[q] # Outs[s]
  BY DEF Outs
<1>2. \A s \in 2 .. 24 : s # 15 => Outs[s] \notin Others
  BY DEF Outs
<1>3. \A l \in Nat : Current(l) \in Others /\ Other(Current(l)) \in Others
  BY DEF Current, Other
<1>. QED BY <1>1, <1>2, <1>3


(* Where each stage writes.                                                *)
LEMMA StageOuts ==
  ASSUME NEW l, NEW s \in 2 .. 24, s # 15
  PROVE  StageOp(l, s).out = Outs[s]
<1>1. /\ StageOp(l, 2).out = "normed_1"
      /\ StageOp(l, 3).out = "q_flat"
      /\ StageOp(l, 4).out = "k_flat"
      /\ StageOp(l, 5).out = "v_flat"
      /\ StageOp(l, 6).out = "q_2d"
      /\ StageOp(l, 7).out = "k_2d"
      /\ StageOp(l, 8).out = "q_normed_2d"
      /\ StageOp(l, 9).out = "k_normed_2d"
      /\ StageOp(l, 10).out = "q_3d"
      /\ StageOp(l, 11).out = "k_3d"
      /\ StageOp(l, 12).out = "v_3d"
      /\ StageOp(l, 13).out = "q_rot"
      /\ StageOp(l, 14).out = "k_rot"
      /\ StageOp(l, 16).out = "attn_out_3d"
      /\ StageOp(l, 17).out = "attn_out_flat"
      /\ StageOp(l, 18).out = "attn_out"
      /\ StageOp(l, 19).out = "residual_after_attn"
      /\ StageOp(l, 20).out = "normed_2"
      /\ StageOp(l, 21).out = "gate"
      /\ StageOp(l, 22).out = "up"
      /\ StageOp(l, 23).out = "act"
      /\ StageOp(l, 24).out = "mlp_out"
  BY StageIs DEF RMSNorm, Linear, Copy, Rotary, Attend, Add, Act, Op
<1>2. /\ Outs[2] = "normed_1"
      /\ Outs[3] = "q_flat"
      /\ Outs[4] = "k_flat"
      /\ Outs[5] = "v_flat"
      /\ Outs[6] = "q_2d"
      /\ Outs[7] = "k_2d"
      /\ Outs[8] = "q_normed_2d"
      /\ Outs[9] = "k_normed_2d"
      /\ Outs[10] = "q_3d"
      /\ Outs[11] = "k_3d"
      /\ Outs[12] = "v_3d"
      /\ Outs[13] = "q_rot"
      /\ Outs[14] = "k_rot"
      /\ Outs[16] = "attn_out_3d"
      /\ Outs[17] = "attn_out_flat"
      /\ Outs[18] = "attn_out"
      /\ Outs[19] = "residual_after_attn"
      /\ Outs[20] = "normed_2"
      /\ Outs[21] = "gate"
      /\ Outs[22] = "up"
      /\ Outs[23] = "act"
      /\ Outs[24] = "mlp_out"
  BY DEF Outs
<1>3. \/ s = 2 \/ s = 3 \/ s = 4 \/ s = 5 \/ s = 6 \/ s = 7
      \/ s = 8 \/ s = 9 \/ s = 10 \/ s = 11 \/ s = 12 \/ s = 13
      \/ s = 14 \/ s = 16 \/ s = 17 \/ s = 18 \/ s = 19 \/ s = 20
      \/ s = 21 \/ s = 22 \/ s = 23 \/ s = 24
  OBVIOUS
<1>. QED BY <1>1, <1>2, <1>3

(* The tensors a pass has outside its layers.                              *)
Ends == {"input_ids", "hidden_a", "hidden_b", "hidden_states", "logits"}

(* What every tensor of a pass is called.                                  *)
LEMMA TensorsAre ==
  /\ \A s \in 2 .. 24 : s # 15 => Outs[s] \in Tensors
  /\ Ends \subseteq Tensors /\ "k_row" \in Tensors /\ "v_row" \in Tensors
  /\ \A l \in Nat : Current(l) \in Tensors /\ Other(Current(l)) \in Tensors
<1> DEFINE w == 1
           k == 25
           F == ForwardProgram
           n == NumLayers * k
           ops(l) == <<UpdateOp(l)>>
           f == [l \in 1 .. NumLayers |-> LayerOps(l, ops(l), w)]
           B == {f[l][j] : l \in 1 .. NumLayers, j \in 1 .. k}
           att == [l \in 1 .. NumLayers |-> Attention(l)]
<1>1. F = Model(att)
  BY DEF ForwardProgram
<1>2. w \in Nat /\ k \in Nat \ {0} /\ k = 24 + w
  OBVIOUS
<1>3. \A l \in 1 .. NumLayers : LayerOps(l, ops(l), w) = [j \in 1 .. k |-> LayerOps(l, ops(l), w)[j]]
  <2> HIDE DEF ops, w, k
  <2>. QED BY <1>2 DEF LayerOps
<1>4. f \in [1 .. NumLayers -> [1 .. k -> B]]
  <2>1. f = [l \in 1 .. NumLayers |-> f[l]] /\ \A l \in 1 .. NumLayers : f[l] = LayerOps(l, ops(l), w)
    OBVIOUS
  <2> HIDE DEF f, ops, w, k
  <2>. QED BY <1>3, <2>1
<1>5. ASSUME NEW l \in 1 .. NumLayers
      PROVE  DecoderLayer(l, Current(l), att[l], Other(Current(l))) = f[l]
  <2> DEFINE C == {UpdateOp(l)}
             o == ops(l)
  <2>1. att[l] = Projections(l) \o o \o Output(l) /\ f[l] = LayerOps(l, o, w)
    BY DEF Attention, UpdateOp
  <2>2. o \in [1 .. w -> C]
    OBVIOUS
  <2> HIDE DEF C, o, w, f, att
  <2>3. DecoderLayer(l, Current(l), Projections(l) \o o \o Output(l), Other(Current(l)))
          = LayerOps(l, o, w)
    BY <1>2, <2>2, LayerIs, Zenon
  <2>. QED BY <2>1, <2>3, Zenon
<1> HIDE DEF B, F, k, att
<1>6. ModelLaid(F, f, k)
  <2> HIDE DEF f
  <2>. QED BY <1>1, <1>2, <1>4, <1>5, ModelIs, Zenon
<1>7. /\ F[1] = FirstOp /\ 1 \in DOMAIN F
      /\ F[1 + n + 2] = EndOp(2) /\ 1 + n + 2 \in DOMAIN F
      /\ F[1 + n + 3] = EndOp(3) /\ 1 + n + 3 \in DOMAIN F
      /\ \A j \in 1 .. k : F[1 + j] = f[1][j] /\ 1 + j \in DOMAIN F
  <2> HIDE DEF f
  <2> DEFINE N == NumLayers
  <2>1. N \in Nat \ {0}
    BY DEF KVCacheAssumption
  <2> HIDE DEF N
  <2>2. N * k \in Nat /\ (1 - 1) * k = 0 /\ 1 \in 1 .. N
    BY <1>2, <2>1
  <2>3. k <= N * k
    <3>1. N - 1 \in Nat /\ (N - 1) * k \in Nat /\ N * k = k + (N - 1) * k
      BY <1>2, <2>1
    <3> DEFINE a == N * k
               b == (N - 1) * k
    <3> HIDE DEF a, b
    <3>2. a = k + b /\ b \in Nat
      BY <3>1 DEF a, b
    <3>3. k <= a
      BY <1>2, <3>2
    <3>. QED BY <3>3 DEF a
  <2> DEFINE a == N * k
  <2>4. /\ DOMAIN F = 1 .. 1 + a + 3 /\ F[1] = FirstOp
        /\ \A j \in 1 .. k : F[1 + ((1 - 1) * k + j)] = f[1][j]
        /\ \A e \in 1 .. 3 : F[1 + a + e] = EndOp(e)
    BY <1>6, <2>2 DEF ModelLaid, N
  <2>5. a \in Nat /\ k <= a
    BY <2>2, <2>3
  <2>6. \A j \in 1 .. k : 1 + ((1 - 1) * k + j) = 1 + j
    BY <1>2, <2>2
  <2> HIDE DEF a
  <2>7. \A j \in 1 .. k : 1 + j \in 1 .. 1 + a + 3
    BY <1>2, <2>5
  <2>8. 1 \in 1 .. 1 + a + 3 /\ 1 + a + 2 \in 1 .. 1 + a + 3 /\ 1 + a + 3 \in 1 .. 1 + a + 3
    BY <2>5
  <2>9. a = n
    BY DEF a, N
  <2>. QED BY <2>4, <2>6, <2>7, <2>8, <2>9
<1>8. \A i \in DOMAIN F : F[i].out \in Tensors /\ Range(F[i].ins) \subseteq Tensors
  <2> DEFINE G(i) == {ForwardProgram[i].out} \cup Range(ForwardProgram[i].ins)
  <2>1. \A i \in DOMAIN F : G(i) \subseteq Tensors
    <3>1. Tensors = (UNION {G(i) : i \in DOMAIN ForwardProgram}) \cup {"k_row", "v_row"}
      BY DEF Tensors
    <3> HIDE DEF G
    <3>. QED BY <3>1 DEF F
  <2>. QED BY <2>1 DEF F
<1> HIDE DEF n
<1>9. \A s \in 2 .. 25 : s # 15 => \E i \in DOMAIN F : F[i] = StageOp(1, s)
  <2>1. SUFFICES ASSUME NEW s \in 2 .. 25, s # 15 PROVE f[1][s] = StageOp(1, s) /\ s \in 1 .. k
    <3> HIDE DEF f
    <3>. QED BY <1>7
  <2>2. 1 \in 1 .. NumLayers
    BY DEF KVCacheAssumption
  <2>3. f[1] = LayerOps(1, ops(1), w)
    BY <2>2
  <2> HIDE DEF f, ops
  <2>4. s \in 1 .. 24 + w
    BY <2>1
  <2>5. LayerOps(1, ops(1), w)[s] =
          IF s <= 14 THEN StageOp(1, s)
          ELSE IF s <= 14 + w THEN ops(1)[s - 14] ELSE StageOp(1, s - w + 1)
    BY <2>4 DEF LayerOps
  <2>6. ~ (s <= 14) => ~ (s <= 14 + w) /\ s - w + 1 = s
    BY <2>1
  <2>. QED BY <1>2, <2>3, <2>4, <2>5, <2>6
<1>10. ASSUME NEW s \in 2 .. 24, s # 15 PROVE Outs[s] \in Tensors
  <2>1. StageOp(1, s).out = Outs[s]
    BY <1>10, StageOuts, Zenon
  <2>. QED BY <1>8, <1>9, <1>10, <2>1
<1>11. "hidden_b" \in Tensors
  <2>1. StageOp(1, 25).out = "hidden_b"
    BY StageIs DEF Add, Op, Other, Current
  <2>. QED BY <1>8, <1>9, <2>1
<1>12. "input_ids" \in Tensors /\ "hidden_a" \in Tensors
  <2>1. FirstOp.out = "hidden_a" /\ Range(FirstOp.ins) = {"input_ids"}
    BY DEF FirstOp, Op, Range
  <2>. QED BY <1>7, <1>8, <2>1
<1>13. "hidden_states" \in Tensors /\ "logits" \in Tensors
  <2>1. EndOp(2).out = "hidden_states" /\ EndOp(3).out = "logits"
    BY DEF EndOp, RMSNorm, Linear, Op
  <2>. QED BY <1>7, <1>8, <2>1
<1>14. "k_row" \in Tensors /\ "v_row" \in Tensors
  BY DEF Tensors
<1>15. \A l \in Nat : Current(l) \in Tensors /\ Other(Current(l)) \in Tensors
  BY <1>11, <1>12 DEF Current, Other
<1>. QED BY <1>10, <1>11, <1>12, <1>13, <1>14, <1>15 DEF Ends


(* What the rows of a stage are, stage by stage.                           *)
LEMMA TermIs ==
  ASSUME NEW l, NEW i
  PROVE  LET t == job.tokens[i]
         IN  /\ Term(l, 2, i) = Normed(l, t)
             /\ Term(l, 3, i) = LinearOf(l, "q_proj", Normed(l, t))
             /\ Term(l, 4, i) = LinearOf(l, "k_proj", Normed(l, t))
             /\ Term(l, 5, i) = ValueOf(l, t)
             /\ Term(l, 6, i) = LinearOf(l, "q_proj", Normed(l, t))
             /\ Term(l, 7, i) = LinearOf(l, "k_proj", Normed(l, t))
             /\ Term(l, 8, i) = NormOf(l, "q_norm", LinearOf(l, "q_proj", Normed(l, t)))
             /\ Term(l, 9, i) = NormOf(l, "k_norm", LinearOf(l, "k_proj", Normed(l, t)))
             /\ Term(l, 10, i) = NormOf(l, "q_norm", LinearOf(l, "q_proj", Normed(l, t)))
             /\ Term(l, 11, i) = NormOf(l, "k_norm", LinearOf(l, "k_proj", Normed(l, t)))
             /\ Term(l, 12, i) = ValueOf(l, t)
             /\ Term(l, 13, i) = QueryOf(l, t)
             /\ Term(l, 14, i) = KeyOf(l, t)
             /\ Term(l, 16, i) = AttendedOf(l, i)
             /\ Term(l, 17, i) = AttendedOf(l, i)
             /\ Term(l, 18, i) = LinearOf(l, "o_proj", AttendedOf(l, i))
             /\ Term(l, 19, i) = MiddleOf(l, i)
             /\ Term(l, 20, i) = Normed2Of(l, i)
             /\ Term(l, 21, i) = LinearOf(l, "gate_proj", Normed2Of(l, i))
             /\ Term(l, 22, i) = LinearOf(l, "up_proj", Normed2Of(l, i))
             /\ Term(l, 23, i) = ActOf(l, i)
             /\ Term(l, 24, i) = LinearOf(l, "down_proj", ActOf(l, i))
BY DEF Term

(* What the operations make of the rows they read.                         *)
LEMMA LinearMakes ==
  ASSUME NEW l, NEW part, NEW in, NEW out, NEW i
  PROVE  Result(Linear(l, part, in, out), i) = LinearOf(l, part, buf[in][i])
BY DEF Result, Linear, Op, LinearOf

(* An RMS norm makes the norm of the row it reads.                         *)
LEMMA NormMakes ==
  ASSUME NEW l, NEW part, NEW in, NEW out, NEW i
  PROVE  Result(RMSNorm(l, part, in, out), i) = NormOf(l, part, buf[in][i])
BY DEF Result, RMSNorm, Op, NormOf

(* A view, or a copy, makes the row it reads.                              *)
LEMMA CopyMakes ==
  ASSUME NEW in, NEW out, NEW i
  PROVE  Result(Copy(in, out), i) = buf[in][i]
BY DEF Result, Copy, Op

(* The rotary embedding turns a row to its position.                       *)
LEMMA RotaryMakes ==
  ASSUME NEW l, NEW in, NEW out, NEW i
  PROVE  Result(Rotary(l, in, out), i) = <<"rotary", buf[in][i]>>
BY DEF Result, Rotary, Op

(* Attention reads what the cache, or the pass, holds before a row.        *)
LEMMA AttendMakes ==
  ASSUME NEW l, NEW i
  PROVE  Result(Attend(l), i) = <<"attention", buf["q_rot"][i], Reads(Attend(l), i)>>
BY DEF Result, Attend, Op

(* A residual is added to the row it skipped.                              *)
LEMMA AddMakes ==
  ASSUME NEW l, NEW in, NEW more, NEW out, NEW i
  PROVE  Result(Add(l, in, more, out), i) = Named(l, i, <<"add", buf[in][i], buf[more][i]>>)
BY DEF Result, Add, Op

(* The activation gates one row with the other.                            *)
LEMMA ActMakes ==
  ASSUME NEW l, NEW i
  PROVE  Result(Act(l), i) = Named(l, i, <<"silu_and_mul", buf["gate"][i], buf["up"][i]>>)
BY DEF Result, Act, Op

(* The output of a layer has a name of its own; nothing else is taken for  *)
(* it.                                                                     *)
LEMMA NamedIs ==
  ASSUME NEW l \in Nat \ {0}, NEW i
  PROVE  LET t == job.tokens[i]
         IN  /\ Named(l, i, MiddleOf(l, i)) = MiddleOf(l, i)
             /\ Named(l, i, ActOf(l, i)) = ActOf(l, i)
             /\ Named(l, i, <<"add", MiddleOf(l, i), LinearOf(l, "down_proj", ActOf(l, i))>>) =
                  Hidden(l, t)
<1> DEFINE t == job.tokens[i]
           whole == LayerOf(l, t, ContextOf(i))
           down == LinearOf(l, "down_proj", ActOf(l, i))
<1>1. whole = <<"add", MiddleOf(l, i), down>>
  BY DEF LayerOf, MiddleOf, ActOf, Normed2Of, AttendedOf
<1>2. Hidden(l - 1, t)[1] # "add"
  BY DEF Hidden
<1>3. MiddleOf(l, i) # Hidden(l - 1, t)
  BY <1>2 DEF MiddleOf
<1>4. MiddleOf(l, i) # whole
  <2>1. MiddleOf(l, i) = <<"add", Hidden(l - 1, t), LinearOf(l, "o_proj", AttendedOf(l, i))>>
    BY DEF MiddleOf
  <2> DEFINE m == MiddleOf(l, i)
             h == Hidden(l - 1, t)
             a == LinearOf(l, "o_proj", AttendedOf(l, i))
  <2> HIDE DEF m, h, a, down, whole
  <2>2. m = <<"add", h, a>> /\ m # h /\ whole = <<"add", m, down>>
    BY <1>1, <1>3, <2>1 DEF m, h, a
  <2>3. m # whole
    BY <2>2
  <2>. QED BY <2>3 DEF m
<1>5. ActOf(l, i) # whole
  <2>1. ActOf(l, i)[1] = "silu_and_mul"
    BY DEF ActOf
  <2>2. whole[1] = "add"
    BY <1>1
  <2>. QED BY <2>1, <2>2
<1> HIDE DEF whole, down
<1>6. \A term : Named(l, i, term) = IF term = whole THEN Hidden(l, t) ELSE term
  BY DEF Named, whole
<1>. QED BY <1>1, <1>4, <1>5, <1>6 DEF down


(* What a stage makes of the stages before it; attention, of its context.  *)
LEMMA StageMakes ==
  ASSUME NEW l \in 1 .. NumLayers, NEW s \in 2 .. 25, s # 15, LayerState(l, s), NEW i \in Rows,
         s = 16 => Reads(Attend(l), i) = ContextOf(i)
  PROVE  Result(StageOp(l, s), i) =
           IF s = 25 THEN Hidden(l, job.tokens[i]) ELSE Term(l, s, i)
<1> DEFINE t == job.tokens[i]
           R(q) == Result(StageOp(l, q), i)
<1>1. buf[Current(l)][i] = Hidden(l - 1, t)
  <2>1. buf[Current(l)] = HiddenRows(l - 1)
    BY DEF LayerState
  <2> HIDE DEF t
  <2>2. HiddenRows(l - 1)[i] = Hidden(l - 1, t)
    BY DEF HiddenRows, t
  <2>. QED BY <2>1, <2>2
<1>2. \A q \in 2 .. (s - 1) : q # 15 => buf[Outs[q]][i] = Term(l, q, i)
  BY DEF LayerState
<1>3. l \in Nat \ {0}
  OBVIOUS
<1> HIDE DEF t
<1>4. /\ Outs[2] = "normed_1"
      /\ Outs[3] = "q_flat"
      /\ Outs[4] = "k_flat"
      /\ Outs[5] = "v_flat"
      /\ Outs[6] = "q_2d"
      /\ Outs[7] = "k_2d"
      /\ Outs[8] = "q_normed_2d"
      /\ Outs[9] = "k_normed_2d"
      /\ Outs[10] = "q_3d"
      /\ Outs[11] = "k_3d"
      /\ Outs[12] = "v_3d"
      /\ Outs[13] = "q_rot"
      /\ Outs[14] = "k_rot"
      /\ Outs[16] = "attn_out_3d"
      /\ Outs[17] = "attn_out_flat"
      /\ Outs[18] = "attn_out"
      /\ Outs[19] = "residual_after_attn"
      /\ Outs[20] = "normed_2"
      /\ Outs[21] = "gate"
      /\ Outs[22] = "up"
      /\ Outs[23] = "act"
      /\ Outs[24] = "mlp_out"
  BY DEF Outs
<1>5. CASE s = 2
  <2>1. StageOp(l, 2) = RMSNorm(l, "input_layernorm", Current(l), "normed_1")
    BY StageIs, Zenon
  <2>2. Result(RMSNorm(l, "input_layernorm", Current(l), "normed_1"), i) = Normed(l, t)
    BY <1>1, NormMakes, Zenon DEF Normed
  <2>3. Term(l, 2, i) = Normed(l, t)
    BY TermIs DEF t
  <2>. QED BY <1>5, <2>1, <2>2, <2>3
<1>6. CASE s = 3
  <2>1. buf["normed_1"][i] = Normed(l, t)
    <3>1. 2 \in 2 .. (s - 1) /\ 2 # 15
      BY <1>6
    <3>2. buf[Outs[2]][i] = Term(l, 2, i)
      BY <1>2, <3>1, Zenon
    <3>3. Term(l, 2, i) = Normed(l, t)
      BY TermIs DEF t
    <3>. QED BY <1>4, <3>2, <3>3, Zenon
  <2>2. StageOp(l, 3) = Linear(l, "q_proj", "normed_1", "q_flat")
    BY StageIs, Zenon
  <2>3. Result(Linear(l, "q_proj", "normed_1", "q_flat"), i) = LinearOf(l, "q_proj", Normed(l, t))
    BY <2>1, LinearMakes, Zenon
  <2>4. Term(l, 3, i) = LinearOf(l, "q_proj", Normed(l, t))
    BY TermIs DEF t
  <2>. QED BY <1>6, <2>2, <2>3, <2>4
<1>7. CASE s = 4
  <2>1. buf["normed_1"][i] = Normed(l, t)
    <3>1. 2 \in 2 .. (s - 1) /\ 2 # 15
      BY <1>7
    <3>2. buf[Outs[2]][i] = Term(l, 2, i)
      BY <1>2, <3>1, Zenon
    <3>3. Term(l, 2, i) = Normed(l, t)
      BY TermIs DEF t
    <3>. QED BY <1>4, <3>2, <3>3, Zenon
  <2>2. StageOp(l, 4) = Linear(l, "k_proj", "normed_1", "k_flat")
    BY StageIs, Zenon
  <2>3. Result(Linear(l, "k_proj", "normed_1", "k_flat"), i) = LinearOf(l, "k_proj", Normed(l, t))
    BY <2>1, LinearMakes, Zenon
  <2>4. Term(l, 4, i) = LinearOf(l, "k_proj", Normed(l, t))
    BY TermIs DEF t
  <2>. QED BY <1>7, <2>2, <2>3, <2>4
<1>8. CASE s = 5
  <2>1. buf["normed_1"][i] = Normed(l, t)
    <3>1. 2 \in 2 .. (s - 1) /\ 2 # 15
      BY <1>8
    <3>2. buf[Outs[2]][i] = Term(l, 2, i)
      BY <1>2, <3>1, Zenon
    <3>3. Term(l, 2, i) = Normed(l, t)
      BY TermIs DEF t
    <3>. QED BY <1>4, <3>2, <3>3, Zenon
  <2>2. StageOp(l, 5) = Linear(l, "v_proj", "normed_1", "v_flat")
    BY StageIs, Zenon
  <2>3. Result(Linear(l, "v_proj", "normed_1", "v_flat"), i) = ValueOf(l, t)
    BY <2>1, LinearMakes, Zenon DEF ValueOf
  <2>4. Term(l, 5, i) = ValueOf(l, t)
    BY TermIs DEF t
  <2>. QED BY <1>8, <2>2, <2>3, <2>4
<1>9. CASE s = 6
  <2>1. buf["q_flat"][i] = LinearOf(l, "q_proj", Normed(l, t))
    <3>1. 3 \in 2 .. (s - 1) /\ 3 # 15
      BY <1>9
    <3>2. buf[Outs[3]][i] = Term(l, 3, i)
      BY <1>2, <3>1, Zenon
    <3>3. Term(l, 3, i) = LinearOf(l, "q_proj", Normed(l, t))
      BY TermIs DEF t
    <3>. QED BY <1>4, <3>2, <3>3, Zenon
  <2>2. StageOp(l, 6) = Copy("q_flat", "q_2d")
    BY StageIs, Zenon
  <2>3. Result(Copy("q_flat", "q_2d"), i) = LinearOf(l, "q_proj", Normed(l, t))
    BY <2>1, CopyMakes, Zenon
  <2>4. Term(l, 6, i) = LinearOf(l, "q_proj", Normed(l, t))
    BY TermIs DEF t
  <2>. QED BY <1>9, <2>2, <2>3, <2>4
<1>10. CASE s = 7
  <2>1. buf["k_flat"][i] = LinearOf(l, "k_proj", Normed(l, t))
    <3>1. 4 \in 2 .. (s - 1) /\ 4 # 15
      BY <1>10
    <3>2. buf[Outs[4]][i] = Term(l, 4, i)
      BY <1>2, <3>1, Zenon
    <3>3. Term(l, 4, i) = LinearOf(l, "k_proj", Normed(l, t))
      BY TermIs DEF t
    <3>. QED BY <1>4, <3>2, <3>3, Zenon
  <2>2. StageOp(l, 7) = Copy("k_flat", "k_2d")
    BY StageIs, Zenon
  <2>3. Result(Copy("k_flat", "k_2d"), i) = LinearOf(l, "k_proj", Normed(l, t))
    BY <2>1, CopyMakes, Zenon
  <2>4. Term(l, 7, i) = LinearOf(l, "k_proj", Normed(l, t))
    BY TermIs DEF t
  <2>. QED BY <1>10, <2>2, <2>3, <2>4
<1>11. CASE s = 8
  <2>1. buf["q_2d"][i] = LinearOf(l, "q_proj", Normed(l, t))
    <3>1. 6 \in 2 .. (s - 1) /\ 6 # 15
      BY <1>11
    <3>2. buf[Outs[6]][i] = Term(l, 6, i)
      BY <1>2, <3>1, Zenon
    <3>3. Term(l, 6, i) = LinearOf(l, "q_proj", Normed(l, t))
      BY TermIs DEF t
    <3>. QED BY <1>4, <3>2, <3>3, Zenon
  <2>2. StageOp(l, 8) = RMSNorm(l, "q_norm", "q_2d", "q_normed_2d")
    BY StageIs, Zenon
  <2>3. Result(RMSNorm(l, "q_norm", "q_2d", "q_normed_2d"), i) =
         NormOf(l, "q_norm", LinearOf(l, "q_proj", Normed(l, t)))
    BY <2>1, NormMakes, Zenon
  <2>4. Term(l, 8, i) = NormOf(l, "q_norm", LinearOf(l, "q_proj", Normed(l, t)))
    BY TermIs DEF t
  <2>. QED BY <1>11, <2>2, <2>3, <2>4
<1>12. CASE s = 9
  <2>1. buf["k_2d"][i] = LinearOf(l, "k_proj", Normed(l, t))
    <3>1. 7 \in 2 .. (s - 1) /\ 7 # 15
      BY <1>12
    <3>2. buf[Outs[7]][i] = Term(l, 7, i)
      BY <1>2, <3>1, Zenon
    <3>3. Term(l, 7, i) = LinearOf(l, "k_proj", Normed(l, t))
      BY TermIs DEF t
    <3>. QED BY <1>4, <3>2, <3>3, Zenon
  <2>2. StageOp(l, 9) = RMSNorm(l, "k_norm", "k_2d", "k_normed_2d")
    BY StageIs, Zenon
  <2>3. Result(RMSNorm(l, "k_norm", "k_2d", "k_normed_2d"), i) =
         NormOf(l, "k_norm", LinearOf(l, "k_proj", Normed(l, t)))
    BY <2>1, NormMakes, Zenon
  <2>4. Term(l, 9, i) = NormOf(l, "k_norm", LinearOf(l, "k_proj", Normed(l, t)))
    BY TermIs DEF t
  <2>. QED BY <1>12, <2>2, <2>3, <2>4
<1>13. CASE s = 10
  <2>1. buf["q_normed_2d"][i] = NormOf(l, "q_norm", LinearOf(l, "q_proj", Normed(l, t)))
    <3>1. 8 \in 2 .. (s - 1) /\ 8 # 15
      BY <1>13
    <3>2. buf[Outs[8]][i] = Term(l, 8, i)
      BY <1>2, <3>1, Zenon
    <3>3. Term(l, 8, i) = NormOf(l, "q_norm", LinearOf(l, "q_proj", Normed(l, t)))
      BY TermIs DEF t
    <3>. QED BY <1>4, <3>2, <3>3, Zenon
  <2>2. StageOp(l, 10) = Copy("q_normed_2d", "q_3d")
    BY StageIs, Zenon
  <2>3. Result(Copy("q_normed_2d", "q_3d"), i) =
         NormOf(l, "q_norm", LinearOf(l, "q_proj", Normed(l, t)))
    BY <2>1, CopyMakes, Zenon
  <2>4. Term(l, 10, i) = NormOf(l, "q_norm", LinearOf(l, "q_proj", Normed(l, t)))
    BY TermIs DEF t
  <2>. QED BY <1>13, <2>2, <2>3, <2>4
<1>14. CASE s = 11
  <2>1. buf["k_normed_2d"][i] = NormOf(l, "k_norm", LinearOf(l, "k_proj", Normed(l, t)))
    <3>1. 9 \in 2 .. (s - 1) /\ 9 # 15
      BY <1>14
    <3>2. buf[Outs[9]][i] = Term(l, 9, i)
      BY <1>2, <3>1, Zenon
    <3>3. Term(l, 9, i) = NormOf(l, "k_norm", LinearOf(l, "k_proj", Normed(l, t)))
      BY TermIs DEF t
    <3>. QED BY <1>4, <3>2, <3>3, Zenon
  <2>2. StageOp(l, 11) = Copy("k_normed_2d", "k_3d")
    BY StageIs, Zenon
  <2>3. Result(Copy("k_normed_2d", "k_3d"), i) =
         NormOf(l, "k_norm", LinearOf(l, "k_proj", Normed(l, t)))
    BY <2>1, CopyMakes, Zenon
  <2>4. Term(l, 11, i) = NormOf(l, "k_norm", LinearOf(l, "k_proj", Normed(l, t)))
    BY TermIs DEF t
  <2>. QED BY <1>14, <2>2, <2>3, <2>4
<1>15. CASE s = 12
  <2>1. buf["v_flat"][i] = ValueOf(l, t)
    <3>1. 5 \in 2 .. (s - 1) /\ 5 # 15
      BY <1>15
    <3>2. buf[Outs[5]][i] = Term(l, 5, i)
      BY <1>2, <3>1, Zenon
    <3>3. Term(l, 5, i) = ValueOf(l, t)
      BY TermIs DEF t
    <3>. QED BY <1>4, <3>2, <3>3, Zenon
  <2>2. StageOp(l, 12) = Copy("v_flat", "v_3d")
    BY StageIs, Zenon
  <2>3. Result(Copy("v_flat", "v_3d"), i) = ValueOf(l, t)
    BY <2>1, CopyMakes, Zenon
  <2>4. Term(l, 12, i) = ValueOf(l, t)
    BY TermIs DEF t
  <2>. QED BY <1>15, <2>2, <2>3, <2>4
<1>16. CASE s = 13
  <2>1. buf["q_3d"][i] = NormOf(l, "q_norm", LinearOf(l, "q_proj", Normed(l, t)))
    <3>1. 10 \in 2 .. (s - 1) /\ 10 # 15
      BY <1>16
    <3>2. buf[Outs[10]][i] = Term(l, 10, i)
      BY <1>2, <3>1, Zenon
    <3>3. Term(l, 10, i) = NormOf(l, "q_norm", LinearOf(l, "q_proj", Normed(l, t)))
      BY TermIs DEF t
    <3>. QED BY <1>4, <3>2, <3>3, Zenon
  <2>2. StageOp(l, 13) = Rotary(l, "q_3d", "q_rot")
    BY StageIs, Zenon
  <2>3. Result(Rotary(l, "q_3d", "q_rot"), i) = QueryOf(l, t)
    BY <2>1, RotaryMakes, Zenon DEF QueryOf
  <2>4. Term(l, 13, i) = QueryOf(l, t)
    BY TermIs DEF t
  <2>. QED BY <1>16, <2>2, <2>3, <2>4
<1>17. CASE s = 14
  <2>1. buf["k_3d"][i] = NormOf(l, "k_norm", LinearOf(l, "k_proj", Normed(l, t)))
    <3>1. 11 \in 2 .. (s - 1) /\ 11 # 15
      BY <1>17
    <3>2. buf[Outs[11]][i] = Term(l, 11, i)
      BY <1>2, <3>1, Zenon
    <3>3. Term(l, 11, i) = NormOf(l, "k_norm", LinearOf(l, "k_proj", Normed(l, t)))
      BY TermIs DEF t
    <3>. QED BY <1>4, <3>2, <3>3, Zenon
  <2>2. StageOp(l, 14) = Rotary(l, "k_3d", "k_rot")
    BY StageIs, Zenon
  <2>3. Result(Rotary(l, "k_3d", "k_rot"), i) = KeyOf(l, t)
    BY <2>1, RotaryMakes, Zenon DEF KeyOf
  <2>4. Term(l, 14, i) = KeyOf(l, t)
    BY TermIs DEF t
  <2>. QED BY <1>17, <2>2, <2>3, <2>4
<1>18. CASE s = 16
  <2>1. buf["q_rot"][i] = QueryOf(l, t)
    <3>1. 13 \in 2 .. (s - 1) /\ 13 # 15
      BY <1>18
    <3>2. buf[Outs[13]][i] = Term(l, 13, i)
      BY <1>2, <3>1, Zenon
    <3>3. Term(l, 13, i) = QueryOf(l, t)
      BY TermIs DEF t
    <3>. QED BY <1>4, <3>2, <3>3, Zenon
  <2>2. StageOp(l, 16) = Attend(l)
    BY StageIs, Zenon
  <2>3. Result(Attend(l), i) = AttendedOf(l, i)
    BY <1>18, <2>1, AttendMakes, Zenon DEF AttendedOf, t
  <2>4. Term(l, 16, i) = AttendedOf(l, i)
    BY TermIs DEF t
  <2>. QED BY <1>18, <2>2, <2>3, <2>4
<1>19. CASE s = 17
  <2>1. buf["attn_out_3d"][i] = AttendedOf(l, i)
    <3>1. 16 \in 2 .. (s - 1) /\ 16 # 15
      BY <1>19
    <3>2. buf[Outs[16]][i] = Term(l, 16, i)
      BY <1>2, <3>1, Zenon
    <3>3. Term(l, 16, i) = AttendedOf(l, i)
      BY TermIs DEF t
    <3>. QED BY <1>4, <3>2, <3>3, Zenon
  <2>2. StageOp(l, 17) = Copy("attn_out_3d", "attn_out_flat")
    BY StageIs, Zenon
  <2>3. Result(Copy("attn_out_3d", "attn_out_flat"), i) = AttendedOf(l, i)
    BY <2>1, CopyMakes, Zenon
  <2>4. Term(l, 17, i) = AttendedOf(l, i)
    BY TermIs DEF t
  <2>. QED BY <1>19, <2>2, <2>3, <2>4
<1>20. CASE s = 18
  <2>1. buf["attn_out_flat"][i] = AttendedOf(l, i)
    <3>1. 17 \in 2 .. (s - 1) /\ 17 # 15
      BY <1>20
    <3>2. buf[Outs[17]][i] = Term(l, 17, i)
      BY <1>2, <3>1, Zenon
    <3>3. Term(l, 17, i) = AttendedOf(l, i)
      BY TermIs DEF t
    <3>. QED BY <1>4, <3>2, <3>3, Zenon
  <2>2. StageOp(l, 18) = Linear(l, "o_proj", "attn_out_flat", "attn_out")
    BY StageIs, Zenon
  <2>3. Result(Linear(l, "o_proj", "attn_out_flat", "attn_out"), i) =
         LinearOf(l, "o_proj", AttendedOf(l, i))
    BY <2>1, LinearMakes, Zenon
  <2>4. Term(l, 18, i) = LinearOf(l, "o_proj", AttendedOf(l, i))
    BY TermIs DEF t
  <2>. QED BY <1>20, <2>2, <2>3, <2>4
<1>21. CASE s = 19
  <2>1. buf["attn_out"][i] = LinearOf(l, "o_proj", AttendedOf(l, i))
    <3>1. 18 \in 2 .. (s - 1) /\ 18 # 15
      BY <1>21
    <3>2. buf[Outs[18]][i] = Term(l, 18, i)
      BY <1>2, <3>1, Zenon
    <3>3. Term(l, 18, i) = LinearOf(l, "o_proj", AttendedOf(l, i))
      BY TermIs DEF t
    <3>. QED BY <1>4, <3>2, <3>3, Zenon
  <2>2. StageOp(l, 19) = Add(l, Current(l), "attn_out", "residual_after_attn")
    BY StageIs, Zenon
  <2>3. Result(Add(l, Current(l), "attn_out", "residual_after_attn"), i) = MiddleOf(l, i)
    <3>1. Result(Add(l, Current(l), "attn_out", "residual_after_attn"), i) =
            Named(l, i, <<"add", buf[Current(l)][i], buf["attn_out"][i]>>)
      BY AddMakes
    <3>2. <<"add", buf[Current(l)][i], buf["attn_out"][i]>> = MiddleOf(l, i)
      BY <1>1, <2>1 DEF MiddleOf, t
    <3>3. Named(l, i, MiddleOf(l, i)) = MiddleOf(l, i)
      BY <1>3, NamedIs DEF t
    <3>. QED BY <3>1, <3>2, <3>3, Zenon
  <2>4. Term(l, 19, i) = MiddleOf(l, i)
    BY TermIs DEF t
  <2>. QED BY <1>21, <2>2, <2>3, <2>4
<1>22. CASE s = 20
  <2>1. buf["residual_after_attn"][i] = MiddleOf(l, i)
    <3>1. 19 \in 2 .. (s - 1) /\ 19 # 15
      BY <1>22
    <3>2. buf[Outs[19]][i] = Term(l, 19, i)
      BY <1>2, <3>1, Zenon
    <3>3. Term(l, 19, i) = MiddleOf(l, i)
      BY TermIs DEF t
    <3>. QED BY <1>4, <3>2, <3>3, Zenon
  <2>2. StageOp(l, 20) = RMSNorm(l, "post_attention_layernorm", "residual_after_attn", "normed_2")
    BY StageIs, Zenon
  <2>3. Result(RMSNorm(l, "post_attention_layernorm", "residual_after_attn", "normed_2"), i) =
         Normed2Of(l, i)
    BY <2>1, NormMakes, Zenon DEF Normed2Of
  <2>4. Term(l, 20, i) = Normed2Of(l, i)
    BY TermIs DEF t
  <2>. QED BY <1>22, <2>2, <2>3, <2>4
<1>23. CASE s = 21
  <2>1. buf["normed_2"][i] = Normed2Of(l, i)
    <3>1. 20 \in 2 .. (s - 1) /\ 20 # 15
      BY <1>23
    <3>2. buf[Outs[20]][i] = Term(l, 20, i)
      BY <1>2, <3>1, Zenon
    <3>3. Term(l, 20, i) = Normed2Of(l, i)
      BY TermIs DEF t
    <3>. QED BY <1>4, <3>2, <3>3, Zenon
  <2>2. StageOp(l, 21) = Linear(l, "gate_proj", "normed_2", "gate")
    BY StageIs, Zenon
  <2>3. Result(Linear(l, "gate_proj", "normed_2", "gate"), i) =
         LinearOf(l, "gate_proj", Normed2Of(l, i))
    BY <2>1, LinearMakes, Zenon
  <2>4. Term(l, 21, i) = LinearOf(l, "gate_proj", Normed2Of(l, i))
    BY TermIs DEF t
  <2>. QED BY <1>23, <2>2, <2>3, <2>4
<1>24. CASE s = 22
  <2>1. buf["normed_2"][i] = Normed2Of(l, i)
    <3>1. 20 \in 2 .. (s - 1) /\ 20 # 15
      BY <1>24
    <3>2. buf[Outs[20]][i] = Term(l, 20, i)
      BY <1>2, <3>1, Zenon
    <3>3. Term(l, 20, i) = Normed2Of(l, i)
      BY TermIs DEF t
    <3>. QED BY <1>4, <3>2, <3>3, Zenon
  <2>2. StageOp(l, 22) = Linear(l, "up_proj", "normed_2", "up")
    BY StageIs, Zenon
  <2>3. Result(Linear(l, "up_proj", "normed_2", "up"), i) = LinearOf(l, "up_proj", Normed2Of(l, i))
    BY <2>1, LinearMakes, Zenon
  <2>4. Term(l, 22, i) = LinearOf(l, "up_proj", Normed2Of(l, i))
    BY TermIs DEF t
  <2>. QED BY <1>24, <2>2, <2>3, <2>4
<1>25. CASE s = 23
  <2>1. buf["gate"][i] = LinearOf(l, "gate_proj", Normed2Of(l, i))
    <3>1. 21 \in 2 .. (s - 1) /\ 21 # 15
      BY <1>25
    <3>2. buf[Outs[21]][i] = Term(l, 21, i)
      BY <1>2, <3>1, Zenon
    <3>3. Term(l, 21, i) = LinearOf(l, "gate_proj", Normed2Of(l, i))
      BY TermIs DEF t
    <3>. QED BY <1>4, <3>2, <3>3, Zenon
  <2>2. buf["up"][i] = LinearOf(l, "up_proj", Normed2Of(l, i))
    <3>1. 22 \in 2 .. (s - 1) /\ 22 # 15
      BY <1>25
    <3>2. buf[Outs[22]][i] = Term(l, 22, i)
      BY <1>2, <3>1, Zenon
    <3>3. Term(l, 22, i) = LinearOf(l, "up_proj", Normed2Of(l, i))
      BY TermIs DEF t
    <3>. QED BY <1>4, <3>2, <3>3, Zenon
  <2>3. StageOp(l, 23) = Act(l)
    BY StageIs, Zenon
  <2>4. Result(Act(l), i) = ActOf(l, i)
    <3>1. Result(Act(l), i) = Named(l, i, <<"silu_and_mul", buf["gate"][i], buf["up"][i]>>)
      BY ActMakes, Zenon
    <3>2. <<"silu_and_mul", buf["gate"][i], buf["up"][i]>> = ActOf(l, i)
      BY <2>1, <2>2 DEF ActOf
    <3>3. Named(l, i, ActOf(l, i)) = ActOf(l, i)
      BY <1>3, NamedIs DEF t
    <3>. QED BY <3>1, <3>2, <3>3, Zenon
  <2>5. Term(l, 23, i) = ActOf(l, i)
    BY TermIs DEF t
  <2>. QED BY <1>25, <2>3, <2>4, <2>5
<1>26. CASE s = 24
  <2>1. buf["act"][i] = ActOf(l, i)
    <3>1. 23 \in 2 .. (s - 1) /\ 23 # 15
      BY <1>26
    <3>2. buf[Outs[23]][i] = Term(l, 23, i)
      BY <1>2, <3>1, Zenon
    <3>3. Term(l, 23, i) = ActOf(l, i)
      BY TermIs DEF t
    <3>. QED BY <1>4, <3>2, <3>3, Zenon
  <2>2. StageOp(l, 24) = Linear(l, "down_proj", "act", "mlp_out")
    BY StageIs, Zenon
  <2>3. Result(Linear(l, "down_proj", "act", "mlp_out"), i) = LinearOf(l, "down_proj", ActOf(l, i))
    BY <2>1, LinearMakes, Zenon
  <2>4. Term(l, 24, i) = LinearOf(l, "down_proj", ActOf(l, i))
    BY TermIs DEF t
  <2>. QED BY <1>26, <2>2, <2>3, <2>4
<1>27. CASE s = 25
  <2>1. buf["residual_after_attn"][i] = MiddleOf(l, i)
    <3>1. 19 \in 2 .. (s - 1) /\ 19 # 15
      BY <1>27
    <3>2. buf[Outs[19]][i] = Term(l, 19, i)
      BY <1>2, <3>1, Zenon
    <3>3. Term(l, 19, i) = MiddleOf(l, i)
      BY TermIs DEF t
    <3>. QED BY <1>4, <3>2, <3>3, Zenon
  <2>2. buf["mlp_out"][i] = LinearOf(l, "down_proj", ActOf(l, i))
    <3>1. 24 \in 2 .. (s - 1) /\ 24 # 15
      BY <1>27
    <3>2. buf[Outs[24]][i] = Term(l, 24, i)
      BY <1>2, <3>1, Zenon
    <3>3. Term(l, 24, i) = LinearOf(l, "down_proj", ActOf(l, i))
      BY TermIs DEF t
    <3>. QED BY <1>4, <3>2, <3>3, Zenon
  <2>3. StageOp(l, 25) = Add(l, "residual_after_attn", "mlp_out", Other(Current(l)))
    BY StageIs, Zenon
  <2>4. Result(Add(l, "residual_after_attn", "mlp_out", Other(Current(l))), i) = Hidden(l, t)
    <3>1. Result(Add(l, "residual_after_attn", "mlp_out", Other(Current(l))), i) =
            Named(l, i, <<"add", buf["residual_after_attn"][i], buf["mlp_out"][i]>>)
      BY AddMakes
    <3>2. <<"add", buf["residual_after_attn"][i], buf["mlp_out"][i]>> =
            <<"add", MiddleOf(l, i), LinearOf(l, "down_proj", ActOf(l, i))>>
      BY <2>1, <2>2
    <3>3. Named(l, i, <<"add", MiddleOf(l, i), LinearOf(l, "down_proj", ActOf(l, i))>>) =
            Hidden(l, t)
      BY <1>3, NamedIs DEF t
    <3>. QED BY <3>1, <3>2, <3>3, Zenon
  <2>. QED BY <1>27, <2>3, <2>4 DEF t
<1>28. \/ s = 2 \/ s = 3 \/ s = 4 \/ s = 5 \/ s = 6 \/ s = 7
       \/ s = 8 \/ s = 9 \/ s = 10 \/ s = 11 \/ s = 12 \/ s = 13
       \/ s = 14 \/ s = 16 \/ s = 17 \/ s = 18 \/ s = 19 \/ s = 20
       \/ s = 21 \/ s = 22 \/ s = 23 \/ s = 24 \/ s = 25
  OBVIOUS
<1>. QED BY <1>28, <1>5, <1>6, <1>7, <1>8, <1>9, <1>10, <1>11, <1>12, <1>13, <1>14, <1>15,
            <1>16, <1>17, <1>18, <1>19, <1>20, <1>21, <1>22, <1>23, <1>24, <1>25, <1>26, <1>27, Zenon


(* A step within a pass leaves the weights and what the pass was given.    *)
SamePass ==
  /\ mem' = mem /\ passes' = passes /\ mode' = mode /\ cached' = cached
  /\ job' = [job EXCEPT !.at = job'.at]

(* So it leaves the terms that do not depend on a context,                 *)
LEMMA SameRows ==
  ASSUME SamePass, JobTypes
  PROVE  /\ job'.tokens = job.tokens /\ job'.kind = job.kind /\ job'.of = job.of
         /\ job'.past = job.past /\ Rows' = Rows
         /\ \A n : WeightOf(n)' = WeightOf(n)
         /\ \A l, t : Hidden(l, t)' = Hidden(l, t)
         /\ \A l, t : KeyOf(l, t)' = KeyOf(l, t) /\ ValueOf(l, t)' = ValueOf(l, t)
         /\ \A l, t : QueryOf(l, t)' = QueryOf(l, t) /\ Normed(l, t)' = Normed(l, t)
         /\ \A l : HiddenRows(l)' = HiddenRows(l)
         /\ \A t : LogitsOf(t)' = LogitsOf(t)
<1>1. /\ job'.tokens = job.tokens /\ job'.kind = job.kind /\ job'.of = job.of
      /\ job'.past = job.past
  <2> DEFINE a == job'.at
  <2>1. job = [kind |-> job.kind, of |-> job.of, tokens |-> job.tokens, past |-> job.past,
               at |-> job.at]
    BY DEF JobTypes
  <2>2. job' = [job EXCEPT !.at = a]
    BY DEF SamePass
  <2> HIDE DEF a
  <2>. QED BY <2>1, <2>2
<1>2. Rows' = Rows
  BY <1>1 DEF Rows
<1>3. ASSUME NEW n PROVE WeightOf(n)' = WeightOf(n)
  BY DEF WeightOf, SamePass
<1>4. ASSUME NEW l, NEW t PROVE Hidden(l, t)' = Hidden(l, t)
  BY <1>3 DEF Hidden
<1>5. ASSUME NEW l, NEW t PROVE Normed(l, t)' = Normed(l, t)
  BY <1>3, <1>4 DEF Normed, NormOf
<1>6. ASSUME NEW l, NEW t PROVE KeyOf(l, t)' = KeyOf(l, t) /\ ValueOf(l, t)' = ValueOf(l, t)
  BY <1>3, <1>5 DEF KeyOf, ValueOf, NormOf, LinearOf
<1>7. ASSUME NEW l, NEW t PROVE QueryOf(l, t)' = QueryOf(l, t)
  BY <1>3, <1>5 DEF QueryOf, NormOf, LinearOf
<1>8. ASSUME NEW l PROVE HiddenRows(l)' = HiddenRows(l)
  BY <1>1, <1>2, <1>4 DEF HiddenRows
<1>9. ASSUME NEW t PROVE LogitsOf(t)' = LogitsOf(t)
  BY <1>3, <1>4 DEF LogitsOf, LinearOf, NormOf
<1>. QED BY <1>1, <1>2, <1>3, <1>4, <1>5, <1>6, <1>7, <1>8, <1>9

(* and while the tokens of the caches stay, all terms.                     *)
LEMMA SameTerms ==
  ASSUME SamePass, JobTypes, fed' = fed
  PROVE  /\ \A i : ContextOf(i)' = ContextOf(i)
         /\ \A l, s, i : Term(l, s, i)' = Term(l, s, i)
<1>1. /\ job'.tokens = job.tokens /\ job'.kind = job.kind /\ job'.of = job.of
      /\ \A n : WeightOf(n)' = WeightOf(n)
      /\ \A l, t : Hidden(l, t)' = Hidden(l, t)
      /\ \A l, t : KeyOf(l, t)' = KeyOf(l, t) /\ ValueOf(l, t)' = ValueOf(l, t)
      /\ \A l, t : QueryOf(l, t)' = QueryOf(l, t) /\ Normed(l, t)' = Normed(l, t)
  BY SameRows
<1>2. ASSUME NEW r PROVE CachedTokens(r)' = CachedTokens(r)
  BY DEF CachedTokens, SamePass
<1>3. ASSUME NEW i PROVE ContextOf(i)' = ContextOf(i)
  BY <1>1, <1>2 DEF ContextOf
<1>4. ASSUME NEW l, NEW part, NEW x
      PROVE  LinearOf(l, part, x)' = LinearOf(l, part, x) /\ NormOf(l, part, x)' = NormOf(l, part, x)
  BY <1>1 DEF LinearOf, NormOf
<1>5. ASSUME NEW l, NEW i PROVE AttendedOf(l, i)' = AttendedOf(l, i)
  BY <1>1, <1>3 DEF AttendedOf
<1>6. ASSUME NEW l, NEW i PROVE MiddleOf(l, i)' = MiddleOf(l, i)
  BY <1>1, <1>5 DEF MiddleOf, LinearOf
<1>7. ASSUME NEW l, NEW i PROVE Normed2Of(l, i)' = Normed2Of(l, i)
  BY <1>1, <1>6 DEF Normed2Of, NormOf
<1>8. ASSUME NEW l, NEW i PROVE ActOf(l, i)' = ActOf(l, i)
  BY <1>1, <1>7 DEF ActOf, LinearOf
<1>9. ASSUME NEW l, NEW s, NEW i PROVE Term(l, s, i)' = Term(l, s, i)
  BY <1>1, <1>5, <1>6, <1>7, <1>8 DEF Term, LinearOf, NormOf
<1>. QED BY <1>3, <1>9

(* The next operation: the same program, one place further.                *)
LEMMA Advances ==
  ASSUME JobTypes, JobFits, NextOp, passes' = passes
  PROVE  /\ SamePass /\ job'.at = job.at + 1 /\ job.at \in Nat \ {0}
         /\ job'.kind # "none" /\ (DOMAIN buf' = Tensors => JobTypes') /\ JobFits'
         /\ Program' = Program
         /\ \A l, j : At(l, j)' = At(l, j)
         /\ \A s : Place(s)' = Place(s)
<1>1. SamePass
  <2>1. job' = [job EXCEPT !.at = job.at + 1]
    BY DEF NextOp
  <2>2. job = [kind |-> job.kind, of |-> job.of, tokens |-> job.tokens, past |-> job.past,
               at |-> job.at]
    BY DEF JobTypes
  <2> DEFINE a == job.at + 1
  <2> HIDE DEF a
  <2>3. job'.at = a
    BY <2>1, <2>2 DEF a
  <2>. QED BY <2>1, <2>3 DEF SamePass, NextOp, loadingVars, vars, a
<1>2. /\ job'.tokens = job.tokens /\ job'.kind = job.kind /\ job'.of = job.of
      /\ job'.past = job.past /\ Rows' = Rows
  BY <1>1, SameRows, Zenon
<1>3. job.at \in Nat \ {0} /\ job'.at = job.at + 1
  <2>1. job' = [job EXCEPT !.at = job.at + 1]
    BY DEF NextOp
  <2>2. job = [kind |-> job.kind, of |-> job.of, tokens |-> job.tokens, past |-> job.past,
               at |-> job.at]
    BY DEF JobTypes
  <2>3. job.at \in Nat \ {0}
    BY DEF JobTypes
  <2> DEFINE a == job.at + 1
  <2> HIDE DEF a
  <2>4. job'.at = a
    BY <2>1, <2>2 DEF a
  <2>. QED BY <2>3, <2>4 DEF a
<1>4. ASSUME DOMAIN buf' = Tensors PROVE JobTypes'
  <2> DEFINE n == Len(job.tokens)
             a == job'.at
  <2>1. job' = [kind |-> job'.kind, of |-> job'.of, tokens |-> job'.tokens, past |-> job'.past,
                at |-> job'.at]
    <3>1. job = [kind |-> job.kind, of |-> job.of, tokens |-> job.tokens, past |-> job.past,
                 at |-> job.at]
      BY DEF JobTypes
    <3>2. job' = [job EXCEPT !.at = a]
      BY <1>1 DEF SamePass
    <3> HIDE DEF a
    <3>. QED BY <3>1, <3>2
  <2>2. a \in Nat \ {0}
    BY <1>3
  <2>3. passes' = passes
    OBVIOUS
  <2>4. /\ n \in Nat \ {0} /\ job.tokens = [i \in 1 .. n |-> <<passes, i>>]
        /\ job.of \in [1 .. n -> Requests] /\ job.past \in [1 .. n -> Nat]
        /\ job.kind \in {"forward", "batch"}
    BY DEF JobTypes
  <2> HIDE DEF n
  <2>5. Len(job'.tokens) = n
    BY <1>2 DEF n
  <2>6. /\ n \in Nat \ {0} /\ job'.tokens = [i \in 1 .. n |-> <<passes', i>>]
        /\ job'.of \in [1 .. n -> Requests] /\ job'.past \in [1 .. n -> Nat]
        /\ job'.kind \in {"forward", "batch"}
    BY <1>2, <2>3, <2>4
  <2>. QED BY <1>4, <2>1, <2>2, <2>5, <2>6 DEF JobTypes
<1>5. JobFits'
  <2>1. mode' = mode
    BY <1>1 DEF SamePass
  <2>. QED BY <1>2, <2>1 DEF JobFits
<1>6. Program' = Program /\ CacheOps' = CacheOps
  BY <1>2 DEF Program, CacheOps
<1>7. \A l, j : At(l, j)' = At(l, j)
  BY <1>6 DEF At, LayerLength
<1>8. \A s : Place(s)' = Place(s)
  BY <1>6 DEF Place
<1>9. job'.kind # "none"
  BY <1>2 DEF JobTypes
<1>. QED BY <1>1, <1>3, <1>4, <1>5, <1>6, <1>7, <1>8, <1>9

(* A norm that was reached had a weight that fits.                         *)
LEMMA NormsStill ==
  ASSUME JobTypes, JobFits, NextOp, passes' = passes, NormsFit,
         Instruction.op = "rms_norm" => Fits(Instruction)
  PROVE  NormsFit'
<1>1. /\ SamePass /\ job'.at = job.at + 1 /\ job.at \in Nat \ {0} /\ Program' = Program
  BY Advances
<1>2. mem' = mem
  BY <1>1 DEF SamePass
<1>3. \A op : Fits(op)' = Fits(op)
  BY <1>2 DEF Fits
<1>4. \A p \in 1 .. (job'.at - 1) : p = job.at \/ p \in 1 .. (job.at - 1)
  BY <1>1
<1>5. \A p \in 1 .. (job'.at - 1) : Program[p].op = "rms_norm" => Fits(Program[p])
  BY <1>4 DEF NormsFit, Instruction
<1>. QED BY <1>1, <1>3, <1>5 DEF NormsFit

(* A row stands for one token: key and value tell which.                   *)
LEMMA StoredIs ==
  ASSUME NEW l, NEW t \in Range(job.tokens)
  PROVE  Stored(l, KeyOf(l, t), ValueOf(l, t)) = t
<1>1. ASSUME NEW u, ValueOf(l, t) = ValueOf(l, u) PROVE u = t
  <2>1. ValueOf(l, t)[3] = Normed(l, t) /\ ValueOf(l, u)[3] = Normed(l, u)
    BY DEF ValueOf, LinearOf
  <2>2. Normed(l, t)[3] = Hidden(l - 1, t) /\ Normed(l, u)[3] = Hidden(l - 1, u)
    BY DEF Normed, NormOf
  <2>3. Hidden(l - 1, t)[3] = t /\ Hidden(l - 1, u)[3] = u
    BY DEF Hidden
  <2>. QED BY <1>1, <2>1, <2>2, <2>3
<1> DEFINE k == KeyOf(l, t)
           v == ValueOf(l, t)
           is(u) == k = KeyOf(l, u) /\ v = ValueOf(l, u)
<1>2. is(t) /\ \A u : is(u) => u = t
  BY <1>1
<1>3. Stored(l, k, v) = IF \E u \in Range(job.tokens) : is(u)
                        THEN CHOOSE u \in Range(job.tokens) : is(u) ELSE <<"wrong", l>>
  BY DEF Stored
<1> HIDE DEF k, v, is
<1>4. Stored(l, k, v) = CHOOSE u \in Range(job.tokens) : is(u)
  BY <1>2, <1>3
<1>5. Stored(l, k, v) = t
  BY <1>2, <1>4
<1>. QED BY <1>5 DEF k, v

(* The first rows: those of a sequence and one more.                       *)
LEMMA FirstRows ==
  ASSUME NEW A, NEW c \in Seq(A), NEW x \in A, NEW rows, NEW n, n = Len(c) + 1,
         \A p \in 1 .. Len(c) : rows[p] = c[p], rows[Len(c) + 1] = x
  PROVE  SubSeq(rows, 1, n) = c \o <<x>> /\ SubSeq(rows, 1, n) = Append(c, x)
<1> DEFINE m == Len(c) + 1
           s == SubSeq(rows, 1, m)
           d == c \o <<x>>
           e == Append(c, x)
<1>1. Len(c) \in Nat /\ m \in Int /\ 1 <= m /\ m - 1 + 1 = m
  BY LenProperties
<1>2. \A i \in 1 .. m : rows[i] = IF i <= Len(c) THEN c[i] ELSE x
  BY <1>1
<1>3. \A i \in 1 .. Len(c) : c[i] \in A
  OBVIOUS
<1>4. \A i \in 1 .. m : rows[i] \in A
  BY <1>1, <1>2, <1>3
<1> HIDE DEF m
<1>5. s \in Seq(A) /\ Len(s) = m /\ \A i \in 1 .. m : s[i] = rows[1 + i - 1]
  <2>1. 1 \in Int /\ m \in Int
    BY <1>1
  <2>2. /\ SubSeq(rows, 1, m) \in Seq(A)
        /\ Len(SubSeq(rows, 1, m)) = IF 1 <= m THEN m - 1 + 1 ELSE 0
        /\ \A i \in 1 .. m - 1 + 1 : SubSeq(rows, 1, m)[i] = rows[1 + i - 1]
    BY <1>4, <2>1, SubSeqProperties
  <2>. QED BY <1>1, <2>2
<1> HIDE DEF s
<1>6. \A i \in 1 .. m : s[i] = IF i <= Len(c) THEN c[i] ELSE x
  <2>1. \A i \in 1 .. m : 1 + i - 1 = i
    BY <1>1
  <2>. QED BY <1>2, <1>5, <2>1
<1>7. d \in Seq(A) /\ Len(d) = m /\ \A i \in 1 .. m : d[i] = IF i <= Len(c) THEN c[i] ELSE x
  <2>1. /\ d \in Seq(A) /\ Len(d) = Len(c) + 1
        /\ \A i \in 1 .. Len(c) : d[i] = c[i]
        /\ d[Len(c) + 1] = x
    BY OneMore
  <2> HIDE DEF d
  <2>2. ASSUME NEW i \in 1 .. m
        PROVE  IF i <= Len(c) THEN i \in 1 .. Len(c) ELSE i = Len(c) + 1
    BY <1>1 DEF m
  <2>. QED BY <2>1, <2>2 DEF m
<1>8. e \in Seq(A) /\ Len(e) = m /\ \A i \in 1 .. m : e[i] = IF i <= Len(c) THEN c[i] ELSE x
  BY <1>1 DEF m
<1> HIDE DEF d, e
<1>9. s = d
  BY <1>5, <1>6, <1>7, SeqEqual
<1>10. s = e
  BY <1>5, <1>6, <1>8, SeqEqual
<1>. QED BY <1>9, <1>10 DEF s, d, e, m

(* Attention reads what its token's context is: at prefill the keys and    *)
(* values at hand, else the rows of the cache up to its own.               *)
LEMMA Attends ==
  ASSUME ModelInv, Passing, NEW l \in 1 .. NumLayers, LayerState(l, 16), WrittenTo(l + 1),
         NEW i \in Rows
  PROVE  Reads(Attend(l), i) = ContextOf(i)
<1> DEFINE n == Len(job.tokens)
           past == job.past[i]
           r == job.of[i]
<1>1. /\ JobTypes /\ JobFits /\ JobPast /\ ModeAgrees /\ PoolHolds /\ PoolTypes /\ CacheInv
      /\ mode # "unset"
  BY DEF ModelInv
<1>2. /\ Rows = 1 .. n /\ n \in Nat \ {0} /\ i \in 1 .. n /\ i \in Nat
      /\ job.tokens = [k \in 1 .. n |-> <<passes, k>>]
      /\ r \in Requests /\ past \in Nat /\ job.kind \in {"forward", "batch"} /\ passes \in Nat
  <2>1. Rows = 1 .. n /\ n \in Nat \ {0}
    BY <1>1, Lengths
  <2>2. /\ job.of \in [1 .. n -> Requests] /\ job.past \in [1 .. n -> Nat]
        /\ job.kind \in {"forward", "batch"} /\ job.tokens = [k \in 1 .. n |-> <<passes, k>>]
    BY <1>1 DEF JobTypes
  <2>3. passes \in Nat
    BY <1>1 DEF CacheInv, Types
  <2> HIDE DEF n
  <2>. QED BY <2>1, <2>2, <2>3
<1> HIDE DEF n
<1>3. job.tokens \in [1 .. n -> Tags] /\ \A k \in 1 .. n : job.tokens[k] = <<passes, k>>
  <2>1. \A k \in 1 .. n : <<passes, k>> \in Tags
    BY <1>2 DEF Tags
  <2>. QED BY <1>2, <2>1
<1>4. Attend(l).l = l
  BY DEF Attend, Op
<1>5. CachedTokens(r) \in Seq(Tags) /\ Len(CachedTokens(r)) = past
  <2>1. mode \in {"none", "contiguous", "paged"}
    BY <1>1 DEF ModeAgrees
  <2>2. CASE mode = "none"
    <3>1. CachedTokens(r) = << >>
      BY <2>2 DEF CachedTokens
    <3>2. past = 0
      BY <1>1, <2>2 DEF JobPast
    <3>. QED BY <3>1, <3>2
  <2>3. CASE mode = "paged"
    <3>1. CachedTokens(r) = cached[r]
      BY <2>3 DEF CachedTokens
    <3>2. past = Len(cached[r])
      BY <1>1, <2>3 DEF JobPast
    <3>. QED BY <1>1, <1>2, <3>1, <3>2 DEF PoolTypes
  <2>4. CASE mode = "contiguous"
    <3>1. CachedTokens(r) = fed
      BY <2>4 DEF CachedTokens
    <3>2. past = current_len
      BY <1>1, <2>4 DEF JobPast, WrittenTo
    <3>. QED BY <1>1, <3>1, <3>2 DEF CacheInv, RowsHold, Types
  <2>. QED BY <2>1, <2>2, <2>3, <2>4
<1> DEFINE c == CachedTokens(r)
<1>6. CASE job.kind = "forward" /\ past = 0
  <2>1. Reads(Attend(l), i) = [j \in 1 .. i |-> Stored(l, buf["k_rot"][j], buf["v_3d"][j])]
    BY <1>4, <1>6 DEF Reads
  <2>2. ASSUME NEW j \in 1 .. i
        PROVE  Stored(l, buf["k_rot"][j], buf["v_3d"][j]) = job.tokens[j]
    <3> DEFINE t == job.tokens[j]
    <3>1. j \in 1 .. n /\ j \in Rows
      BY <1>2
    <3>2. t \in Range(job.tokens)
      BY <1>3, <3>1 DEF Range
    <3>3. /\ buf[Outs[14]] = [k \in Rows |-> Term(l, 14, k)]
          /\ buf[Outs[12]] = [k \in Rows |-> Term(l, 12, k)]
      <4>1. /\ 14 \in 2 .. (16 - 1) /\ 14 # 15
            /\ 12 \in 2 .. (16 - 1) /\ 12 # 15
        OBVIOUS
      <4>. QED BY <4>1, Zenon DEF LayerState
    <3>4. Outs[14] = "k_rot" /\ Outs[12] = "v_3d"
      BY DEF Outs
    <3>5. buf["k_rot"][j] = Term(l, 14, j) /\ buf["v_3d"][j] = Term(l, 12, j)
      BY <3>1, <3>3, <3>4
    <3>6. Term(l, 14, j) = KeyOf(l, t) /\ Term(l, 12, j) = ValueOf(l, t)
      BY TermIs
    <3> HIDE DEF t
    <3>7. Stored(l, KeyOf(l, t), ValueOf(l, t)) = t
      BY <3>2, StoredIs, Zenon
    <3>. QED BY <3>5, <3>6, <3>7, Zenon DEF t
  <2>3. Reads(Attend(l), i) = [j \in 1 .. i |-> job.tokens[j]]
    BY <2>1, <2>2
  <2>4. ContextOf(i) = c \o SubSeq(job.tokens, 1, i)
    BY <1>6 DEF ContextOf
  <2>5. SubSeq(job.tokens, 1, i) \in Seq(Tags)
        /\ SubSeq(job.tokens, 1, i) = [j \in 1 .. i |-> job.tokens[j]]
    <3>1. \A j \in 1 .. i : job.tokens[j] \in Tags
      BY <1>2, <1>3
    <3> DEFINE s == SubSeq(job.tokens, 1, i)
               d == [j \in 1 .. i |-> job.tokens[j]]
    <3>2. s \in Seq(Tags) /\ Len(s) = i /\ \A j \in 1 .. i : s[j] = job.tokens[j]
      <4>1. 1 \in Int /\ i \in Int /\ 1 <= i /\ i - 1 + 1 = i
        BY <1>2
      <4>2. /\ s \in Seq(Tags)
            /\ Len(s) = IF 1 <= i THEN i - 1 + 1 ELSE 0
            /\ \A j \in 1 .. i - 1 + 1 : s[j] = job.tokens[1 + j - 1]
        BY <3>1, <4>1, SubSeqProperties
      <4>3. \A j \in 1 .. i : 1 + j - 1 = j
        BY <1>2
      <4> HIDE DEF s
      <4>. QED BY <4>1, <4>2, <4>3
    <3>3. d \in Seq(Tags) /\ Len(d) = i /\ \A j \in 1 .. i : d[j] = job.tokens[j]
      <4>1. d \in [1 .. i -> Tags]
        BY <3>1
      <4>2. \A j \in 1 .. i : d[j] = job.tokens[j]
        OBVIOUS
      <4> HIDE DEF d
      <4>3. d \in Seq(Tags) /\ Len(d) = i
        BY <1>2, <4>1, FunctionIsSeq
      <4>. QED BY <4>2, <4>3
    <3> HIDE DEF s, d
    <3>4. s = d
      BY <3>2, <3>3, SeqEqual
    <3>. QED BY <3>2, <3>4 DEF s, d
  <2>6. c = << >>
    BY <1>5, <1>6
  <2> HIDE DEF c
  <2>7. c \o SubSeq(job.tokens, 1, i) = SubSeq(job.tokens, 1, i)
    BY <2>5, <2>6, ConcatEmptySeq
  <2>. QED BY <2>3, <2>4, <2>5, <2>7, Zenon
<1>7. CASE ~ (job.kind = "forward" /\ past = 0)
  <2> DEFINE rows == IF mode = "contiguous" THEN layers[l].rows ELSE pool[r][l]
             x == job.tokens[i]
  <2>1. Reads(Attend(l), i) = SubSeq(rows, 1, past + 1)
    BY <1>4, <1>7 DEF Reads
  <2>2. job.kind = "forward" => i = 1 /\ n = 1
    <3>1. job.kind = "forward" => past = job.past[1] /\ (job.past[1] # 0 => n = 1)
      BY <1>1, <1>2 DEF JobFits, n
    <3>. QED BY <1>2, <1>7, <3>1
  <2>3. job.kind = "batch" => mode = "paged"
    BY <1>1 DEF JobFits
  <2>4. mode \in {"contiguous", "paged"}
    <3>1. mode = "none" => past = 0
      BY <1>1 DEF JobPast
    <3>2. mode \in {"none", "contiguous", "paged"}
      BY <1>1 DEF ModeAgrees
    <3>. QED BY <1>2, <1>7, <2>3, <3>1, <3>2
  <2>5. x \in Tags
    BY <1>2, <1>3
  <2>6. ContextOf(i) = c \o <<x>> \/ ContextOf(i) = Append(c, x)
    <3>1. CASE job.kind = "batch"
      BY <3>1 DEF ContextOf
    <3>2. CASE job.kind = "forward"
      <4>1. ContextOf(i) = c \o SubSeq(job.tokens, 1, i)
        BY <3>2 DEF ContextOf
      <4>2. SubSeq(job.tokens, 1, 1) = <<job.tokens[1]>>
        <5>1. n = 1 /\ job.tokens \in [1 .. 1 -> Tags]
          BY <1>3, <2>2, <3>2
        <5>2. job.tokens \in Seq(Tags) /\ Len(job.tokens) = 1
          BY <5>1, FunctionIsSeq
        <5>3. SubSeq(job.tokens, 1, 1) = job.tokens
          BY <5>2, SubSeqFull
        <5>4. job.tokens = <<job.tokens[1]>>
          BY <5>1
        <5>. QED BY <5>3, <5>4, Zenon
      <4>. QED BY <2>2, <3>2, <4>1, <4>2
    <3>. QED BY <1>2, <3>1, <3>2
  <2>7. (\A p \in 1 .. Len(c) : rows[p] = c[p]) /\ rows[Len(c) + 1] = x
    <3>1. CASE mode = "paged"
      <4>1. rows = pool[r][l] /\ c = cached[r]
        BY <3>1 DEF CachedTokens
      <4>2. DOMAIN cached[r] = 1 .. Len(cached[r])
        BY <1>1, <1>2 DEF PoolTypes
      <4>3. \A p \in 1 .. Len(cached[r]) : pool[r][l][p] = cached[r][p]
        BY <1>1, <1>2, <4>2 DEF PoolHolds
      <4>4. InPool(l, i)
        <5>1. l \in 1 .. ((l + 1) - 1)
          OBVIOUS
        <5>. QED BY <3>1, <5>1, Zenon DEF WrittenTo
      <4>5. RowOf(i) = past + 1
        BY <1>2, <2>2 DEF RowOf
      <4>. QED BY <1>5, <4>1, <4>3, <4>4, <4>5 DEF InPool
    <3>2. CASE mode = "contiguous"
      <4>1. rows = layers[l].rows /\ c = fed /\ l \in Layers
        BY <3>2 DEF CachedTokens, Layers
      <4>2. /\ Running /\ pass.next = l + 1 /\ past = current_len /\ pass.len = n
        BY <1>1, <3>2 DEF WrittenTo, JobPast, n
      <4>3. \A p \in 1 .. current_len : layers[l].rows[p] = fed[p]
        BY <1>1, <4>1 DEF CacheInv, RowsHold
      <4>4. job.kind = "forward" /\ i = 1 /\ n = 1
        BY <1>2, <2>2, <2>3, <3>2
      <4>5. layers[l].rows[pass.past + 1] = Token(1) /\ pass.past = current_len
        <5>1. l \in 1 .. (pass.next - 1) /\ 1 \in 1 .. pass.len
          BY <4>2, <4>4
        <5>. QED BY <1>1, <4>2, <5>1 DEF CacheInv, PassKept, PassFits
      <4>6. Token(1) = x
        BY <1>3, <4>4 DEF Token
      <4>. QED BY <1>5, <4>1, <4>2, <4>3, <4>5, <4>6
    <3>. QED BY <2>4, <3>1, <3>2
  <2>8. past + 1 = Len(c) + 1
    BY <1>5
  <2> HIDE DEF c, x, rows
  <2>9. c \in Seq(Tags)
    BY <1>5 DEF c
  <2>10. SubSeq(rows, 1, past + 1) = c \o <<x>> /\ SubSeq(rows, 1, past + 1) = Append(c, x)
    BY <2>5, <2>7, <2>8, <2>9, FirstRows
  <2>. QED BY <2>1, <2>6, <2>10, Zenon
<1>. QED BY <1>6, <1>7

(* The operations that run a kernel.                                       *)
Computing ==
  {"linear", "rms_norm", "embedding", "copy", "rotary", "attention", "add", "silu_and_mul"}

(* What kind of operation is at each place.                                *)
LEMMA Kinds ==
  ASSUME NEW l
  PROVE  /\ StageOp(l, 1).op = "locals" /\ StageOp(l, 15).op = "update_layer"
         /\ \A s \in 2 .. 25 : s # 15 => StageOp(l, s).op \in Computing
         /\ \A i : /\ BatchOp(l, i, 1).op = "row" /\ BatchOp(l, i, 2).op = "row"
                   /\ BatchOp(l, i, 3).op = "update_layer"
         /\ FirstOp.op = "embedding" /\ EndOp(1).op = "advance"
         /\ EndOp(2).op = "rms_norm" /\ EndOp(3).op = "linear"
<1>1. StageOp(l, 1).op = "locals" /\ StageOp(l, 15).op = "update_layer"
  BY StageIs DEF UpdateOp, Op
<1>2. ASSUME NEW s \in 2 .. 25, s # 15 PROVE StageOp(l, s).op \in Computing
  <2>1. /\ StageOp(l, 2).op = "rms_norm" /\ StageOp(l, 3).op = "linear"
        /\ StageOp(l, 4).op = "linear" /\ StageOp(l, 5).op = "linear"
        /\ StageOp(l, 6).op = "copy" /\ StageOp(l, 7).op = "copy"
        /\ StageOp(l, 8).op = "rms_norm" /\ StageOp(l, 9).op = "rms_norm"
        /\ StageOp(l, 10).op = "copy" /\ StageOp(l, 11).op = "copy" /\ StageOp(l, 12).op = "copy"
        /\ StageOp(l, 13).op = "rotary" /\ StageOp(l, 14).op = "rotary"
        /\ StageOp(l, 16).op = "attention" /\ StageOp(l, 17).op = "copy"
        /\ StageOp(l, 18).op = "linear" /\ StageOp(l, 19).op = "add"
        /\ StageOp(l, 20).op = "rms_norm" /\ StageOp(l, 21).op = "linear"
        /\ StageOp(l, 22).op = "linear" /\ StageOp(l, 23).op = "silu_and_mul"
        /\ StageOp(l, 24).op = "linear" /\ StageOp(l, 25).op = "add"
    BY StageIs DEF RMSNorm, Linear, Copy, Rotary, Attend, Add, Act, Op
  <2>2. \/ s \in {2, 3, 4, 5, 6, 7, 8, 9, 10, 11, 12, 13, 14}
        \/ s \in {16, 17, 18, 19, 20, 21, 22, 23, 24, 25}
    BY <1>2
  <2>. QED BY <2>1, <2>2 DEF Computing
<1>3. ASSUME NEW i
      PROVE  /\ BatchOp(l, i, 1).op = "row" /\ BatchOp(l, i, 2).op = "row"
             /\ BatchOp(l, i, 3).op = "update_layer"
  BY DEF BatchOp, OfRow, Op
<1>4. /\ FirstOp.op = "embedding" /\ EndOp(1).op = "advance"
      /\ EndOp(2).op = "rms_norm" /\ EndOp(3).op = "linear"
  BY DEF FirstOp, EndOp, RMSNorm, Linear, Op
<1>. QED BY <1>1, <1>2, <1>3, <1>4

(* The place of a stage within its layer.                                  *)
LEMMA Places ==
  ASSUME JobTypes
  PROVE  /\ \A s \in 1 .. 25 : Place(s) \in 1 .. LayerLength
         /\ Place(1) = 1 /\ Place(25) = LayerLength /\ Place(15) = 15 /\ Place(14) = 14
         /\ \A s \in 1 .. 24 : s # 15 => Place(s) + 1 = Place(s + 1)
         /\ job.kind = "forward" => Place(15) + 1 = Place(16)
         /\ job.kind = "batch" =>
              /\ \A i \in Rows, m \in 1 .. 3 : 14 + ((i - 1) * 3 + m) \in 1 .. LayerLength
              /\ 14 + ((1 - 1) * 3 + 1) = 15
              /\ \A i \in Rows : (14 + ((i - 1) * 3 + 3)) + 1 = 14 + (((i + 1) - 1) * 3 + 1)
              /\ (14 + ((Len(job.tokens) - 1) * 3 + 3)) + 1 = Place(16)
<1> DEFINE w == CacheOps
           n == Len(job.tokens)
<1>1. /\ w \in Nat \ {0} /\ LayerLength = 24 + w /\ Rows = 1 .. n /\ n \in Nat \ {0}
      /\ job.kind = "forward" => w = 1
      /\ job.kind = "batch" => w = 3 * n
  BY Lengths
<1>2. \A s : Place(s) = IF s <= 15 THEN s ELSE s + w - 1
  BY DEF Place
<1> HIDE DEF w, n
<1>3. \A s \in 1 .. 25 : Place(s) \in 1 .. LayerLength
  BY <1>1, <1>2
<1>4. Place(1) = 1 /\ Place(25) = LayerLength /\ Place(15) = 15 /\ Place(14) = 14
  BY <1>1, <1>2
<1>5. \A s \in 1 .. 24 : s # 15 => Place(s) + 1 = Place(s + 1)
  BY <1>1, <1>2
<1>6. job.kind = "forward" => Place(15) + 1 = Place(16)
  BY <1>1, <1>2
<1>7. ASSUME job.kind = "batch"
      PROVE  /\ \A i \in Rows, m \in 1 .. 3 : 14 + ((i - 1) * 3 + m) \in 1 .. LayerLength
             /\ 14 + ((1 - 1) * 3 + 1) = 15
             /\ \A i \in Rows : (14 + ((i - 1) * 3 + 3)) + 1 = 14 + (((i + 1) - 1) * 3 + 1)
             /\ (14 + ((n - 1) * 3 + 3)) + 1 = Place(16)
  BY <1>1, <1>2, <1>7
<1>. QED BY <1>3, <1>4, <1>5, <1>6, <1>7 DEF n

(* Where a pass stands, the program says what comes.                       *)
LEMMA Here ==
  ASSUME JobTypes, JobFits
  PROVE  /\ AtStart => Instruction = FirstOp /\ job.at <= Len(Program)
         /\ \A l \in 1 .. NumLayers, s \in 1 .. 25 :
              AtStage(l, s) => Instruction = StageOp(l, s) /\ job.at <= Len(Program)
         /\ \A l \in 1 .. NumLayers, i \in Rows, m \in 1 .. 3 :
              AtRow(l, i, m) => Instruction = BatchOp(l, i, m) /\ job.at <= Len(Program)
         /\ \A e \in 1 .. 3 : AtEnd(e) => Instruction = EndOp(e) /\ job.at <= Len(Program)
         /\ AtEnd(4) => job.at > Len(Program)
         /\ Len(Program) \in Nat
<1> DEFINE N == NumLayers
<1>1. ProgramLaid
  BY ProgramIs
<1>2. /\ N \in Nat \ {0} /\ N + 1 \in 1 .. N + 1
      /\ \A l \in 1 .. N + 1, j \in Nat : At(l, j) \in Nat \ {0} /\ At(l, j) + 1 = At(l, j + 1)
      /\ \A l \in 1 .. N, j \in 1 .. LayerLength : At(l, j) < At(N + 1, 1)
  BY Positions
<1> HIDE DEF N
<1>3. /\ Len(Program) = At(N + 1, 3) /\ Len(Program) \in Nat
      /\ At(N + 1, 2) = At(N + 1, 1) + 1 /\ At(N + 1, 3) = At(N + 1, 1) + 2
      /\ At(N + 1, 4) = At(N + 1, 1) + 3 /\ At(N + 1, 1) \in Nat \ {0}
  <2>1. At(N + 1, 1) \in Nat \ {0} /\ At(N + 1, 1) + 1 = At(N + 1, 2)
    <3>1. 1 \in Nat /\ 1 + 1 = 2
      OBVIOUS
    <3>. QED BY <1>2, <3>1
  <2>2. At(N + 1, 2) + 1 = At(N + 1, 3)
    <3>1. 2 \in Nat /\ 2 + 1 = 3
      OBVIOUS
    <3>. QED BY <1>2, <3>1
  <2>3. At(N + 1, 3) + 1 = At(N + 1, 4)
    <3>1. 3 \in Nat /\ 3 + 1 = 4
      OBVIOUS
    <3>. QED BY <1>2, <3>1
  <2>4. Len(Program) = At(N + 1, 3)
    BY <1>1 DEF ProgramLaid, N
  <2>. QED BY <2>1, <2>2, <2>3, <2>4
<1>4. ASSUME NEW l \in 1 .. N, NEW j \in 1 .. LayerLength
      PROVE  At(l, j) <= Len(Program)
  <2>1. LayerLength \in Nat
    BY Lengths
  <2>2. l \in 1 .. N + 1 /\ j \in Nat
    BY <1>2, <2>1
  <2>3. At(l, j) \in Nat /\ At(l, j) < At(N + 1, 1)
    BY <1>2, <2>2
  <2>. QED BY <1>3, <2>3
<1>5. AtStart => Instruction = FirstOp /\ job.at <= Len(Program)
  <2>1. 1 <= Len(Program)
    BY <1>3
  <2>. QED BY <1>1, <2>1 DEF ProgramLaid, AtStart, Instruction
<1>6. ASSUME NEW l \in 1 .. N, NEW s \in 1 .. 25, AtStage(l, s)
      PROVE  Instruction = StageOp(l, s) /\ job.at <= Len(Program)
  <2>1. job.at = At(l, Place(s)) /\ (s = 15 => job.kind = "forward")
    BY <1>6 DEF AtStage
  <2>2. Place(s) \in 1 .. LayerLength
    BY Places
  <2>3. Program[At(l, Place(s))] = StageOp(l, s)
    BY <1>1, <2>1 DEF ProgramLaid, N
  <2>. QED BY <1>4, <2>1, <2>2, <2>3 DEF Instruction
<1>7. ASSUME NEW l \in 1 .. N, NEW i \in Rows, NEW m \in 1 .. 3, AtRow(l, i, m)
      PROVE  Instruction = BatchOp(l, i, m) /\ job.at <= Len(Program)
  <2> DEFINE p == 14 + ((i - 1) * 3 + m)
  <2>1. job.kind = "batch" /\ job.at = At(l, p)
    BY <1>7 DEF AtRow
  <2>2. p \in 1 .. LayerLength
    BY <2>1, Places
  <2>3. Program[At(l, p)] = BatchOp(l, i, m)
    BY <1>1, <2>1 DEF ProgramLaid, N
  <2> HIDE DEF p
  <2>. QED BY <1>4, <2>1, <2>2, <2>3 DEF Instruction
<1>8. ASSUME NEW e \in 1 .. 3, AtEnd(e)
      PROVE  Instruction = EndOp(e) /\ job.at <= Len(Program)
  <2>1. job.at = At(N + 1, e)
    BY <1>8 DEF AtEnd, N
  <2>2. Program[At(N + 1, e)] = EndOp(e)
    BY <1>1 DEF ProgramLaid, N
  <2>3. At(N + 1, e) <= Len(Program)
    <3>1. e = 1 \/ e = 2 \/ e = 3
      OBVIOUS
    <3>. QED BY <1>3, <3>1
  <2>. QED BY <2>1, <2>2, <2>3 DEF Instruction
<1>9. AtEnd(4) => job.at > Len(Program)
  BY <1>3 DEF AtEnd, N
<1>. QED BY <1>3, <1>5, <1>6, <1>7, <1>8, <1>9 DEF N

(* What the cache holds of a pass stays while it is not written.           *)
LEMMA StillCached ==
  ASSUME JobTypes, SamePass, pool' = pool, UNCHANGED kvVars
  PROVE  /\ \A k, i : InPool(k, i)' = InPool(k, i)
         /\ \A l : WrittenTo(l)' = WrittenTo(l)
<1>1. /\ job'.tokens = job.tokens /\ job'.kind = job.kind /\ job'.of = job.of
      /\ job'.past = job.past /\ Rows' = Rows
  BY SameRows, Zenon
<1>2. ASSUME NEW i PROVE RowOf(i)' = RowOf(i)
  BY <1>1 DEF RowOf
<1>3. ASSUME NEW k, NEW i PROVE InPool(k, i)' = InPool(k, i)
  BY <1>1, <1>2 DEF InPool
<1>4. pass' = pass /\ mode' = mode
  BY DEF kvVars, SamePass
<1>5. Running' = Running
  BY <1>4 DEF Running
<1>6. ASSUME NEW l PROVE WrittenTo(l)' = WrittenTo(l)
  BY <1>1, <1>3, <1>4, <1>5 DEF WrittenTo
<1>. QED BY <1>3, <1>6

(* So do the tensors of a layer that are not written.                      *)
LEMMA StillComputed ==
  ASSUME JobTypes, SamePass, fed' = fed, NEW l, NEW s \in 1 .. 25, LayerState(l, s),
         buf'[Current(l)] = buf[Current(l)],
         \A q \in 2 .. (s - 1) : q # 15 => buf'[Outs[q]] = buf[Outs[q]]
  PROVE  LayerState(l, s)'
<1>1. Rows' = Rows /\ HiddenRows(l - 1)' = HiddenRows(l - 1)
  BY SameRows
<1>2. \A q, i : Term(l, q, i)' = Term(l, q, i)
  BY SameTerms
<1>3. buf'[Current(l)] = HiddenRows(l - 1)'
  BY <1>1 DEF LayerState
<1>4. ASSUME NEW q \in 2 .. (s - 1), q # 15
      PROVE  buf'[Outs[q]] = [i \in Rows' |-> Term(l, q, i)']
  <2>1. buf'[Outs[q]] = [i \in Rows |-> Term(l, q, i)]
    BY <1>4 DEF LayerState
  <2>. QED BY <1>1, <1>2, <2>1
<1>. QED BY <1>3, <1>4 DEF LayerState

(* Where a computation leaves the pass.                                    *)
LEMMA Computes ==
  ASSUME ModelInv, Passing, Compute
  PROVE  /\ JobTypes /\ JobFits /\ SamePass /\ job'.at = job.at + 1 /\ job'.kind # "none"
         /\ pool' = pool /\ UNCHANGED kvVars /\ fed' = fed /\ passes' = passes
         /\ Instruction.op \in Computing
         /\ Instruction.w # << >> => Fits(Instruction)
         /\ JobTypes' /\ JobFits' /\ Program' = Program
         /\ DOMAIN buf' = Tensors
         /\ Instruction.out \in Tensors =>
              buf'[Instruction.out] = [i \in Rows |-> Result(Instruction, i)]
         /\ \A v \in Tensors : v # Instruction.out => buf'[v] = buf[v]
<1>1. /\ buf' = [buf EXCEPT ![Instruction.out] = [i \in Rows |-> Result(Instruction, i)]]
      /\ NextOp /\ UNCHANGED kvVars /\ pool' = pool /\ passes' = passes
      /\ Instruction.op \in Computing /\ (Instruction.w # << >> => Fits(Instruction))
  BY DEF Compute, InPass, Computing
<1>2. JobTypes /\ JobFits
  BY DEF ModelInv
<1>3. DOMAIN buf = Tensors
  BY <1>2 DEF JobTypes
<1>4. DOMAIN buf' = Tensors
  BY <1>1, <1>3
<1>5. /\ Instruction.out \in Tensors =>
           buf'[Instruction.out] = [i \in Rows |-> Result(Instruction, i)]
      /\ \A v \in Tensors : v # Instruction.out => buf'[v] = buf[v]
  BY <1>1, <1>3
<1>6. fed' = fed
  BY <1>1 DEF kvVars
<1>7. /\ SamePass /\ job'.at = job.at + 1 /\ job'.kind # "none"
      /\ JobTypes' /\ JobFits' /\ Program' = Program
  BY <1>1, <1>2, <1>4, Advances
<1>. QED BY <1>1, <1>2, <1>4, <1>5, <1>6, <1>7

(* A stage computes what it should, and the next comes.                    *)
LEMMA StageKeeps ==
  ASSUME ModelInv, Passing, Compute, NEW l \in 1 .. NumLayers, NEW s \in 2 .. 24, s # 15,
         AtStage(l, s)
  PROVE  PassState'
<1>1. /\ JobTypes /\ JobFits /\ SamePass /\ job'.at = job.at + 1
      /\ pool' = pool /\ UNCHANGED kvVars /\ fed' = fed
      /\ Instruction.out \in Tensors =>
           buf'[Instruction.out] = [i \in Rows |-> Result(Instruction, i)]
      /\ \A v \in Tensors : v # Instruction.out => buf'[v] = buf[v]
  BY Computes
<1>2. Instruction = StageOp(l, s)
  <2>1. s \in 1 .. 25
    OBVIOUS
  <2>. QED BY <1>1, <2>1, Here, Zenon
<1>3. StageOp(l, s).out = Outs[s] /\ Outs[s] \in Tensors /\ l \in Nat
  BY StageOuts, TensorsAre
<1>4. LayerState(l, s) /\ WrittenTo(IF s <= 15 THEN l ELSE l + 1) /\ job.at = At(l, Place(s))
  BY DEF AtStage
<1>5. ASSUME NEW i \in Rows PROVE Result(StageOp(l, s), i) = Term(l, s, i)
  <2>1. s = 16 => Reads(Attend(l), i) = ContextOf(i)
    BY <1>4, Attends
  <2>2. s \in 2 .. 25 /\ s # 25
    OBVIOUS
  <2>. QED BY <1>4, <2>1, <2>2, StageMakes
<1>6. buf'[Outs[s]] = [i \in Rows |-> Term(l, s, i)]
  BY <1>1, <1>2, <1>3, <1>5
<1>7. LayerState(l, s + 1)'
  <2>1. LayerState(l, s)'
    <3>1. Current(l) \in Tensors /\ Current(l) # Outs[s]
      BY <1>3, TensorsAre, OutsDiffer
    <3>2. ASSUME NEW q \in 2 .. (s - 1), q # 15 PROVE Outs[q] \in Tensors /\ Outs[q] # Outs[s]
      <4>1. q \in 2 .. 24 /\ q # s
        OBVIOUS
      <4>. QED BY <3>2, <4>1, TensorsAre, OutsDiffer
    <3>3. s \in 1 .. 25
      OBVIOUS
    <3>4. buf'[Current(l)] = buf[Current(l)]
      BY <1>1, <1>2, <1>3, <3>1
    <3>5. \A q \in 2 .. (s - 1) : q # 15 => buf'[Outs[q]] = buf[Outs[q]]
      BY <1>1, <1>2, <1>3, <3>2
    <3>. QED BY <1>1, <1>4, <3>3, <3>4, <3>5, StillComputed
  <2>2. Rows' = Rows /\ \A q, i : Term(l, q, i)' = Term(l, q, i)
    BY <1>1, SameRows, SameTerms
  <2>3. buf'[Outs[s]] = [i \in Rows' |-> Term(l, s, i)']
    BY <1>6, <2>2
  <2>4. \A q \in 2 .. ((s + 1) - 1) : q = s \/ q \in 2 .. (s - 1)
    OBVIOUS
  <2>. QED BY <2>1, <2>3, <2>4 DEF LayerState
<1>8. \A k : WrittenTo(k)' = WrittenTo(k)
  BY <1>1, StillCached
<1>9. /\ \A k, j : At(k, j)' = At(k, j)
      /\ \A k : Place(k)' = Place(k)
      /\ job'.kind = job.kind /\ Rows' = Rows /\ JobTypes' /\ job.kind \in {"forward", "batch"}
  <2>1. NextOp /\ passes' = passes
    BY DEF Compute
  <2>2. JobTypes'
    BY Computes
  <2>3. job.kind \in {"forward", "batch"}
    BY <1>1 DEF JobTypes
  <2>. QED BY <1>1, <2>1, <2>2, <2>3, Advances, SameRows
<1>10. job'.at = At(l, Place(s + 1)) /\ (s = 14 => Place(15) = 15)
  <2>1. Place(s) \in 1 .. LayerLength /\ Place(s) + 1 = Place(s + 1) /\ Place(15) = 15
    <3>1. s \in 1 .. 25 /\ s \in 1 .. 24
      OBVIOUS
    <3>. QED BY <1>1, <3>1, Places
  <2>2. LayerLength \in Nat
    BY <1>1, Lengths
  <2>3. Place(s) \in Nat /\ l \in 1 .. NumLayers + 1
    BY <2>1, <2>2
  <2>4. At(l, Place(s)) + 1 = At(l, Place(s) + 1)
    BY <1>1, <2>3, Positions
  <2>. QED BY <1>1, <1>4, <2>1, <2>4
<1>11. CASE s = 14 /\ job.kind = "batch"
  <2>1. s + 1 = 15
    BY <1>11
  <2>2. job'.at = At(l, 14 + ((1 - 1) * 3 + 1))'
    <3>1. 14 + ((1 - 1) * 3 + 1) = 15
      OBVIOUS
    <3>2. At(l, 15)' = At(l, 15) /\ job'.at = At(l, 15)
      BY <1>9, <1>10, <1>11, <2>1
    <3>. QED BY <3>1, <3>2
  <2>3. LayerState(l, 15)' /\ WrittenTo(l)'
    BY <1>4, <1>7, <1>8, <1>11, <2>1
  <2>4. BatchState(l, 1, 1)'
    BY DEF BatchState
  <2>5. AtRow(l, 1, 1)'
    BY <1>9, <1>11, <2>2, <2>3, <2>4 DEF AtRow
  <2>6. 1 \in Rows' /\ 1 \in 1 .. 3
    BY <1>1, <1>9, Lengths
  <2>. QED BY <2>5, <2>6, Zenon DEF PassState
<1>12. CASE ~ (s = 14 /\ job.kind = "batch")
  <2>1. s + 1 = 15 => job'.kind = "forward"
    BY <1>9, <1>12
  <2>2. job'.at = At(l, Place(s + 1))'
    BY <1>9, <1>10
  <2>3. WrittenTo(IF s + 1 <= 15 THEN l ELSE l + 1)'
    <3>1. (s + 1 <= 15) = (s <= 15)
      OBVIOUS
    <3>. QED BY <1>4, <1>8, <3>1
  <2>4. AtStage(l, s + 1)'
    BY <1>7, <2>1, <2>2, <2>3 DEF AtStage
  <2>5. s + 1 \in 1 .. 25
    OBVIOUS
  <2>. QED BY <2>4, <2>5, Zenon DEF PassState
<1>. QED BY <1>11, <1>12

(* The embedding gives the first layer its input.                          *)
LEMMA FirstKeeps ==
  ASSUME ModelInv, Passing, Compute, AtStart
  PROVE  PassState'
<1>1. /\ JobTypes /\ JobFits /\ SamePass /\ job'.at = job.at + 1
      /\ pool' = pool /\ UNCHANGED kvVars /\ fed' = fed
      /\ Instruction.out \in Tensors =>
           buf'[Instruction.out] = [i \in Rows |-> Result(Instruction, i)]
  BY Computes
<1>2. Instruction = FirstOp
  BY <1>1, Here, Zenon
<1>3. FirstOp.out = "hidden_a" /\ "hidden_a" \in Tensors /\ Current(1) = "hidden_a"
  BY TensorsAre DEF FirstOp, Op, Ends, Current
<1>4. ASSUME NEW i \in Rows PROVE Result(FirstOp, i) = Hidden(1 - 1, job.tokens[i])
  <2>1. Result(FirstOp, i) = <<"embedding", WeightOf(<<0, "embed_tokens">>), buf["input_ids"][i]>>
    BY DEF Result, FirstOp, Op
  <2>2. buf["input_ids"] = job.tokens
    BY DEF AtStart
  <2>. QED BY <2>1, <2>2 DEF Hidden
<1>5. buf'["hidden_a"] = [i \in Rows |-> Hidden(1 - 1, job.tokens[i])]
  BY <1>1, <1>2, <1>3, <1>4
<1>6. HiddenRows(1 - 1)' = HiddenRows(1 - 1)
  BY <1>1, SameRows
<1>7. LayerState(1, 1)'
  BY <1>3, <1>5, <1>6 DEF LayerState, HiddenRows
<1>8. WrittenTo(1)'
  BY <1>1, StillCached DEF AtStart
<1>9. job'.at = At(1, Place(1))'
  <2>1. NextOp /\ passes' = passes
    BY DEF Compute
  <2>2. (\A l, j : At(l, j)' = At(l, j)) /\ Place(1)' = Place(1)
    BY <1>1, <2>1, Advances
  <2>3. At(1, 1) = 2 /\ Place(1) = 1
    BY <1>1, Positions, Places
  <2>. QED BY <1>1, <2>2, <2>3 DEF AtStart
<1>10. AtStage(1, 1)'
  BY <1>7, <1>8, <1>9 DEF AtStage
<1>11. 1 \in 1 .. NumLayers /\ 1 \in 1 .. 25
  OBVIOUS
<1>. QED BY <1>10, <1>11, Zenon DEF PassState

(* A layer's own tensors are new; its input is not one of them.            *)
LEMMA LocalsKeep ==
  ASSUME ModelInv, Passing, Locals, NEW l \in 1 .. NumLayers, AtStage(l, 1)
  PROVE  PassState'
<1>1. JobTypes /\ JobFits
  BY DEF ModelInv
<1>2. /\ buf' = [v \in Tensors |->
                   IF v \in LayerLocals THEN [i \in Rows |-> Unwritten] ELSE buf[v]]
      /\ NextOp /\ UNCHANGED kvVars /\ passes' = passes /\ pool' = pool
  BY DEF Locals
<1>3. /\ SamePass /\ job'.at = job.at + 1
      /\ (\A k, j : At(k, j)' = At(k, j)) /\ (\A s : Place(s)' = Place(s))
  BY <1>1, <1>2, Advances
<1>4. Current(l) \in Tensors /\ Current(l) \notin LayerLocals
  <2>1. Current(l) \in {"hidden_a", "hidden_b"}
    BY DEF Current
  <2>2. Current(l) \in Tensors
    BY TensorsAre
  <2>. QED BY <2>1, <2>2 DEF LayerLocals
<1>5. buf'[Current(l)] = buf[Current(l)]
  BY <1>2, <1>4
<1>6. HiddenRows(l - 1)' = HiddenRows(l - 1)
  BY <1>1, <1>3, SameRows
<1>7. LayerState(l, 2)'
  BY <1>5, <1>6 DEF AtStage, LayerState
<1>8. WrittenTo(l)'
  BY <1>1, <1>2, <1>3, StillCached DEF AtStage
<1>9. job'.at = At(l, Place(2))'
  <2>1. Place(1) = 1 /\ Place(1) + 1 = Place(2)
    <3>1. 1 \in 1 .. 24 /\ 1 # 15 /\ 1 + 1 = 2
      OBVIOUS
    <3>. QED BY <1>1, <3>1, Places
  <2>2. At(l, 1) + 1 = At(l, 1 + 1)
    BY <1>1, Positions
  <2>. QED BY <1>3, <2>1, <2>2 DEF AtStage
<1>10. AtStage(l, 2)'
  BY <1>7, <1>8, <1>9 DEF AtStage
<1>11. 2 \in 1 .. 25
  OBVIOUS
<1>. QED BY <1>10, <1>11, Zenon DEF PassState

(* The last sum of a layer is the next one's input, in the other buffer.   *)
LEMMA LayerKeeps ==
  ASSUME ModelInv, Passing, Compute, NEW l \in 1 .. NumLayers, AtStage(l, 25)
  PROVE  PassState'
<1>1. /\ JobTypes /\ JobFits /\ SamePass /\ job'.at = job.at + 1
      /\ pool' = pool /\ UNCHANGED kvVars /\ fed' = fed
      /\ Instruction.out \in Tensors =>
           buf'[Instruction.out] = [i \in Rows |-> Result(Instruction, i)]
  BY Computes
<1>2. Instruction = StageOp(l, 25)
  <2>1. 25 \in 1 .. 25
    OBVIOUS
  <2>. QED BY <1>1, <2>1, Here, Zenon
<1>3. StageOp(l, 25).out = Current(l + 1) /\ Current(l + 1) \in Tensors
  <2>1. StageOp(l, 25).out = Other(Current(l))
    BY StageIs DEF Add, Op
  <2>2. Other(Current(l)) = Current(l + 1)
    BY DEF Other, Current
  <2>3. l \in Nat
    OBVIOUS
  <2>. QED BY <2>1, <2>2, <2>3, TensorsAre
<1>4. LayerState(l, 25) /\ WrittenTo(l + 1) /\ job.at = At(l, Place(25))
  BY DEF AtStage
<1>5. ASSUME NEW i \in Rows PROVE Result(StageOp(l, 25), i) = Hidden(l, job.tokens[i])
  <2>1. 25 \in 2 .. 25 /\ 25 # 15 /\ ~ (25 = 16)
    OBVIOUS
  <2>. QED BY <1>4, <2>1, StageMakes
<1>6. buf'[Current(l + 1)] = HiddenRows(l)'
  <2>1. buf'[Current(l + 1)] = [i \in Rows |-> Hidden(l, job.tokens[i])]
    BY <1>1, <1>2, <1>3, <1>5
  <2>2. HiddenRows(l)' = HiddenRows(l)
    BY <1>1, SameRows
  <2>. QED BY <2>1, <2>2 DEF HiddenRows
<1>7. WrittenTo(l + 1)'
  BY <1>1, <1>4, StillCached
<1>8. (\A k, j : At(k, j)' = At(k, j)) /\ Place(1)' = Place(1) /\ Place(1) = 1
  <2>1. NextOp /\ passes' = passes
    BY DEF Compute
  <2>. QED BY <1>1, <2>1, Advances, Places
<1>9. job'.at = At(l + 1, 1)
  <2>1. At(l, LayerLength) + 1 = At(l, LayerLength + 1) /\ At(l, LayerLength + 1) = At(l + 1, 1)
    <3>1. l \in 1 .. NumLayers + 1 /\ LayerLength \in Nat
      BY <1>1, Lengths
    <3>. QED BY <1>1, <3>1, Positions
  <2>2. Place(25) = LayerLength
    BY <1>1, Places
  <2>. QED BY <1>1, <1>4, <2>1, <2>2
<1>10. CASE l = NumLayers
  <2>1. AtEnd(1)'
    BY <1>6, <1>7, <1>8, <1>9, <1>10 DEF AtEnd
  <2>2. 1 \in 1 .. 4
    OBVIOUS
  <2>. QED BY <2>1, <2>2, Zenon DEF PassState
<1>11. CASE l # NumLayers
  <2> DEFINE k == l + 1
  <2>1. k \in 1 .. NumLayers /\ k - 1 = l
    BY <1>11
  <2>2. buf'[Current(k)] = HiddenRows(k - 1)' /\ WrittenTo(k)' /\ job'.at = At(k, Place(1))'
    BY <1>6, <1>7, <1>8, <1>9, <2>1
  <2> HIDE DEF k
  <2>3. AtStage(k, 1)'
    BY <2>2 DEF AtStage, LayerState
  <2>4. 1 \in 1 .. 25
    OBVIOUS
  <2>. QED BY <2>1, <2>3, <2>4, Zenon DEF PassState
<1>. QED BY <1>10, <1>11

(* After the layers come the last norm and the logits.                     *)
LEMMA EndKeeps ==
  ASSUME ModelInv, Passing, Compute, NEW e \in 2 .. 3, AtEnd(e)
  PROVE  PassState'
<1>1. /\ JobTypes /\ JobFits /\ SamePass /\ job'.at = job.at + 1
      /\ pool' = pool /\ UNCHANGED kvVars /\ fed' = fed
      /\ Instruction.out \in Tensors =>
           buf'[Instruction.out] = [i \in Rows |-> Result(Instruction, i)]
  BY Computes
<1>2. Instruction = EndOp(e)
  <2>1. e \in 1 .. 3
    OBVIOUS
  <2>. QED BY <1>1, <2>1, Here, Zenon
<1>3. /\ job.at = At(NumLayers + 1, e) /\ ~ Running
      /\ mode = "paged" => \A k \in 1 .. NumLayers, i \in Rows : InPool(k, i)
  BY DEF AtEnd
<1>4. /\ job'.at = At(NumLayers + 1, e + 1)'
      /\ ~ Running' /\ (mode' = "paged" => \A k \in 1 .. NumLayers, i \in Rows' : InPool(k, i)')
  <2>1. NextOp /\ passes' = passes
    BY DEF Compute
  <2>2. \A k, j : At(k, j)' = At(k, j)
    BY <1>1, <2>1, Advances
  <2>3. At(NumLayers + 1, e) + 1 = At(NumLayers + 1, e + 1)
    <3>1. NumLayers + 1 \in 1 .. NumLayers + 1 /\ e \in Nat
      OBVIOUS
    <3>. QED BY <1>1, <3>1, Positions
  <2>4. pass' = pass /\ mode' = mode
    BY <1>1 DEF kvVars, SamePass
  <2>5. ~ Running'
    BY <1>3, <2>4 DEF Running
  <2>6. Rows' = Rows /\ \A k, i : InPool(k, i)' = InPool(k, i)
    BY <1>1, SameRows, StillCached
  <2>. QED BY <1>1, <1>3, <2>2, <2>3, <2>4, <2>5, <2>6
<1>5. /\ Rows' = Rows /\ job'.tokens = job.tokens
      /\ \A n : WeightOf(n)' = WeightOf(n)
      /\ \A l, t : Hidden(l, t)' = Hidden(l, t)
      /\ \A t : LogitsOf(t)' = LogitsOf(t)
  BY <1>1, SameRows
<1>6. CASE e = 2
  <2>1. EndOp(2) = RMSNorm(0, "norm", Current(NumLayers + 1), "hidden_states")
    BY DEF EndOp
  <2>2. EndOp(2).out = "hidden_states" /\ "hidden_states" \in Tensors
    BY <2>1, TensorsAre DEF RMSNorm, Op, Ends
  <2>3. ASSUME NEW i \in Rows
        PROVE  Result(EndOp(2), i) = NormOf(0, "norm", Hidden(NumLayers, job.tokens[i]))
    <3>1. Result(EndOp(2), i) = NormOf(0, "norm", buf[Current(NumLayers + 1)][i])
      BY <2>1, NormMakes
    <3>2. buf[Current(NumLayers + 1)] = HiddenRows(NumLayers)
      BY <1>6 DEF AtEnd
    <3>3. HiddenRows(NumLayers)[i] = Hidden(NumLayers, job.tokens[i])
      BY DEF HiddenRows
    <3>. QED BY <3>1, <3>2, <3>3
  <2>4. buf'["hidden_states"] =
          [i \in Rows |-> NormOf(0, "norm", Hidden(NumLayers, job.tokens[i]))]
    BY <1>1, <1>2, <1>6, <2>2, <2>3
  <2>5. buf'["hidden_states"] =
          [i \in Rows' |-> NormOf(0, "norm", Hidden(NumLayers, job.tokens[i]))']
    BY <1>5, <2>4 DEF NormOf
  <2>6. AtEnd(3)'
    BY <1>4, <1>6, <2>5 DEF AtEnd
  <2>7. 3 \in 1 .. 4
    OBVIOUS
  <2>. QED BY <2>6, <2>7, Zenon DEF PassState
<1>7. CASE e = 3
  <2>1. EndOp(3) = Linear(0, "lm_head", "hidden_states", "logits")
    BY DEF EndOp
  <2>2. EndOp(3).out = "logits" /\ "logits" \in Tensors
    BY <2>1, TensorsAre DEF Linear, Op, Ends
  <2>3. ASSUME NEW i \in Rows
        PROVE  Result(EndOp(3), i) = LogitsOf(job.tokens[i])
    <3>1. Result(EndOp(3), i) = LinearOf(0, "lm_head", buf["hidden_states"][i])
      BY <2>1, LinearMakes
    <3>2. buf["hidden_states"] =
            [j \in Rows |-> NormOf(0, "norm", Hidden(NumLayers, job.tokens[j]))]
      BY <1>7 DEF AtEnd
    <3>3. buf["hidden_states"][i] = NormOf(0, "norm", Hidden(NumLayers, job.tokens[i]))
      BY <3>2
    <3>. QED BY <3>1, <3>3 DEF LogitsOf
  <2>4. buf'["logits"] = [i \in Rows |-> LogitsOf(job.tokens[i])]
    BY <1>1, <1>2, <1>7, <2>2, <2>3
  <2>5. buf'["logits"] = [i \in Rows' |-> LogitsOf(job.tokens[i])']
    BY <1>5, <2>4
  <2>6. AtEnd(4)'
    BY <1>4, <1>7, <2>5 DEF AtEnd
  <2>7. 4 \in 1 .. 4
    OBVIOUS
  <2>. QED BY <2>6, <2>7, Zenon DEF PassState
<1>. QED BY <1>6, <1>7

(* Whatever a pass computes, it computes in its place.                     *)
LEMMA ComputeKeeps ==
  ASSUME ModelInv, Passing, Compute
  PROVE  PassState'
<1>1. JobTypes /\ JobFits /\ PassState /\ Instruction.op \in Computing
      /\ job.at <= Len(Program)
  <2>1. JobTypes /\ JobFits /\ Instruction.op \in Computing
    BY Computes
  <2>. QED BY <2>1 DEF ModelInv, Compute, InPass
<1>2. /\ "locals" \notin Computing /\ "update_layer" \notin Computing /\ "row" \notin Computing
      /\ "advance" \notin Computing
  BY DEF Computing
<1>3. CASE AtStart
  BY <1>3, FirstKeeps
<1>4. ASSUME NEW l \in 1 .. NumLayers, NEW s \in 1 .. 25, AtStage(l, s) PROVE PassState'
  <2>1. Instruction = StageOp(l, s)
    BY <1>1, <1>4, Here, Zenon
  <2>2. s # 1 /\ s # 15
    BY <1>1, <1>2, <2>1, Kinds
  <2>3. CASE s = 25
    BY <1>4, <2>3, LayerKeeps
  <2>4. CASE s # 25
    <3>1. s \in 2 .. 24
      BY <2>2, <2>4
    <3>. QED BY <1>4, <2>2, <3>1, StageKeeps
  <2>. QED BY <2>3, <2>4
<1>5. ASSUME NEW l \in 1 .. NumLayers, NEW i \in Rows, NEW m \in 1 .. 3, AtRow(l, i, m)
      PROVE  FALSE
  <2>1. Instruction = BatchOp(l, i, m)
    BY <1>1, <1>5, Here, Zenon
  <2>2. BatchOp(l, i, m).op \in {"row", "update_layer"}
    <3>1. m = 1 \/ m = 2 \/ m = 3
      OBVIOUS
    <3>. QED BY <3>1, Kinds
  <2>. QED BY <1>1, <1>2, <2>1, <2>2
<1>6. ASSUME NEW e \in 1 .. 4, AtEnd(e) PROVE PassState'
  <2>1. CASE e = 1
    <3>1. 1 \in 1 .. 3
      OBVIOUS
    <3>2. Instruction = EndOp(1)
      BY <1>1, <1>6, <2>1, <3>1, Here, Zenon
    <3>. QED BY <1>1, <1>2, <3>2, Kinds
  <2>2. CASE e = 4
    <3>1. job.at > Len(Program) /\ Len(Program) \in Nat /\ job.at \in Nat
      BY <1>1, <1>6, <2>2, Here DEF JobTypes
    <3>. QED BY <1>1, <3>1
  <2>3. CASE e \in 2 .. 3
    BY <1>6, <2>3, EndKeeps
  <2>. QED BY <2>1, <2>2, <2>3
<1>. QED BY <1>1, <1>3, <1>4, <1>5, <1>6 DEF PassState

(* What a write into the paged cache does to it.                           *)
Puts(r, l, at, new) == pool' = [pool EXCEPT ![r][l] = Written(@, at, new)]
IsPut(r, l, at, new) ==
  /\ DOMAIN pool' = Requests
  /\ \A q \in Requests : DOMAIN pool'[q] = 1 .. NumLayers
  /\ \A q \in Requests, k \in 1 .. NumLayers :
       /\ DOMAIN pool'[q][k] = 1 .. MaxTokens
       /\ (q # r \/ k # l) => pool'[q][k] = pool[q][k]
  /\ \A p \in 1 .. MaxTokens :
       pool'[r][l][p] = IF p - at \in DOMAIN new THEN new[p - at] ELSE pool[r][l][p]

(* A write into the paged cache is a put.                                  *)
LEMMA PoolWrites ==
  ASSUME PoolTypes, NEW r \in Requests, NEW l \in 1 .. NumLayers, NEW at, NEW new,
         Puts(r, l, at, new)
  PROVE  IsPut(r, l, at, new)
<1>1. /\ DOMAIN pool = Requests /\ \A q \in Requests : DOMAIN pool[q] = 1 .. NumLayers
      /\ \A q \in Requests, k \in 1 .. NumLayers : DOMAIN pool[q][k] = 1 .. MaxTokens
  BY DEF PoolTypes
<1> DEFINE w == Written(pool[r][l], at, new)
<1>2. /\ DOMAIN w = 1 .. MaxTokens
      /\ \A p \in 1 .. MaxTokens :
           w[p] = IF p - at \in DOMAIN new THEN new[p - at] ELSE pool[r][l][p]
  BY <1>1 DEF Written
<1>3. pool' = [pool EXCEPT ![r][l] = w]
  BY DEF Puts
<1> HIDE DEF w
<1>4. /\ DOMAIN pool' = Requests
      /\ \A q \in Requests : DOMAIN pool'[q] = 1 .. NumLayers
      /\ \A q \in Requests, k \in 1 .. NumLayers :
           pool'[q][k] = IF q = r /\ k = l THEN w ELSE pool[q][k]
  BY <1>1, <1>3
<1>5. \A q \in Requests, k \in 1 .. NumLayers :
        /\ DOMAIN pool'[q][k] = 1 .. MaxTokens
        /\ (q # r \/ k # l) => pool'[q][k] = pool[q][k]
  BY <1>1, <1>2, <1>4
<1>6. pool'[r][l] = w
  BY <1>4
<1>. QED BY <1>2, <1>4, <1>5, <1>6 DEF IsPut

(* The keys and values at hand stand for the tokens of the pass.           *)
LEMMA RowsToWrite ==
  ASSUME ModelInv, Passing, NEW l \in 1 .. NumLayers, LayerState(l, 15)
  PROVE  /\ Instruction = UpdateOp(l) => NewRows = job.tokens
         /\ \A i \in Rows : /\ buf["k_rot"][i] = KeyOf(l, job.tokens[i])
                            /\ buf["v_3d"][i] = ValueOf(l, job.tokens[i])
<1>1. JobTypes
  BY DEF ModelInv
<1>2. /\ buf["k_rot"] = [i \in Rows |-> KeyOf(l, job.tokens[i])]
      /\ buf["v_3d"] = [i \in Rows |-> ValueOf(l, job.tokens[i])]
  <2>1. Outs[14] = "k_rot" /\ Outs[12] = "v_3d"
    BY DEF Outs
  <2>2. 14 \in 2 .. (15 - 1) /\ 14 # 15 /\ 12 \in 2 .. (15 - 1) /\ 12 # 15
    OBVIOUS
  <2>3. /\ buf[Outs[14]] = [i \in Rows |-> Term(l, 14, i)]
        /\ buf[Outs[12]] = [i \in Rows |-> Term(l, 12, i)]
    BY <2>2, Zenon DEF LayerState
  <2>4. \A i : /\ Term(l, 14, i) = KeyOf(l, job.tokens[i])
               /\ Term(l, 12, i) = ValueOf(l, job.tokens[i])
    BY TermIs
  <2>. QED BY <2>1, <2>3, <2>4
<1>3. ASSUME Instruction = UpdateOp(l) PROVE NewRows = job.tokens
  <2>1. Instruction.ins[1] = "k_rot" /\ Instruction.ins[2] = "v_3d" /\ Instruction.l = l
    BY <1>3 DEF UpdateOp, Op
  <2>2. NewRows = [i \in Rows |-> Stored(l, buf["k_rot"][i], buf["v_3d"][i])]
    BY <1>2, <2>1 DEF NewRows
  <2>3. ASSUME NEW i \in Rows
        PROVE  Stored(l, buf["k_rot"][i], buf["v_3d"][i]) = job.tokens[i]
    <3>1. job.tokens[i] \in Range(job.tokens)
      BY DEF Rows, Range
    <3>. QED BY <1>2, <3>1, StoredIs
  <2>4. job.tokens = [i \in Rows |-> job.tokens[i]]
    BY <1>1 DEF JobTypes, Rows
  <2>. QED BY <2>2, <2>3, <2>4
<1>4. \A i \in Rows : /\ buf["k_rot"][i] = KeyOf(l, job.tokens[i])
                      /\ buf["v_3d"][i] = ValueOf(l, job.tokens[i])
  BY <1>2
<1>. QED BY <1>3, <1>4

(* A pass of one request writes its rows where that request's end.         *)
LEMMA PassWrites ==
  ASSUME ModelInv, Passing, UpdateLayer, NEW l \in 1 .. NumLayers, AtStage(l, 15)
  PROVE  /\ NewRows = job.tokens /\ Instruction.l = l /\ job.kind = "forward"
         /\ mode = "contiguous" => WriteLayer /\ pass.next = l
         /\ mode # "contiguous" => UNCHANGED <<kvVars, passes>>
         /\ pool' = IF mode = "paged"
                    THEN [pool EXCEPT ![job.of[1]][l] = Written(@, job.past[1], job.tokens)]
                    ELSE pool
         /\ passes' = passes /\ fed' = fed
<1>1. JobTypes /\ JobFits /\ JobPast
  BY DEF ModelInv
<1>2. Instruction = UpdateOp(l) /\ job.kind = "forward" /\ LayerState(l, 15) /\ WrittenTo(l)
  <2>1. 15 \in 1 .. 25
    OBVIOUS
  <2>2. Instruction = UpdateOp(l)
    BY <1>1, <2>1, Here, StageIs, Zenon
  <2>. QED BY <2>2 DEF AtStage
<1>3. NewRows = job.tokens /\ Instruction.l = l
  <2>1. Instruction.l = l
    BY <1>2 DEF UpdateOp, Op
  <2>. QED BY <1>2, <2>1, RowsToWrite
<1>4. /\ IF mode = "contiguous" THEN WriteRows(job.tokens) ELSE UNCHANGED <<kvVars, passes>>
      /\ pool' = IF mode = "paged"
                 THEN [pool EXCEPT ![job.of[1]][l] = Written(@, job.past[1], job.tokens)]
                 ELSE pool
  BY <1>2, <1>3 DEF UpdateLayer
<1>5. ASSUME mode = "contiguous" PROVE WriteLayer /\ pass.next = l /\ passes' = passes /\ fed' = fed
  <2>1. Running /\ pass.next = l
    BY <1>2, <1>5 DEF WrittenTo
  <2>2. pass.len = Len(job.tokens)
    <3>1. 1 \in Rows
      BY <1>1, Lengths
    <3>. QED BY <1>1, <1>5, <2>1, <3>1 DEF JobPast
  <2>3. job.tokens = [k \in 1 .. pass.len |-> Token(k)]
    BY <1>1, <2>2 DEF JobTypes, Token
  <2>4. WriteRows(job.tokens)
    BY <1>4, <1>5
  <2>. QED BY <2>1, <2>3, <2>4 DEF WriteLayer, WriteRows
<1>6. ASSUME mode # "contiguous" PROVE passes' = passes /\ fed' = fed
  BY <1>4, <1>6 DEF kvVars
<1>. QED BY <1>2, <1>3, <1>4, <1>5, <1>6

(* After it the layer's rows are in place, with those of the layers before.*)
LEMMA WritesKeep ==
  ASSUME ModelInv, Passing, UpdateLayer, NEW l \in 1 .. NumLayers, AtStage(l, 15)
  PROVE  PassState'
<1>1. JobTypes /\ JobFits /\ JobPast /\ PoolTypes /\ CacheInv
  BY DEF ModelInv
<1>2. /\ job.kind = "forward"
      /\ mode = "contiguous" => WriteLayer /\ pass.next = l
      /\ mode # "contiguous" => UNCHANGED <<kvVars, passes>>
      /\ pool' = IF mode = "paged"
                 THEN [pool EXCEPT ![job.of[1]][l] = Written(@, job.past[1], job.tokens)]
                 ELSE pool
      /\ passes' = passes /\ fed' = fed
  BY PassWrites
<1>3. NextOp /\ buf' = buf
  BY DEF UpdateLayer
<1>4. /\ SamePass /\ job'.at = job.at + 1
      /\ (\A k, j : At(k, j)' = At(k, j)) /\ (\A s : Place(s)' = Place(s))
  BY <1>1, <1>2, <1>3, Advances
<1>5. /\ job'.tokens = job.tokens /\ job'.kind = job.kind /\ job'.of = job.of
      /\ job'.past = job.past /\ Rows' = Rows
  BY <1>1, <1>4, SameRows, Zenon
<1>6. LayerState(l, 16)'
  <2>1. LayerState(l, 15)
    BY DEF AtStage
  <2>2. \A q \in 2 .. (16 - 1) : q # 15 => q \in 2 .. (15 - 1)
    OBVIOUS
  <2>3. LayerState(l, 16)
    BY <2>1, <2>2 DEF LayerState
  <2>4. 16 \in 1 .. 25
    OBVIOUS
  <2>. QED BY <1>1, <1>2, <1>3, <1>4, <2>3, <2>4, StillComputed
<1>7. job'.at = At(l, Place(16))'
  <2>1. Place(15) = 15 /\ Place(15) + 1 = Place(16)
    BY <1>1, <1>2, Places
  <2>2. At(l, 15) + 1 = At(l, 15 + 1)
    BY <1>1, Positions
  <2>3. job.at = At(l, 15)
    BY <2>1 DEF AtStage
  <2>. QED BY <1>4, <2>1, <2>2, <2>3
<1>8. ASSUME mode = "paged" PROVE \A k \in 1 .. l, i \in Rows : InPool(k, i)'
  <2> DEFINE r == job.of[1]
             past == job.past[1]
             n == Len(job.tokens)
  <2>1. /\ Rows = 1 .. n /\ n \in Nat \ {0} /\ DOMAIN job.tokens = 1 .. n
        /\ r \in Requests /\ past \in Nat /\ past + n <= MaxTokens
        /\ \A i \in 1 .. n : job.of[i] = r /\ job.past[i] = past
    <3>1. Rows = 1 .. n /\ n \in Nat \ {0}
      BY <1>1, Lengths
    <3>2. job.of \in [1 .. n -> Requests] /\ job.past \in [1 .. n -> Nat]
      BY <1>1 DEF JobTypes
    <3>3. 1 \in 1 .. n
      BY <3>1
    <3>4. r \in Requests /\ past \in Nat
      BY <3>2, <3>3
    <3>5. past + n <= MaxTokens /\ \A i \in 1 .. n : job.of[i] = r /\ job.past[i] = past
      BY <1>1, <1>2 DEF JobFits
    <3>6. DOMAIN job.tokens = 1 .. n
      BY <3>1 DEF Rows
    <3> HIDE DEF r, past, n
    <3>. QED BY <3>1, <3>4, <3>5, <3>6
  <2>2. Puts(r, l, past, job.tokens)
    BY <1>2, <1>8 DEF Puts
  <2> HIDE DEF r, past, n
  <2>3. /\ \A q \in Requests, k \in 1 .. NumLayers :
             (q # r \/ k # l) => pool'[q][k] = pool[q][k]
        /\ \A p \in 1 .. MaxTokens : p - past \in 1 .. n => pool'[r][l][p] = job.tokens[p - past]
    <3>1. IsPut(r, l, past, job.tokens)
      BY <1>1, <2>1, <2>2, PoolWrites, Zenon
    <3>2. \A q \in Requests, k \in 1 .. NumLayers :
            (q # r \/ k # l) => pool'[q][k] = pool[q][k]
      BY <3>1, Zenon DEF IsPut
    <3>3. DOMAIN job.tokens = 1 .. n
      BY <2>1
    <3>4. ASSUME NEW p \in 1 .. MaxTokens, p - past \in 1 .. n
          PROVE  pool'[r][l][p] = job.tokens[p - past]
      <4>1. p - past \in DOMAIN job.tokens
        BY <3>3, <3>4, Zenon
      <4>. QED BY <3>1, <4>1, Zenon DEF IsPut
    <3>. QED BY <3>2, <3>4, Zenon
  <2>4. ASSUME NEW k \in 1 .. l, NEW i \in Rows PROVE InPool(k, i)'
    <3>1. RowOf(i)' = past + i /\ RowOf(i) = past + i /\ job.of[i] = r
      BY <1>2, <1>5, <2>1 DEF RowOf
    <3>2. CASE k = l
      <4>1. past + i \in 1 .. MaxTokens /\ (past + i) - past = i /\ i \in 1 .. n
        BY <2>1
      <4>2. pool'[r][l][past + i] = job.tokens[i]
        BY <2>3, <4>1
      <4>. QED BY <1>5, <3>1, <3>2, <4>2 DEF InPool
    <3>3. CASE k # l
      <4>1. k \in 1 .. (l - 1) /\ k \in 1 .. NumLayers
        BY <3>3
      <4>2. InPool(k, i)
        BY <1>8, <4>1 DEF AtStage, WrittenTo
      <4>3. pool'[r][k] = pool[r][k]
        BY <2>1, <2>3, <3>3, <4>1
      <4>. QED BY <1>5, <3>1, <4>2, <4>3 DEF InPool
    <3>. QED BY <3>2, <3>3
  <2>. QED BY <2>4
<1>9. ASSUME mode = "contiguous" PROVE Running' /\ pass'.next = l + 1
  <2>1. pass' = [pass EXCEPT !.next = l + 1] /\ pass.next = l
    BY <1>2, <1>9 DEF WriteLayer, WriteRows
  <2>2. pass \in [past : Nat, len : Nat, next : Nat]
    BY <1>1 DEF CacheInv, Types
  <2> DEFINE n == l + 1
  <2>3. n # 0
    OBVIOUS
  <2>4. pass' = [pass EXCEPT !.next = n]
    BY <2>1
  <2> HIDE DEF n
  <2>5. pass'.next = n
    BY <2>2, <2>4
  <2>6. pass' # NoPass
    BY <2>3, <2>5 DEF NoPass
  <2>. QED BY <2>5, <2>6 DEF Running, n
<1>10. WrittenTo(l + 1)'
  <2>1. mode' = mode /\ (l + 1) - 1 = l
    BY <1>4 DEF SamePass
  <2>. QED BY <1>5, <1>8, <1>9, <2>1 DEF WrittenTo
<1>11. AtStage(l, 16)'
  BY <1>6, <1>7, <1>10 DEF AtStage
<1>12. 16 \in 1 .. 25
  OBVIOUS
<1>. QED BY <1>11, <1>12, Zenon DEF PassState

(* A row's key and value are copied out of the pass's.                     *)
LEMMA CopyKeeps ==
  ASSUME ModelInv, Passing, CopyRow, NEW l \in 1 .. NumLayers, NEW i \in Rows, NEW m \in 1 .. 2,
         AtRow(l, i, m)
  PROVE  PassState'
<1>1. JobTypes /\ JobFits
  BY DEF ModelInv
<1>2. /\ buf' = [buf EXCEPT ![Instruction.out] = <<buf[Instruction.ins[1]][Instruction.row]>>]
      /\ NextOp /\ UNCHANGED kvVars /\ passes' = passes /\ pool' = pool
  BY DEF CopyRow
<1>3. /\ SamePass /\ job'.at = job.at + 1 /\ (\A k, j : At(k, j)' = At(k, j))
  BY <1>1, <1>2, Advances
<1>4. Instruction = BatchOp(l, i, m)
  <2>1. m \in 1 .. 3
    OBVIOUS
  <2>. QED BY <1>1, <2>1, Here, Zenon
<1>5. /\ job.kind = "batch" /\ job.at = At(l, 14 + ((i - 1) * 3 + m))
      /\ LayerState(l, 15) /\ WrittenTo(l) /\ BatchState(l, i, m)
  BY DEF AtRow
<1>6. /\ buf["k_rot"][i] = KeyOf(l, job.tokens[i])
      /\ buf["v_3d"][i] = ValueOf(l, job.tokens[i])
  BY <1>5, RowsToWrite
<1>7. /\ m = 1 => /\ Instruction.out = "k_row" /\ Instruction.ins[1] = "k_rot"
                  /\ Instruction.row = i
      /\ m = 2 => /\ Instruction.out = "v_row" /\ Instruction.ins[1] = "v_3d"
                  /\ Instruction.row = i
  BY <1>4 DEF BatchOp, OfRow, Op
<1>8. "k_row" \in DOMAIN buf /\ "v_row" \in DOMAIN buf
  BY <1>1, TensorsAre DEF JobTypes
<1>9. /\ m = 1 => buf'["k_row"] = <<KeyOf(l, job.tokens[i])>>
      /\ m = 2 => /\ buf'["v_row"] = <<ValueOf(l, job.tokens[i])>>
                  /\ buf'["k_row"] = buf["k_row"]
      /\ \A v \in DOMAIN buf : v \notin {"k_row", "v_row"} => buf'[v] = buf[v]
  <2>1. CASE m = 1
    BY <1>2, <1>6, <1>7, <1>8, <2>1
  <2>2. CASE m = 2
    BY <1>2, <1>6, <1>7, <1>8, <2>2
  <2>. QED BY <2>1, <2>2
<1>10. LayerState(l, 15)'
  <2>1. Current(l) \in DOMAIN buf /\ Current(l) \notin {"k_row", "v_row"}
    <3>1. Current(l) \in {"hidden_a", "hidden_b"}
      BY DEF Current
    <3>2. l \in Nat
      OBVIOUS
    <3>. QED BY <1>1, <3>1, <3>2, TensorsAre DEF JobTypes
  <2>2. ASSUME NEW q \in 2 .. (15 - 1), q # 15
        PROVE  Outs[q] \in DOMAIN buf /\ Outs[q] \notin {"k_row", "v_row"}
    <3>1. Outs[q] \notin {"k_row", "v_row"}
      BY DEF Outs
    <3>2. q \in 2 .. 24
      OBVIOUS
    <3>. QED BY <1>1, <2>2, <3>1, <3>2, TensorsAre DEF JobTypes
  <2>3. 15 \in 1 .. 25 /\ fed' = fed
    BY <1>2 DEF kvVars
  <2>4. buf'[Current(l)] = buf[Current(l)]
    BY <1>9, <2>1
  <2>5. \A q \in 2 .. (15 - 1) : q # 15 => buf'[Outs[q]] = buf[Outs[q]]
    BY <1>9, <2>2
  <2>. QED BY <1>1, <1>3, <1>5, <2>3, <2>4, <2>5, StillComputed
<1>11. /\ WrittenTo(l)' /\ \A k : InPool(l, k)' = InPool(l, k)
       /\ job'.kind = "batch" /\ Rows' = Rows /\ job'.tokens = job.tokens
       /\ KeyOf(l, job.tokens[i])' = KeyOf(l, job.tokens[i])
       /\ ValueOf(l, job.tokens[i])' = ValueOf(l, job.tokens[i])
  <2>1. /\ job'.kind = "batch" /\ Rows' = Rows /\ job'.tokens = job.tokens
        /\ \A k, t : KeyOf(k, t)' = KeyOf(k, t) /\ ValueOf(k, t)' = ValueOf(k, t)
    BY <1>1, <1>3, <1>5, SameRows
  <2>2. WrittenTo(l)' /\ \A k : InPool(l, k)' = InPool(l, k)
    BY <1>1, <1>2, <1>3, <1>5, StillCached
  <2>. QED BY <2>1, <2>2
<1> DEFINE o == m + 1
<1>12. BatchState(l, i, o)'
  BY <1>5, <1>9, <1>11 DEF BatchState
<1>13. job'.at = At(l, 14 + ((i - 1) * 3 + o))'
  <2> DEFINE p == 14 + ((i - 1) * 3 + m)
  <2>1. p \in Nat /\ p + 1 = 14 + ((i - 1) * 3 + o)
    <3>1. i \in Nat \ {0}
      BY <1>1, Lengths
    <3>. QED BY <3>1
  <2>2. job.at = At(l, p)
    BY <1>5
  <2> HIDE DEF p, o
  <2>3. At(l, p) + 1 = At(l, p + 1)
    BY <1>1, <2>1, Positions
  <2>. QED BY <1>3, <2>1, <2>2, <2>3
<1>14. o \in 1 .. 3 /\ i \in Rows'
  BY <1>11
<1> HIDE DEF o
<1>15. AtRow(l, i, o)'
  BY <1>10, <1>11, <1>12, <1>13 DEF AtRow
<1>. QED BY <1>14, <1>15, Zenon DEF PassState

(* A batch writes each row at the end of its own request.                  *)
LEMMA BatchPuts ==
  ASSUME ModelInv, Passing, UpdateLayer, NEW l \in 1 .. NumLayers, NEW i \in Rows,
         AtRow(l, i, 3)
  PROVE  /\ mode = "paged" /\ UNCHANGED <<kvVars, passes>> /\ fed' = fed
         /\ job.of[i] \in Requests /\ job.past[i] \in Nat /\ job.past[i] + 1 <= MaxTokens
         /\ NewRows = <<job.tokens[i]>> /\ Instruction.l = l
         /\ Puts(job.of[i], l, job.past[i], <<job.tokens[i]>>)
<1>1. JobTypes /\ JobFits
  BY DEF ModelInv
<1>2. Instruction = BatchOp(l, i, 3)
  <2>1. 3 \in 1 .. 3
    OBVIOUS
  <2>. QED BY <1>1, <2>1, Here, Zenon
<1>3. /\ job.kind = "batch" /\ buf["k_row"] = <<KeyOf(l, job.tokens[i])>>
      /\ buf["v_row"] = <<ValueOf(l, job.tokens[i])>>
  BY DEF AtRow, BatchState
<1>4. /\ Instruction.ins[1] = "k_row" /\ Instruction.ins[2] = "v_row"
      /\ Instruction.row = i /\ Instruction.l = l
  BY <1>2 DEF BatchOp, OfRow, Op
<1>5. NewRows = <<job.tokens[i]>>
  <2> DEFINE t == job.tokens[i]
             k == KeyOf(l, t)
             v == ValueOf(l, t)
  <2>1. t \in Range(job.tokens)
    BY DEF Rows, Range
  <2>2. Stored(l, k, v) = t
    BY <2>1, StoredIs
  <2>3. NewRows = [j \in DOMAIN buf["k_row"] |-> Stored(l, buf["k_row"][j], buf["v_row"][j])]
    BY <1>4 DEF NewRows
  <2>4. buf["k_row"] = <<k>> /\ buf["v_row"] = <<v>>
    BY <1>3
  <2> HIDE DEF t, k, v
  <2>5. NewRows = <<t>>
    BY <2>2, <2>3, <2>4
  <2>. QED BY <2>5 DEF t
<1>6. mode = "paged" /\ job.past[i] + 1 <= MaxTokens
  <2>1. i \in 1 .. Len(job.tokens)
    BY <1>1, Lengths
  <2>. QED BY <1>1, <1>3, <2>1 DEF JobFits
<1>7. job.of[i] \in Requests /\ job.past[i] \in Nat
  <2>1. i \in 1 .. Len(job.tokens)
    BY <1>1, Lengths
  <2>. QED BY <1>1, <2>1 DEF JobTypes
<1>8. UNCHANGED <<kvVars, passes>> /\ fed' = fed
  BY <1>6 DEF UpdateLayer, kvVars
<1>9. Puts(job.of[i], l, job.past[i], <<job.tokens[i]>>)
  BY <1>3, <1>4, <1>5, <1>6 DEF UpdateLayer, Puts
<1>. QED BY <1>4, <1>5, <1>6, <1>7, <1>8, <1>9

(* Writing a row of a batch into the cache, of its own request only, leaves*)
(* the other rows' pasts as they were.                                     *)
LEMMA RowKeeps ==
  ASSUME ModelInv, Passing, UpdateLayer, NEW l \in 1 .. NumLayers, NEW i \in Rows,
         AtRow(l, i, 3)
  PROVE  PassState'
<1> DEFINE r == job.of[i]
           past == job.past[i]
           n == Len(job.tokens)
<1>1. JobTypes /\ JobFits /\ PoolTypes
  BY DEF ModelInv
<1>2. /\ mode = "paged" /\ UNCHANGED <<kvVars, passes>> /\ fed' = fed
      /\ r \in Requests /\ past \in Nat /\ past + 1 <= MaxTokens
      /\ Puts(r, l, past, <<job.tokens[i]>>)
  BY BatchPuts
<1>3. NextOp /\ buf' = buf
  BY DEF UpdateLayer
<1>4. SamePass /\ job'.at = job.at + 1 /\ \A k, j : At(k, j)' = At(k, j)
  BY <1>1, <1>2, <1>3, Advances
<1>5. /\ job'.tokens = job.tokens /\ job'.kind = job.kind /\ job'.of = job.of
      /\ job'.past = job.past /\ Rows' = Rows /\ mode' = mode
  <2>1. mode' = mode
    BY <1>4 DEF SamePass
  <2>. QED BY <1>1, <1>4, <2>1, SameRows, Zenon
<1>6. /\ job.kind = "batch" /\ job.at = At(l, 14 + ((i - 1) * 3 + 3))
      /\ LayerState(l, 15) /\ WrittenTo(l) /\ BatchState(l, i, 3)
  BY DEF AtRow
<1>7. Rows = 1 .. n /\ n \in Nat \ {0} /\ job.of \in [1 .. n -> Requests]
  BY <1>1, Lengths DEF JobTypes
<1>8. IsPut(r, l, past, <<job.tokens[i]>>)
  BY <1>1, <1>2, PoolWrites, Zenon
<1>9. \A k \in Rows : job.of[k] = r => k = i
  BY <1>1, <1>6, <1>7 DEF JobFits, IsInjective
<1> HIDE DEF r, past, n
<1>10. \A k : RowOf(k)' = job.past[k] + 1
  BY <1>5, <1>6 DEF RowOf
<1>11. InPool(l, i)'
  <2> DEFINE p == past + 1
  <2>1. p \in 1 .. MaxTokens /\ p - past = 1
    BY <1>2
  <2>2. pool'[r][l][p] = IF p - past \in DOMAIN <<job.tokens[i]>>
                         THEN <<job.tokens[i]>>[p - past] ELSE pool[r][l][p]
    <3> HIDE DEF p
    <3>. QED BY <1>8, <2>1, Zenon DEF IsPut
  <2>3. pool'[r][l][p] = job.tokens[i]
    <3> HIDE DEF p
    <3>. QED BY <2>1, <2>2
  <2>. QED BY <1>5, <1>10, <2>3 DEF InPool, r, past
<1>12. ASSUME NEW k \in 1 .. NumLayers, NEW j \in Rows, k # l \/ j # i, InPool(k, j)
       PROVE  InPool(k, j)'
  <2>1. job.of[j] \in Requests
    BY <1>7
  <2>2. pool'[job.of[j]][k] = pool[job.of[j]][k]
    BY <1>8, <1>9, <1>12, <2>1 DEF IsPut
  <2>3. RowOf(j) = job.past[j] + 1
    BY <1>6 DEF RowOf
  <2>. QED BY <1>5, <1>10, <1>12, <2>2, <2>3 DEF InPool
<1>13. \A k \in 1 .. (l - 1), j \in Rows : InPool(k, j)'
  <2>1. ASSUME NEW k \in 1 .. (l - 1), NEW j \in Rows PROVE InPool(k, j)'
    <3>1. k \in 1 .. NumLayers /\ k # l
      OBVIOUS
    <3>2. InPool(k, j)
      BY <1>2, <1>6 DEF WrittenTo
    <3>. QED BY <1>12, <3>1, <3>2
  <2>. QED BY <2>1
<1>14. \A k \in 1 .. i : InPool(l, k)'
  <2>1. ASSUME NEW k \in 1 .. i PROVE InPool(l, k)'
    <3>1. CASE k = i
      BY <1>11, <3>1
    <3>2. CASE k # i
      <4>1. k \in 1 .. (i - 1) /\ k \in Rows
        BY <1>7, <3>2
      <4>2. InPool(l, k)
        BY <1>6, <4>1 DEF BatchState
      <4>. QED BY <1>12, <3>2, <4>1, <4>2
    <3>. QED BY <3>1, <3>2
  <2>. QED BY <2>1
<1>15. WrittenTo(l)'
  BY <1>2, <1>5, <1>13 DEF WrittenTo
<1>16. LayerState(l, 15)' /\ (i = n => LayerState(l, 16)')
  <2>1. \A q \in 2 .. (16 - 1) : q # 15 => q \in 2 .. (15 - 1)
    OBVIOUS
  <2>2. LayerState(l, 16)
    BY <1>6, <2>1 DEF LayerState
  <2>3. 15 \in 1 .. 25 /\ 16 \in 1 .. 25
    OBVIOUS
  <2>. QED BY <1>1, <1>2, <1>3, <1>4, <1>6, <2>2, <2>3, StillComputed
<1>17. At(l, 14 + ((i - 1) * 3 + 3)) + 1 = At(l, (14 + ((i - 1) * 3 + 3)) + 1)
  <2> DEFINE p == 14 + ((i - 1) * 3 + 3)
  <2>1. p \in Nat
    BY <1>7
  <2> HIDE DEF p
  <2>2. At(l, p) + 1 = At(l, p + 1)
    BY <1>1, <2>1, Positions
  <2>. QED BY <2>2 DEF p
<1>18. CASE i # n
  <2> DEFINE k == i + 1
  <2>1. k \in Rows' /\ k - 1 = i
    BY <1>5, <1>7, <1>18
  <2>2. (14 + ((i - 1) * 3 + 3)) + 1 = 14 + ((k - 1) * 3 + 1)
    BY <1>1, <1>6, Places
  <2>3. job'.at = At(l, 14 + ((k - 1) * 3 + 1))'
    BY <1>4, <1>6, <1>17, <2>2
  <2>4. BatchState(l, k, 1)'
    BY <1>14, <2>1 DEF BatchState
  <2> HIDE DEF k
  <2>5. AtRow(l, k, 1)'
    BY <1>5, <1>6, <1>15, <1>16, <2>3, <2>4 DEF AtRow
  <2>6. 1 \in 1 .. 3
    OBVIOUS
  <2>. QED BY <2>1, <2>5, <2>6, Zenon DEF PassState
<1>19. CASE i = n
  <2>1. (14 + ((n - 1) * 3 + 3)) + 1 = Place(16)
    BY <1>1, <1>6, Places DEF n
  <2>2. Place(16)' = Place(16)
    BY <1>1, <1>2, <1>3, Advances
  <2>3. job'.at = At(l, Place(16))'
    BY <1>4, <1>6, <1>17, <1>19, <2>1, <2>2
  <2>4. WrittenTo(l + 1)'
    <3>1. \A k \in 1 .. ((l + 1) - 1) : k = l \/ k \in 1 .. (l - 1)
      OBVIOUS
    <3>2. \A k \in Rows : k \in 1 .. i
      BY <1>7, <1>19
    <3>. QED BY <1>2, <1>5, <1>13, <1>14, <3>1, <3>2 DEF WrittenTo
  <2>5. AtStage(l, 16)'
    BY <1>16, <1>19, <2>3, <2>4 DEF AtStage
  <2>6. 16 \in 1 .. 25
    OBVIOUS
  <2>. QED BY <2>5, <2>6, Zenon DEF PassState
<1>. QED BY <1>18, <1>19

(* Once the cache counts the pass, no layer is left to write.              *)
LEMMA AdvancePasses ==
  ASSUME ModelInv, Passing, AdvanceCache, AtEnd(1)
  PROVE  PassState'
<1>1. JobTypes /\ JobFits /\ ModeAgrees
  BY DEF ModelInv
<1>2. NextOp /\ buf' = buf /\ pool' = pool /\ passes' = passes
  BY DEF AdvanceCache, Advance
<1>3. SamePass /\ job'.at = job.at + 1 /\ \A k, j : At(k, j)' = At(k, j)
  BY <1>1, <1>2, Advances
<1>4. /\ job'.tokens = job.tokens /\ job'.kind = job.kind /\ job'.of = job.of
      /\ job'.past = job.past /\ Rows' = Rows /\ mode' = mode
      /\ \A l : HiddenRows(l)' = HiddenRows(l)
  <2>1. mode' = mode
    BY <1>3 DEF SamePass
  <2>. QED BY <1>1, <1>3, <2>1, SameRows, Zenon
<1>5. ~ Running'
  <2>1. CASE mode = "contiguous"
    BY <2>1 DEF AdvanceCache, Advance, Running
  <2>2. CASE mode # "contiguous"
    BY <1>1, <2>2 DEF AdvanceCache, kvVars, ModeAgrees, Running
  <2>. QED BY <2>1, <2>2
<1>6. ASSUME mode = "paged", NEW k \in 1 .. NumLayers, NEW i \in Rows PROVE InPool(k, i)'
  <2>1. k \in 1 .. ((NumLayers + 1) - 1)
    OBVIOUS
  <2>2. InPool(k, i)
    BY <1>6, <2>1 DEF AtEnd, WrittenTo
  <2>3. RowOf(i)' = RowOf(i)
    BY <1>4 DEF RowOf
  <2>. QED BY <1>2, <1>4, <2>2, <2>3 DEF InPool
<1>7. job'.at = At(NumLayers + 1, 2)'
  <2>1. At(NumLayers + 1, 1) + 1 = At(NumLayers + 1, 1 + 1)
    <3>1. NumLayers + 1 \in 1 .. NumLayers + 1
      OBVIOUS
    <3>. QED BY <1>1, <3>1, Positions
  <2>. QED BY <1>3, <2>1 DEF AtEnd
<1>8. AtEnd(2)'
  BY <1>2, <1>4, <1>5, <1>6, <1>7 DEF AtEnd
<1>9. 2 \in 1 .. 4
  OBVIOUS
<1>. QED BY <1>8, <1>9, Zenon DEF PassState

(* Where a pass stands when an operation of a kind comes.                  *)
LEMMA Standing ==
  ASSUME ModelInv, Passing
  PROVE  /\ InPass({"locals"}) => \E l \in 1 .. NumLayers : AtStage(l, 1)
         /\ InPass({"row"}) =>
              \E l \in 1 .. NumLayers, i \in Rows, m \in 1 .. 2 : AtRow(l, i, m)
         /\ InPass({"update_layer"}) =>
              \/ \E l \in 1 .. NumLayers : AtStage(l, 15)
              \/ \E l \in 1 .. NumLayers, i \in Rows : AtRow(l, i, 3)
         /\ InPass({"advance"}) => AtEnd(1)
         /\ job.at > Len(Program) => AtEnd(4)
<1>1. JobTypes /\ JobFits /\ PassState
  BY DEF ModelInv
<1>2. /\ job.at \in Nat /\ Len(Program) \in Nat
      /\ \A op : InPass(op) => job.at <= Len(Program) /\ Instruction.op \in op
      /\ ~ (job.at <= Len(Program) /\ job.at > Len(Program))
  <2>1. job.at \in Nat /\ Len(Program) \in Nat
    BY <1>1, Here DEF JobTypes
  <2>. QED BY <2>1 DEF InPass
<1>3. /\ "locals" \notin Computing /\ "update_layer" \notin Computing /\ "row" \notin Computing
      /\ "advance" \notin Computing /\ "embedding" \in Computing /\ "rms_norm" \in Computing
      /\ "linear" \in Computing
  BY DEF Computing
<1>4. CASE AtStart
  <2>1. Instruction.op = "embedding" /\ job.at <= Len(Program)
    BY <1>1, <1>4, Here, Kinds
  <2>. QED BY <1>2, <2>1
<1>5. ASSUME NEW l \in 1 .. NumLayers, NEW s \in 1 .. 25, AtStage(l, s)
      PROVE  /\ job.at <= Len(Program)
             /\ \/ s = 1 /\ Instruction.op = "locals"
                \/ s = 15 /\ Instruction.op = "update_layer"
                \/ Instruction.op \in Computing
  <2>1. Instruction = StageOp(l, s) /\ job.at <= Len(Program)
    BY <1>1, <1>5, Here, Zenon
  <2>2. CASE s = 1
    BY <2>1, <2>2, Kinds
  <2>3. CASE s = 15
    BY <2>1, <2>3, Kinds
  <2>4. CASE s # 1 /\ s # 15
    <3>1. s \in 2 .. 25
      BY <2>4
    <3>2. StageOp(l, s).op \in Computing
      BY <2>4, <3>1, Kinds, Zenon
    <3>. QED BY <2>1, <3>2
  <2>. QED BY <2>2, <2>3, <2>4
<1>6. ASSUME NEW l \in 1 .. NumLayers, NEW i \in Rows, NEW m \in 1 .. 3, AtRow(l, i, m)
      PROVE  /\ job.at <= Len(Program)
             /\ \/ m \in 1 .. 2 /\ Instruction.op = "row"
                \/ m = 3 /\ Instruction.op = "update_layer"
  <2>1. Instruction = BatchOp(l, i, m) /\ job.at <= Len(Program)
    BY <1>1, <1>6, Here, Zenon
  <2>2. /\ BatchOp(l, i, 1).op = "row" /\ BatchOp(l, i, 2).op = "row"
        /\ BatchOp(l, i, 3).op = "update_layer"
    BY Kinds, Zenon
  <2>3. m = 1 \/ m = 2 \/ m = 3
    OBVIOUS
  <2>4. CASE m = 3
    BY <2>1, <2>2, <2>4
  <2>5. CASE m = 1
    BY <2>1, <2>2, <2>5
  <2>6. CASE m = 2
    BY <2>1, <2>2, <2>6
  <2>. QED BY <2>3, <2>4, <2>5, <2>6
<1>7. ASSUME NEW e \in 1 .. 4, AtEnd(e)
      PROVE  \/ e = 4 /\ job.at > Len(Program)
             \/ e = 1 /\ job.at <= Len(Program) /\ Instruction.op = "advance"
             \/ job.at <= Len(Program) /\ Instruction.op \in Computing
  <2>1. CASE e = 4
    BY <1>1, <1>7, <2>1, Here
  <2>2. CASE e \in 1 .. 3
    <3>1. Instruction = EndOp(e) /\ job.at <= Len(Program)
      BY <1>1, <1>7, <2>2, Here, Zenon
    <3>2. e = 1 \/ e = 2 \/ e = 3
      BY <2>2
    <3>. QED BY <1>3, <3>1, <3>2, Kinds
  <2>. QED BY <2>1, <2>2
<1>8. /\ ~ "locals" \in {"row", "update_layer", "advance"}
      /\ ~ "row" \in {"locals", "update_layer", "advance"}
      /\ ~ "update_layer" \in {"locals", "row", "advance"}
      /\ ~ "advance" \in {"locals", "row", "update_layer"}
  OBVIOUS
<1>9. CASE \E l \in 1 .. NumLayers, s \in 1 .. 25 : AtStage(l, s)
  <2>1. PICK l \in 1 .. NumLayers, s \in 1 .. 25 : AtStage(l, s)
    BY <1>9
  <2>. QED BY <1>2, <1>3, <1>5, <1>8, <2>1
<1>10. CASE \E l \in 1 .. NumLayers, i \in Rows, m \in 1 .. 3 : AtRow(l, i, m)
  <2>1. PICK l \in 1 .. NumLayers, i \in Rows, m \in 1 .. 3 : AtRow(l, i, m)
    BY <1>10
  <2>. QED BY <1>2, <1>3, <1>6, <1>8, <2>1
<1>11. CASE \E e \in 1 .. 4 : AtEnd(e)
  <2>1. PICK e \in 1 .. 4 : AtEnd(e)
    BY <1>11
  <2>. QED BY <1>2, <1>3, <1>7, <1>8, <2>1
<1>. QED BY <1>1, <1>4, <1>9, <1>10, <1>11 DEF PassState

(* A norm has a weight.                                                    *)
LEMMA NormsHaveWeights ==
  ASSUME ModelInv, Passing, job.at <= Len(Program), Instruction.op = "rms_norm"
  PROVE  Instruction.w # << >>
<1>1. JobTypes /\ JobFits /\ PassState
  BY DEF ModelInv
<1>2. \A l, part : <<l, part>> # << >>
  OBVIOUS
<1>3. \A l, part, in, out : RMSNorm(l, part, in, out).w = <<l, part>>
  BY DEF RMSNorm, Op
<1>4. \A l, part, in, out : RMSNorm(l, part, in, out).w # << >>
  BY <1>2, <1>3
<1>5. CASE AtStart
  BY <1>1, <1>5, Here, Kinds
<1>6. ASSUME NEW l \in 1 .. NumLayers, NEW s \in 1 .. 25, AtStage(l, s)
      PROVE  Instruction.w # << >>
  <2>1. Instruction = StageOp(l, s)
    BY <1>1, <1>6, Here, Zenon
  <2>2. /\ StageOp(l, 2).w # << >> /\ StageOp(l, 8).w # << >> /\ StageOp(l, 9).w # << >>
        /\ StageOp(l, 20).w # << >>
    <3>1. /\ StageOp(l, 2) = RMSNorm(l, "input_layernorm", Current(l), "normed_1")
          /\ StageOp(l, 8) = RMSNorm(l, "q_norm", "q_2d", "q_normed_2d")
          /\ StageOp(l, 9) = RMSNorm(l, "k_norm", "k_2d", "k_normed_2d")
          /\ StageOp(l, 20) =
               RMSNorm(l, "post_attention_layernorm", "residual_after_attn", "normed_2")
      BY StageIs, Zenon
    <3>. QED BY <1>4, <3>1
  <2>3. s \in {2, 8, 9, 20}
    <3>1. /\ StageOp(l, 1).op = "locals" /\ StageOp(l, 3).op = "linear"
          /\ StageOp(l, 4).op = "linear" /\ StageOp(l, 5).op = "linear"
          /\ StageOp(l, 6).op = "copy" /\ StageOp(l, 7).op = "copy"
          /\ StageOp(l, 10).op = "copy" /\ StageOp(l, 11).op = "copy"
          /\ StageOp(l, 12).op = "copy" /\ StageOp(l, 13).op = "rotary"
          /\ StageOp(l, 14).op = "rotary" /\ StageOp(l, 15).op = "update_layer"
          /\ StageOp(l, 16).op = "attention" /\ StageOp(l, 17).op = "copy"
          /\ StageOp(l, 18).op = "linear" /\ StageOp(l, 19).op = "add"
          /\ StageOp(l, 21).op = "linear" /\ StageOp(l, 22).op = "linear"
          /\ StageOp(l, 23).op = "silu_and_mul" /\ StageOp(l, 24).op = "linear"
          /\ StageOp(l, 25).op = "add"
      BY StageIs DEF Linear, Copy, Rotary, Attend, Add, Act, UpdateOp, Op
    <3>2. \/ s = 1 \/ s = 2 \/ s = 3 \/ s = 4 \/ s = 5 \/ s = 6 \/ s = 7
          \/ s = 8 \/ s = 9 \/ s = 10 \/ s = 11 \/ s = 12 \/ s = 13
          \/ s = 14 \/ s = 15 \/ s = 16 \/ s = 17 \/ s = 18 \/ s = 19 \/ s = 20
          \/ s = 21 \/ s = 22 \/ s = 23 \/ s = 24 \/ s = 25
      OBVIOUS
    <3>. QED BY <2>1, <3>1, <3>2
  <2>. QED BY <2>1, <2>2, <2>3
<1>7. ASSUME NEW l \in 1 .. NumLayers, NEW i \in Rows, NEW m \in 1 .. 3, AtRow(l, i, m)
      PROVE  FALSE
  <2>1. Instruction = BatchOp(l, i, m)
    BY <1>1, <1>7, Here, Zenon
  <2>2. m = 1 \/ m = 2 \/ m = 3
    OBVIOUS
  <2>. QED BY <2>1, <2>2, Kinds
<1>8. ASSUME NEW e \in 1 .. 4, AtEnd(e) PROVE Instruction.w # << >>
  <2>1. e # 4
    <3>1. job.at \in Nat /\ Len(Program) \in Nat
      BY <1>1, Here DEF JobTypes
    <3>. QED BY <1>1, <1>8, <3>1, Here
  <2>2. e \in 1 .. 3
    BY <2>1
  <2>3. Instruction = EndOp(e)
    BY <1>1, <1>8, <2>2, Here, Zenon
  <2>4. e = 2
    <3>1. e = 1 \/ e = 2 \/ e = 3
      BY <2>2
    <3>. QED BY <2>3, <3>1, Kinds
  <2>. QED BY <1>4, <2>3, <2>4 DEF EndOp
<1>. QED BY <1>1, <1>5, <1>6, <1>7, <1>8 DEF PassState

(* What is left to show of a step within a pass.                           *)
LEMMA PassSteps ==
  ASSUME ModelInv, Passing, NextOp, passes' = passes, DOMAIN buf' = Tensors,
         Instruction.op = "rms_norm" => Fits(Instruction),
         CacheInv', PoolTypes', PoolHolds', ModeAgrees', JobPast', PassState'
  PROVE  ModelInv'
<1>1. /\ LoadInv /\ JobTypes /\ JobFits /\ NormsFit
      /\ outcome = "ready" /\ passes > 0 /\ mode # "unset"
  BY DEF ModelInv
<1>2. /\ job'.kind # "none" /\ JobTypes' /\ JobFits' /\ SamePass
  BY <1>1, Advances
<1>3. NormsFit'
  BY <1>1, NormsStill
<1>4. UNCHANGED vars /\ UNCHANGED mode
  BY DEF NextOp, loadingVars
<1>5. LoadInv' /\ outcome' = "ready"
  <2>1. outcome' = outcome
    BY <1>4 DEF vars
  <2>. QED BY <1>1, <1>4, <2>1, LoadNext
<1>6. Passing'
  BY <1>2 DEF Passing
<1>. QED BY <1>1, <1>2, <1>3, <1>4, <1>5, <1>6 DEF ModelInv

(* The caches stay: only the place in the pass is left to show.            *)
LEMMA QuietSteps ==
  ASSUME ModelInv, Passing, NextOp, passes' = passes, DOMAIN buf' = Tensors,
         Instruction.op = "rms_norm" => Fits(Instruction),
         UNCHANGED kvVars, pool' = pool, PassState'
  PROVE  ModelInv'
<1>1. CacheInv /\ PoolTypes /\ PoolHolds /\ ModeAgrees /\ JobPast /\ JobTypes /\ JobFits
  BY DEF ModelInv
<1>2. /\ current_len' = current_len /\ capacity' = capacity /\ layers' = layers
      /\ pass' = pass /\ fed' = fed /\ cached' = cached /\ mode' = mode
  BY DEF kvVars, NextOp
<1>3. Running' = Running
  BY <1>2 DEF Running
<1>4. CacheInv'
  <2>1. [CacheNext]_cacheVars
    BY <1>2 DEF cacheVars
  <2>. QED BY <1>1, <2>1, CacheNextKeeps
<1>5. PoolTypes' /\ PoolHolds'
  BY <1>1, <1>2 DEF PoolTypes, PoolHolds
<1>6. ModeAgrees'
  BY <1>1, <1>2, <1>3 DEF ModeAgrees
<1>7. JobPast'
  <2>1. SamePass
    BY <1>1, Advances
  <2>2. /\ job'.tokens = job.tokens /\ job'.of = job.of /\ job'.past = job.past /\ Rows' = Rows
    BY <1>1, <2>1, SameRows, Zenon
  <2>. QED BY <1>1, <1>2, <1>3, <2>2 DEF JobPast
<1>. QED BY <1>4, <1>5, <1>6, <1>7, PassSteps

(* What is no write of the cache keeps the invariant,                      *)
LEMMA LocalsStep ==
  ASSUME ModelInv, Locals
  PROVE  ModelInv'
<1>1. /\ Passing /\ InPass({"locals"}) /\ NextOp /\ passes' = passes
      /\ UNCHANGED kvVars /\ pool' = pool /\ DOMAIN buf' = Tensors
      /\ Instruction.op = "locals"
  BY DEF Locals, InPass
<1>2. PassState'
  <2>1. PICK l \in 1 .. NumLayers : AtStage(l, 1)
    BY <1>1, Standing
  <2>. QED BY <1>1, <2>1, LocalsKeep
<1>. QED BY <1>1, <1>2, QuietSteps

(* An operation keeps the invariant.                                       *)
LEMMA ComputeStep ==
  ASSUME ModelInv, Compute
  PROVE  ModelInv'
<1>1. /\ Passing /\ NextOp /\ passes' = passes /\ UNCHANGED kvVars /\ pool' = pool
      /\ job.at <= Len(Program) /\ (Instruction.w # << >> => Fits(Instruction))
  BY DEF Compute, InPass
<1>2. DOMAIN buf' = Tensors
  BY <1>1, Computes
<1>3. Instruction.op = "rms_norm" => Fits(Instruction)
  BY <1>1, NormsHaveWeights
<1>4. PassState'
  BY <1>1, ComputeKeeps
<1>. QED BY <1>1, <1>2, <1>3, <1>4, QuietSteps

(* Copying a row of a batch keeps the invariant.                           *)
LEMMA CopyStep ==
  ASSUME ModelInv, CopyRow
  PROVE  ModelInv'
<1>1. /\ Passing /\ InPass({"row"}) /\ NextOp /\ passes' = passes
      /\ UNCHANGED kvVars /\ pool' = pool /\ Instruction.op = "row"
  BY DEF CopyRow, InPass
<1>2. DOMAIN buf' = Tensors
  <2>1. DOMAIN buf = Tensors
    BY <1>1 DEF ModelInv, JobTypes
  <2>. QED BY <2>1 DEF CopyRow
<1>3. PassState'
  <2>1. PICK l \in 1 .. NumLayers, i \in Rows, m \in 1 .. 2 : AtRow(l, i, m)
    BY <1>1, Standing
  <2>. QED BY <1>1, <2>1, CopyKeeps
<1>. QED BY <1>1, <1>2, <1>3, QuietSteps

(* What is written past the tokens a request counts is none of theirs.     *)
LEMMA PutKeeps ==
  ASSUME PoolTypes, PoolHolds, NEW r \in Requests, NEW l \in 1 .. NumLayers, NEW new,
         DOMAIN new \subseteq Nat \ {0}, Puts(r, l, Len(cached[r]), new), cached' = cached
  PROVE  PoolTypes' /\ PoolHolds'
<1> DEFINE n == Len(cached[r])
<1>1. IsPut(r, l, n, new)
  BY PoolWrites, Zenon
<1>2. PoolTypes'
  BY <1>1 DEF PoolTypes, IsPut
<1>3. cached[r] \in Seq(Tags) /\ n \in Nat /\ DOMAIN cached[r] = 1 .. n /\ n <= MaxTokens
  BY DEF PoolTypes
<1> HIDE DEF n
<1>4. ASSUME NEW q \in Requests, NEW k \in 1 .. NumLayers, NEW p \in DOMAIN cached[q]
      PROVE  pool'[q][k][p] = cached[q][p]
  <2>1. pool[q][k][p] = cached[q][p]
    BY DEF PoolHolds
  <2>2. CASE q = r /\ k = l
    <3>1. p \in 1 .. MaxTokens /\ p - n \notin DOMAIN new
      BY <1>3, <2>2
    <3>2. pool'[r][l][p] = IF p - n \in DOMAIN new THEN new[p - n] ELSE pool[r][l][p]
      BY <1>1, <3>1, Zenon DEF IsPut
    <3>. QED BY <2>1, <2>2, <3>1, <3>2
  <2>3. CASE ~ (q = r /\ k = l)
    <3>1. q # r \/ k # l
      BY <2>3
    <3>2. pool'[q][k] = pool[q][k]
      BY <1>1, <3>1, Zenon DEF IsPut
    <3>. QED BY <2>1, <3>2
  <2>. QED BY <2>2, <2>3
<1>. QED BY <1>2, <1>4 DEF PoolHolds

(* and what is, keeps it too.                                              *)
LEMMA UpdateStep ==
  ASSUME ModelInv, UpdateLayer
  PROVE  ModelInv'
<1>1. /\ Passing /\ InPass({"update_layer"}) /\ NextOp /\ buf' = buf
      /\ Instruction.op = "update_layer" /\ cached' = cached /\ mode' = mode
  BY DEF UpdateLayer, InPass, NextOp
<1>2. /\ CacheInv /\ PoolTypes /\ PoolHolds /\ ModeAgrees /\ JobTypes /\ JobFits /\ JobPast
  BY <1>1 DEF ModelInv
<1>3. DOMAIN buf' = Tensors
  BY <1>1, <1>2 DEF JobTypes
<1>4. ASSUME passes' = passes
      PROVE  /\ job'.tokens = job.tokens /\ job'.of = job.of /\ job'.past = job.past
             /\ Rows' = Rows
  <2>1. SamePass
    BY <1>1, <1>2, <1>4, Advances
  <2>. QED BY <1>2, <2>1, SameRows, Zenon
<1>5. ASSUME UNCHANGED kvVars, passes' = passes
      PROVE  CacheInv' /\ ModeAgrees' /\ JobPast'
  <2>1. /\ current_len' = current_len /\ capacity' = capacity /\ layers' = layers
        /\ pass' = pass /\ fed' = fed
    BY <1>5 DEF kvVars
  <2>2. Running' = Running
    BY <2>1 DEF Running
  <2>3. CacheInv'
    <3>1. [CacheNext]_cacheVars
      BY <1>5, <2>1 DEF cacheVars
    <3>. QED BY <1>2, <3>1, CacheNextKeeps
  <2>4. ModeAgrees'
    BY <1>1, <1>2, <2>1, <2>2 DEF ModeAgrees
  <2>5. JobPast'
    BY <1>1, <1>2, <1>4, <1>5, <2>1, <2>2 DEF JobPast
  <2>. QED BY <2>3, <2>4, <2>5
<1>6. ASSUME NEW l \in 1 .. NumLayers, AtStage(l, 15) PROVE ModelInv'
  <2>1. /\ NewRows = job.tokens /\ Instruction.l = l /\ job.kind = "forward"
        /\ mode = "contiguous" => WriteLayer /\ pass.next = l
        /\ mode # "contiguous" => UNCHANGED <<kvVars, passes>>
        /\ pool' = IF mode = "paged"
                   THEN [pool EXCEPT ![job.of[1]][l] = Written(@, job.past[1], job.tokens)]
                   ELSE pool
        /\ passes' = passes /\ fed' = fed
    BY <1>1, <1>6, PassWrites
  <2>2. PassState'
    BY <1>1, <1>6, WritesKeep
  <2>3. PoolTypes' /\ PoolHolds'
    <3>1. CASE mode = "paged"
      <4>1. /\ 1 \in Rows /\ Rows = 1 .. Len(job.tokens) /\ Len(job.tokens) \in Nat
        BY <1>2, Lengths
      <4>2. job.of[1] \in Requests /\ job.past[1] = Len(cached[job.of[1]])
        BY <1>2, <3>1, <4>1 DEF JobTypes, JobPast
      <4>3. DOMAIN job.tokens \subseteq Nat \ {0}
        BY <4>1 DEF Rows
      <4>4. Puts(job.of[1], l, Len(cached[job.of[1]]), job.tokens)
        BY <2>1, <3>1, <4>2 DEF Puts
      <4>. QED BY <1>1, <1>2, <4>2, <4>3, <4>4, PutKeeps
    <3>2. CASE mode # "paged"
      BY <1>1, <1>2, <2>1, <3>2 DEF PoolTypes, PoolHolds
    <3>. QED BY <3>1, <3>2
  <2>4. CacheInv' /\ ModeAgrees' /\ JobPast'
    <3>1. CASE mode = "contiguous"
      <4>1. /\ WriteLayer /\ Running /\ pass' = [pass EXCEPT !.next = pass.next + 1]
            /\ current_len' = current_len
        BY <2>1, <3>1 DEF WriteLayer, WriteRows
      <4>2. pass'.len = pass.len
        <5>1. pass \in [past : Nat, len : Nat, next : Nat]
          BY <1>2 DEF CacheInv, Types
        <5>. QED BY <4>1, <5>1
      <4>3. CacheInv'
        BY <1>2, <4>1, WriteKeeps
      <4>4. ModeAgrees'
        BY <1>1, <1>2, <3>1 DEF ModeAgrees
      <4>5. JobPast'
        BY <1>1, <1>2, <1>4, <2>1, <3>1, <4>1, <4>2 DEF JobPast
      <4>. QED BY <4>3, <4>4, <4>5
    <3>2. CASE mode # "contiguous"
      BY <1>5, <2>1, <3>2
    <3>. QED BY <3>1, <3>2
  <2>. QED BY <1>1, <1>3, <2>1, <2>2, <2>3, <2>4, PassSteps
<1>7. ASSUME NEW l \in 1 .. NumLayers, NEW i \in Rows, AtRow(l, i, 3) PROVE ModelInv'
  <2>1. /\ mode = "paged" /\ UNCHANGED <<kvVars, passes>> /\ fed' = fed
        /\ job.of[i] \in Requests
        /\ Puts(job.of[i], l, job.past[i], <<job.tokens[i]>>)
    BY <1>1, <1>7, BatchPuts
  <2>2. PassState'
    BY <1>1, <1>7, RowKeeps
  <2>3. PoolTypes' /\ PoolHolds'
    <3>1. job.past[i] = Len(cached[job.of[i]])
      BY <1>2, <2>1 DEF JobPast
    <3>2. DOMAIN <<job.tokens[i]>> \subseteq Nat \ {0}
      OBVIOUS
    <3>3. Puts(job.of[i], l, Len(cached[job.of[i]]), <<job.tokens[i]>>)
      BY <2>1, <3>1
    <3>. QED BY <1>1, <1>2, <2>1, <3>2, <3>3, PutKeeps
  <2>4. CacheInv' /\ ModeAgrees' /\ JobPast'
    BY <1>5, <2>1
  <2>. QED BY <1>1, <1>3, <2>1, <2>2, <2>3, <2>4, PassSteps
<1>. QED BY <1>1, <1>6, <1>7, Standing

(* Counting what the contiguous cache was fed keeps the invariant: every   *)
(* layer has been written by then.                                         *)
LEMMA AdvanceStep ==
  ASSUME ModelInv, AdvanceCache
  PROVE  ModelInv'
<1>1. /\ Passing /\ InPass({"advance"}) /\ NextOp /\ buf' = buf /\ pool' = pool
      /\ Instruction.op = "advance" /\ cached' = cached /\ mode' = mode /\ passes' = passes
  BY DEF AdvanceCache, InPass, NextOp, Advance
<1>2. /\ CacheInv /\ PoolTypes /\ PoolHolds /\ ModeAgrees /\ JobTypes /\ JobFits /\ JobPast
  BY <1>1 DEF ModelInv
<1>3. DOMAIN buf' = Tensors
  BY <1>1, <1>2 DEF JobTypes
<1>4. PassState'
  BY <1>1, AdvancePasses, Standing
<1>5. PoolTypes' /\ PoolHolds'
  BY <1>1, <1>2 DEF PoolTypes, PoolHolds
<1>6. ~ Running' /\ CacheInv' /\ ModeAgrees'
  <2>1. CASE mode = "contiguous"
    <3>1. Advance
      BY <2>1 DEF AdvanceCache
    <3>2. ~ Running'
      BY <3>1 DEF Advance, Running
    <3>3. CacheInv'
      BY <1>2, <3>1, AdvanceKeeps
    <3>. QED BY <1>1, <1>2, <2>1, <3>2, <3>3 DEF ModeAgrees
  <2>2. CASE mode # "contiguous"
    <3>1. /\ current_len' = current_len /\ capacity' = capacity /\ layers' = layers
          /\ pass' = pass /\ fed' = fed
      BY <2>2 DEF AdvanceCache, kvVars
    <3>2. CacheInv'
      <4>1. [CacheNext]_cacheVars
        BY <1>1, <3>1 DEF cacheVars
      <4>. QED BY <1>2, <4>1, CacheNextKeeps
    <3>3. ~ Running'
      BY <1>2, <2>2, <3>1 DEF ModeAgrees, Running
    <3>. QED BY <1>1, <1>2, <3>1, <3>2, <3>3 DEF ModeAgrees
  <2>. QED BY <2>1, <2>2
<1>7. JobPast'
  <2>1. SamePass
    BY <1>1, <1>2, Advances
  <2>2. /\ job'.tokens = job.tokens /\ job'.of = job.of /\ job'.past = job.past /\ Rows' = Rows
    BY <1>2, <2>1, SameRows, Zenon
  <2>. QED BY <1>1, <1>2, <1>6, <2>2 DEF JobPast
<1>. QED BY <1>1, <1>3, <1>4, <1>5, <1>6, <1>7, PassSteps

(* A pass that throws leaves what is cached as it was.                     *)
LEMMA ThrowStep ==
  ASSUME ModelInv, Throw
  PROVE  ModelInv'
<1>1. /\ job' = NoJob /\ cached' = cached /\ pool' = pool /\ mode' = mode /\ passes' = passes
      /\ UNCHANGED vars
      /\ IF Running THEN PassThrows ELSE UNCHANGED kvVars
  BY DEF Throw, EndPass, loadingVars
<1>2. LoadInv /\ CacheInv /\ PoolTypes /\ PoolHolds /\ ModeAgrees
  BY DEF ModelInv
<1>3. CacheInv' /\ ~ Running' /\ fed' = fed
  <2>1. CASE Running
    <3>1. PassThrows
      BY <1>1, <2>1
    <3>. QED BY <1>2, <3>1, ThrowKeeps DEF PassThrows, Running
  <2>2. CASE ~ Running
    <3>1. /\ current_len' = current_len /\ capacity' = capacity /\ layers' = layers
          /\ pass' = pass /\ fed' = fed
      BY <1>1, <2>2 DEF kvVars
    <3>2. [CacheNext]_cacheVars
      BY <1>1, <3>1 DEF cacheVars
    <3>. QED BY <1>2, <2>2, <3>1, <3>2, CacheNextKeeps DEF Running
  <2>. QED BY <2>1, <2>2
<1>4. PoolTypes' /\ PoolHolds'
  BY <1>1, <1>2 DEF PoolTypes, PoolHolds
<1>5. ModeAgrees'
  BY <1>1, <1>2, <1>3 DEF ModeAgrees
<1>6. LoadInv'
  BY <1>1, <1>2, LoadNext
<1>7. ~ Passing'
  BY <1>1 DEF Passing, NoJob
<1>. QED BY <1>1, <1>3, <1>4, <1>5, <1>6, <1>7 DEF ModelInv, NoJob

(* A pass over the other cache, or none, leaves the contiguous one alone.  *)
LEMMA UncountedPass ==
  ASSUME CacheInv, ~ Running, UNCHANGED kvVars, passes' = passes + 1
  PROVE  CacheInv'
<1>1. /\ current_len' = current_len /\ capacity' = capacity /\ layers' = layers
      /\ pass' = pass /\ fed' = fed /\ passes' = passes + 1
  BY DEF kvVars
<1>2. ~ Running'
  BY <1>1 DEF Running
<1>3. Types' /\ RowsHold' /\ CapacityAgrees'
  BY <1>1, <1>2 DEF CacheInv, Types, RowsHold, CapacityAgrees
<1>. QED BY <1>2, <1>3 DEF CacheInv, PassFits, PassKept

(* A pass starts where its requests' tokens end.                           *)
LEMMA Starts ==
  ASSUME ModelInv, ~ Passing, outcome = "ready", NEW b \in Nat \ {0},
         NEW of \in [1 .. b -> Requests], NEW kind \in {"forward", "batch"},
         NEW m \in {"none", "contiguous", "paged"},
         Start(kind, of, m), passes' = passes + 1, CacheInv', JobFits',
         IF m = "contiguous" THEN BeginPass(b) ELSE UNCHANGED kvVars
  PROVE  ModelInv'
<1> DEFINE tokens == [i \in 1 .. b |-> <<passes + 1, i>>]
           past == [i \in 1 .. b |-> Len(CachedTokens(of[i]))]
<1>1. /\ LoadInv /\ CacheInv /\ PoolTypes /\ PoolHolds /\ ModeAgrees /\ ~ Running
      /\ passes \in Nat /\ current_len \in Nat /\ fed \in Seq(Tags) /\ Len(fed) = current_len
  BY DEF ModelInv, NoJob, CacheInv, Types, RowsHold
<1>2. DOMAIN of = 1 .. b
  OBVIOUS
<1>3. /\ mode \in {"unset", m} /\ mode' = m
      /\ job' = [kind |-> kind, of |-> of, tokens |-> tokens, past |-> past, at |-> 1]
      /\ buf' = [v \in Tensors |-> IF v = "input_ids" THEN job'.tokens
                                   ELSE [i \in 1 .. b |-> Unwritten]]
      /\ UNCHANGED vars /\ pool' = pool /\ cached' = cached
  BY <1>2 DEF Start, loadingVars, pagedVars
<1>4. \A r \in Requests : CachedTokens(r) \in Seq(Tags)
  BY <1>1 DEF CachedTokens, PoolTypes
<1>5. past \in [1 .. b -> Nat]
  BY <1>4
<1>6. tokens \in [1 .. b -> Nat \X Nat] /\ Len(tokens) = b
  <2>1. tokens \in [1 .. b -> Nat \X Nat]
    BY <1>1
  <2> HIDE DEF tokens
  <2>. QED BY <2>1, FunctionIsSeq
<1>7. \A i \in 1 .. b : past[i] = Len(CachedTokens(of[i]))
  OBVIOUS
<1>8. tokens = [i \in 1 .. b |-> <<passes', i>>]
  OBVIOUS
<1> HIDE DEF tokens, past
<1>9. /\ job'.kind = kind /\ job'.of = of /\ job'.tokens = tokens /\ job'.past = past
      /\ job'.at = 1 /\ Rows' = 1 .. b
  BY <1>3, <1>6 DEF Rows
<1>10. JobTypes'
  <2>1. DOMAIN buf' = Tensors
    BY <1>3
  <2>2. /\ b \in Nat \ {0} /\ tokens = [i \in 1 .. b |-> <<passes', i>>]
        /\ of \in [1 .. b -> Requests] /\ past \in [1 .. b -> Nat]
    BY <1>5, <1>8
  <2>3. Len(job'.tokens) = b
    BY <1>6, <1>9
  <2>4. job' = [kind |-> job'.kind, of |-> job'.of, tokens |-> job'.tokens,
                past |-> job'.past, at |-> job'.at]
    BY <1>3
  <2>. QED BY <1>9, <2>1, <2>2, <2>3, <2>4 DEF JobTypes
<1>11. ASSUME m = "contiguous" PROVE ModeAgrees' /\ JobPast' /\ WrittenTo(1)'
  <2>1. /\ pass' = [past |-> current_len, len |-> b, next |-> 1] /\ current_len' = current_len
    BY <1>11 DEF BeginPass
  <2>2. Running' /\ pass'.len = b /\ pass'.next = 1
    BY <2>1 DEF Running, NoPass
  <2>3. ModeAgrees'
    BY <1>1, <1>3, <1>11 DEF ModeAgrees
  <2>4. JobPast'
    <3>1. ASSUME NEW i \in 1 .. b PROVE past[i] = current_len
      <4>1. Len(CachedTokens(of[i])) = current_len
        <5>1. CASE mode = "contiguous"
          BY <1>1, <5>1 DEF CachedTokens
        <5>2. CASE mode = "unset"
          BY <1>1, <5>2 DEF CachedTokens, ModeAgrees
        <5>. QED BY <1>3, <1>11, <5>1, <5>2
      <4>. QED BY <1>7, <4>1
    <3>. QED BY <1>3, <1>6, <1>9, <1>11, <2>1, <2>2, <3>1 DEF JobPast
  <2>5. WrittenTo(1)'
    BY <1>3, <1>11, <2>2 DEF WrittenTo
  <2>. QED BY <2>3, <2>4, <2>5
<1>12. ASSUME m # "contiguous" PROVE ModeAgrees' /\ JobPast' /\ WrittenTo(1)'
  <2>1. /\ current_len' = current_len /\ pass' = pass /\ fed' = fed
    BY <1>12 DEF kvVars
  <2>2. ~ Running'
    BY <1>1, <2>1 DEF Running
  <2>3. ModeAgrees'
    BY <1>1, <1>3, <1>12, <2>1, <2>2 DEF ModeAgrees
  <2>4. JobPast'
    <3>1. ASSUME NEW i \in 1 .. b
          PROVE  /\ m = "none" => past[i] = 0
                 /\ m = "paged" => past[i] = Len(cached[of[i]])
      <4>1. of[i] \in Requests
        OBVIOUS
      <4>2. mode = "unset" => cached[of[i]] = << >> /\ CachedTokens(of[i]) = << >>
        BY <1>1, <4>1 DEF CachedTokens, ModeAgrees
      <4>3. mode = "none" => CachedTokens(of[i]) = << >>
        BY DEF CachedTokens
      <4>4. mode = "paged" => CachedTokens(of[i]) = cached[of[i]]
        BY DEF CachedTokens
      <4>. QED BY <1>3, <1>7, <4>2, <4>3, <4>4
    <3>. QED BY <1>3, <1>9, <1>12, <2>2, <3>1 DEF JobPast
  <2>5. WrittenTo(1)'
    BY <1>3, <1>12 DEF WrittenTo
  <2>. QED BY <2>3, <2>4, <2>5
<1>13. ModeAgrees' /\ JobPast' /\ WrittenTo(1)'
  BY <1>11, <1>12
<1>14. PassState'
  <2>1. "input_ids" \in Tensors
    BY TensorsAre DEF Ends
  <2>2. buf'["input_ids"] = job'.tokens
    BY <1>3, <2>1
  <2>3. AtStart'
    BY <1>9, <1>13, <2>2 DEF AtStart
  <2>. QED BY <2>3, Zenon DEF PassState
<1>15. NormsFit'
  BY <1>9 DEF NormsFit
<1>16. PoolTypes' /\ PoolHolds'
  <2>1. pool' = pool /\ cached' = cached
    BY <1>3
  <2>2. PoolTypes'
    BY <1>1, <2>1 DEF PoolTypes
  <2>3. PoolHolds'
    BY <1>1, <2>1 DEF PoolHolds
  <2>. QED BY <2>2, <2>3
<1>17. LoadInv' /\ outcome' = "ready"
  <2>1. outcome' = outcome
    BY <1>3 DEF vars
  <2>. QED BY <1>1, <1>3, <2>1, LoadNext
<1>18. Passing' /\ passes' > 0 /\ mode' # "unset"
  BY <1>1, <1>3, <1>9 DEF Passing
<1>. QED BY <1>10, <1>13, <1>14, <1>15, <1>16, <1>17, <1>18 DEF ModelInv

(* A forward pass begins with the invariant, over any cache.               *)
LEMMA BeginStep ==
  ASSUME ModelInv, NEW r \in Requests, NEW n \in PassLens, NEW m \in CacheModes, Begin(r, n, m)
  PROVE  ModelInv'
<1> DEFINE of == [i \in 1 .. n |-> r]
<1>1. /\ outcome = "ready" /\ ~ Passing /\ passes < MaxPasses
      /\ LET past == Len(CachedTokens(r)) IN past + n <= MaxTokens /\ (past # 0 => n = 1)
      /\ Start("forward", of, m) /\ passes' = passes + 1
      /\ IF m = "contiguous" THEN BeginPass(n) ELSE UNCHANGED kvVars
  BY DEF Begin, MayBegin, BeginPass
<1>2. n \in Nat \ {0} /\ m \in {"none", "contiguous", "paged"} /\ of \in [1 .. n -> Requests]
  BY Qwen3ForwardAssumption
<1>3. CacheInv /\ ~ Running /\ passes \in Nat
  BY <1>1 DEF ModelInv, CacheInv, Types
<1>4. CacheInv'
  <2>1. CASE m = "contiguous"
    BY <1>1, <1>3, <2>1, BeginKeeps
  <2>2. CASE m # "contiguous"
    BY <1>1, <1>3, <2>2, UncountedPass
  <2>. QED BY <2>1, <2>2
<1>5. JobFits'
  <2> DEFINE tokens == [i \in 1 .. n |-> <<passes + 1, i>>]
             past == [i \in 1 .. n |-> Len(CachedTokens(of[i]))]
  <2>1. job' = [kind |-> "forward", of |-> of, tokens |-> tokens, past |-> past, at |-> 1]
    <3>1. DOMAIN of = 1 .. n
      OBVIOUS
    <3>. QED BY <1>1, <3>1 DEF Start
  <2>2. Len(tokens) = n
    <3>1. tokens \in [1 .. n -> Nat \X Nat]
      BY <1>3
    <3> HIDE DEF tokens
    <3>. QED BY <1>2, <3>1, FunctionIsSeq
  <2>3. \A i \in 1 .. n : of[i] = r /\ past[i] = Len(CachedTokens(r))
    OBVIOUS
  <2>4. 1 \in 1 .. n
    BY <1>2
  <2> HIDE DEF tokens, past, of
  <2>. QED BY <1>1, <2>1, <2>2, <2>3, <2>4 DEF JobFits
<1> HIDE DEF of
<1>. QED BY <1>1, <1>2, <1>4, <1>5, Starts

(* A batch begins with the invariant.                                      *)
LEMMA BeginBatchStep ==
  ASSUME ModelInv, NEW b \in 1 .. Cardinality(Requests), NEW of \in [1 .. b -> Requests],
         IsInjective(of), BeginBatch(of)
  PROVE  ModelInv'
<1>1. /\ outcome = "ready" /\ ~ Passing
      /\ \A i \in DOMAIN of : Len(cached[of[i]]) < MaxTokens
      /\ Start("batch", of, "paged") /\ passes' = passes + 1 /\ UNCHANGED kvVars
  BY DEF BeginBatch, MayBegin
<1>2. b \in Nat \ {0} /\ DOMAIN of = 1 .. b
  <2>1. Cardinality(Requests) \in Nat
    BY Qwen3ForwardAssumption, FS_CardinalityType
  <2>. QED BY <2>1
<1>3. CacheInv /\ ~ Running /\ passes \in Nat /\ ModeAgrees /\ PoolTypes
  BY <1>1 DEF ModelInv, CacheInv, Types
<1>4. CacheInv'
  BY <1>1, <1>3, UncountedPass
<1>5. JobFits'
  <2> DEFINE tokens == [i \in 1 .. b |-> <<passes + 1, i>>]
             past == [i \in 1 .. b |-> Len(CachedTokens(of[i]))]
  <2>1. /\ job' = [kind |-> "batch", of |-> of, tokens |-> tokens, past |-> past, at |-> 1]
        /\ mode' = "paged" /\ mode \in {"unset", "paged"}
    BY <1>1, <1>2 DEF Start
  <2>2. Len(tokens) = b
    <3>1. tokens \in [1 .. b -> Nat \X Nat]
      BY <1>3
    <3> HIDE DEF tokens
    <3>. QED BY <1>2, <3>1, FunctionIsSeq
  <2>3. ASSUME NEW i \in 1 .. b PROVE past[i] + 1 <= MaxTokens
    <3>1. of[i] \in Requests /\ Len(cached[of[i]]) < MaxTokens
      BY <1>1, <1>2
    <3>2. CachedTokens(of[i]) = cached[of[i]]
      <4>1. CASE mode = "paged"
        BY <4>1 DEF CachedTokens
      <4>2. CASE mode = "unset"
        BY <1>3, <3>1, <4>2 DEF CachedTokens, ModeAgrees
      <4>. QED BY <2>1, <4>1, <4>2
    <3>3. cached[of[i]] \in Seq(Tags)
      BY <1>3, <3>1 DEF PoolTypes
    <3>. QED BY <3>1, <3>2, <3>3
  <2> HIDE DEF tokens, past
  <2>. QED BY <2>1, <2>2, <2>3 DEF JobFits
<1>. QED BY <1>1, <1>2, <1>4, <1>5, Starts

(* What a pass through the paged cache feeds a request stands where the    *)
(* request's tokens end, in every layer.                                   *)
LEMMA FedIs ==
  ASSUME ModelInv, Passing, AtEnd(4), mode = "paged", NEW r \in Requests
  PROVE  /\ FedTo(r) \in Seq(Tags) /\ Len(cached[r]) + Len(FedTo(r)) <= MaxTokens
         /\ \A l \in 1 .. NumLayers, j \in 1 .. Len(FedTo(r)) :
              pool[r][l][Len(cached[r]) + j] = FedTo(r)[j]
<1> DEFINE n == Len(job.tokens)
           c == Len(cached[r])
<1>1. /\ Rows = 1 .. n /\ n \in Nat \ {0} /\ job.kind \in {"forward", "batch"}
      /\ job.tokens = [i \in 1 .. n |-> <<passes, i>>]
      /\ DOMAIN job.of = 1 .. n
      /\ \A i \in Rows : job.past[i] = Len(cached[job.of[i]])
  BY Lengths DEF ModelInv, JobTypes, JobPast
<1>2. c \in Nat /\ c <= MaxTokens
  BY DEF ModelInv, PoolTypes
<1>3. JobFits /\ passes \in Nat
  BY DEF ModelInv, CacheInv, Types
<1>4. \A l \in 1 .. NumLayers, i \in Rows : InPool(l, i)
  BY DEF AtEnd
<1>5. \A i \in 1 .. n : job.tokens[i] \in Tags
  BY <1>1, <1>3 DEF Tags
<1>6. job.tokens \in Seq(Tags)
  <2>1. job.tokens \in [1 .. n -> Tags]
    BY <1>1, <1>5
  <2> HIDE DEF n
  <2>. QED BY <1>1, <2>1, FunctionIsSeq
<1> HIDE DEF n, c
<1>7. CASE r \notin Range(job.of)
  <2>1. FedTo(r) = << >>
    BY <1>7 DEF FedTo
  <2>. QED BY <1>2, <2>1 DEF c
<1>8. CASE r \in Range(job.of) /\ job.kind = "batch"
  <2> DEFINE i == CHOOSE k \in Rows : job.of[k] = r
             t == job.tokens[i]
  <2>1. i \in Rows /\ job.of[i] = r
    <3>1. \E k \in Rows : job.of[k] = r
      BY <1>1, <1>8 DEF Range
    <3>. QED BY <3>1
  <2>2. FedTo(r) = <<t>>
    BY <1>8 DEF FedTo
  <2> HIDE DEF i
  <2>3. job.past[i] = c /\ c + 1 <= MaxTokens /\ t \in Tags
    BY <1>1, <1>3, <1>5, <1>8, <2>1 DEF JobFits, c, n
  <2>4. \A l \in 1 .. NumLayers : pool[r][l][c + 1] = t
    BY <1>4, <1>8, <2>1, <2>3 DEF InPool, RowOf
  <2> HIDE DEF t
  <2>5. <<t>> \in Seq(Tags) /\ Len(<<t>>) = 1 /\ <<t>>[1] = t
    BY <2>3
  <2>6. \A j \in 1 .. 1 : j = 1
    OBVIOUS
  <2>. QED BY <2>2, <2>3, <2>4, <2>5, <2>6 DEF c
<1>9. CASE r \in Range(job.of) /\ job.kind = "forward"
  <2>1. FedTo(r) = job.tokens
    BY <1>9 DEF FedTo
  <2>2. \A i \in 1 .. n : job.of[i] = r /\ job.past[i] = c
    <3>1. PICK k \in 1 .. n : job.of[k] = r
      BY <1>1, <1>9 DEF Range
    <3>2. \A i \in 1 .. n : job.of[i] = job.of[1]
      BY <1>3, <1>9 DEF JobFits, n
    <3>3. \A i \in 1 .. n : job.of[i] = r
      BY <3>1, <3>2
    <3>. QED BY <1>1, <3>3 DEF c
  <2>3. c + n <= MaxTokens
    <3>1. job.past[1] + n <= MaxTokens /\ 1 \in 1 .. n
      BY <1>1, <1>3, <1>9 DEF JobFits, n
    <3>. QED BY <2>2, <3>1
  <2>4. ASSUME NEW l \in 1 .. NumLayers, NEW j \in 1 .. n PROVE pool[r][l][c + j] = job.tokens[j]
    <3>1. InPool(l, j)
      BY <1>1, <1>4
    <3>2. RowOf(j) = c + j
      BY <1>9, <2>2 DEF RowOf
    <3>. QED BY <2>2, <3>1, <3>2 DEF InPool
  <2>. QED BY <1>6, <2>1, <2>3, <2>4 DEF c, n
<1>. QED BY <1>1, <1>7, <1>8, <1>9

(* The tokens of a pass that returns count.                                *)
LEMMA ReturnStep ==
  ASSUME ModelInv, Return
  PROVE  ModelInv'
<1>1. /\ Passing /\ job.at > Len(Program)
      /\ cached' = IF mode # "paged" THEN cached ELSE [r \in Requests |-> cached[r] \o FedTo(r)]
      /\ job' = NoJob /\ pool' = pool /\ mode' = mode /\ passes' = passes /\ UNCHANGED vars
      /\ current_len' = current_len /\ capacity' = capacity /\ layers' = layers
      /\ pass' = pass /\ fed' = fed
  BY DEF Return, EndPass, loadingVars, kvVars
<1>2. LoadInv /\ CacheInv /\ PoolTypes /\ PoolHolds /\ ModeAgrees
  BY DEF ModelInv
<1>3. AtEnd(4)
  BY <1>1, Standing
<1>4. ~ Running'
  BY <1>1, <1>3 DEF AtEnd, Running
<1>5. CacheInv'
  <2>1. [CacheNext]_cacheVars
    BY <1>1 DEF cacheVars
  <2>. QED BY <1>2, <2>1, CacheNextKeeps
<1>6. PoolTypes' /\ PoolHolds' /\ ModeAgrees'
  <2>1. CASE mode # "paged"
    <3>1. cached' = cached
      BY <1>1, <2>1
    <3>2. PoolTypes' /\ PoolHolds'
      <4>1. PoolTypes'
        BY <1>1, <1>2, <3>1 DEF PoolTypes
      <4>2. PoolHolds'
        BY <1>1, <1>2, <3>1 DEF PoolHolds
      <4>. QED BY <4>1, <4>2
    <3>. QED BY <1>1, <1>2, <1>4, <3>1, <3>2 DEF ModeAgrees
  <2>2. CASE mode = "paged"
    <3>1. cached' = [r \in Requests |-> cached[r] \o FedTo(r)]
      BY <1>1, <2>2
    <3>2. ASSUME NEW r \in Requests
          PROVE  /\ cached'[r] \in Seq(Tags) /\ Len(cached'[r]) <= MaxTokens
                 /\ \A l \in 1 .. NumLayers : \A p \in DOMAIN cached'[r] :
                      pool[r][l][p] = cached'[r][p]
      <4> DEFINE c == cached[r]
                 f == FedTo(r)
                 d == cached'[r]
      <4>1. c \in Seq(Tags) /\ f \in Seq(Tags) /\ Len(c) + Len(f) <= MaxTokens
        BY <1>1, <1>2, <1>3, <2>2, FedIs DEF PoolTypes
      <4>2. \A l \in 1 .. NumLayers : \A j \in 1 .. Len(f) : pool[r][l][Len(c) + j] = f[j]
        BY <1>1, <1>3, <2>2, FedIs
      <4>3. \A l \in 1 .. NumLayers : \A p \in 1 .. Len(c) : pool[r][l][p] = c[p]
        BY <1>2, <4>1 DEF PoolHolds
      <4>4. d = c \o f
        BY <3>1
      <4> HIDE DEF c, f, d
      <4>5. /\ d \in Seq(Tags) /\ Len(d) = Len(c) + Len(f)
            /\ \A p \in 1 .. Len(c) + Len(f) : d[p] = IF p <= Len(c) THEN c[p] ELSE f[p - Len(c)]
        BY <4>1, <4>4, ConcatProperties
      <4>6. ASSUME NEW l \in 1 .. NumLayers, NEW p \in DOMAIN d PROVE pool[r][l][p] = d[p]
        <5>1. p \in 1 .. Len(c) + Len(f) /\ Len(c) \in Nat /\ Len(f) \in Nat
          BY <4>1, <4>5
        <5>2. CASE p <= Len(c)
          BY <4>3, <4>5, <5>1, <5>2
        <5>3. CASE ~ p <= Len(c)
          <6> DEFINE j == p - Len(c)
          <6>1. j \in 1 .. Len(f) /\ Len(c) + j = p
            BY <5>1, <5>3
          <6>2. d[p] = f[j]
            BY <4>5, <5>1, <5>3
          <6> HIDE DEF j
          <6>3. pool[r][l][Len(c) + j] = f[j]
            BY <4>2, <6>1, Zenon
          <6>. QED BY <6>1, <6>2, <6>3
        <5>. QED BY <5>2, <5>3
      <4>7. \A l \in 1 .. NumLayers : \A p \in DOMAIN d : pool[r][l][p] = d[p]
        BY <4>6
      <4>. QED BY <4>1, <4>5, <4>7 DEF d
    <3>3. PoolTypes'
      <4>1. cached' \in [Requests -> Seq(Tags)]
        <5>1. DOMAIN cached' = Requests
          BY <3>1
        <5>2. \A r \in Requests : cached'[r] \in Seq(Tags)
          BY <3>2
        <5>3. cached' = [r \in Requests |-> cached'[r]]
          BY <3>1
        <5>. QED BY <5>2, <5>3
      <4>. QED BY <1>1, <1>2, <3>2, <4>1 DEF PoolTypes
    <3>4. PoolHolds'
      BY <1>1, <3>2 DEF PoolHolds
    <3>5. ModeAgrees'
      BY <1>1, <1>2, <1>4, <2>2 DEF ModeAgrees
    <3>. QED BY <3>3, <3>4, <3>5
  <2>. QED BY <2>1, <2>2
<1>7. LoadInv'
  BY <1>1, <1>2, LoadNext
<1>8. ~ Passing'
  BY <1>1 DEF Passing, NoJob
<1>. QED BY <1>1, <1>4, <1>5, <1>6, <1>7, <1>8 DEF ModelInv

(* Weights load before there is any pass.                                  *)
LEMMA LoadingStep ==
  ASSUME ModelInv, passes = 0, Next, UNCHANGED forwardVars
  PROVE  ModelInv'
<1>1. /\ current_len' = current_len /\ capacity' = capacity /\ layers' = layers
      /\ pass' = pass /\ fed' = fed /\ passes' = passes
      /\ pool' = pool /\ cached' = cached /\ mode' = mode /\ job' = job
  BY DEF forwardVars, kvVars, pagedVars
<1>2. /\ LoadInv /\ CacheInv /\ PoolTypes /\ PoolHolds /\ ModeAgrees
      /\ ~ Passing /\ job = NoJob /\ ~ Running
  BY DEF ModelInv
<1>3. CacheInv'
  <2>1. [CacheNext]_cacheVars
    BY <1>1 DEF cacheVars
  <2>. QED BY <1>2, <2>1, CacheNextKeeps
<1>4. PoolTypes'
  BY <1>1, <1>2 DEF PoolTypes
<1>5. PoolHolds'
  BY <1>1, <1>2 DEF PoolHolds
<1>6. Running' = Running /\ Passing' = Passing
  BY <1>1 DEF Running, Passing
<1>7. ModeAgrees'
  BY <1>1, <1>2, <1>6 DEF ModeAgrees
<1>8. LoadInv'
  BY <1>2, LoadNext
<1>. QED BY <1>1, <1>2, <1>3, <1>4, <1>5, <1>6, <1>7, <1>8 DEF ModelInv, NoJob

(* A step that changes nothing changes no position either.                 *)
LEMMA StillPasses ==
  ASSUME ModelInv, Passing, UNCHANGED <<loadingVars, forwardVars>>
  PROVE  PassState'
<1>1. /\ job' = job /\ buf' = buf /\ pool' = pool /\ UNCHANGED kvVars /\ fed' = fed
      /\ pass' = pass /\ mode' = mode /\ cached' = cached /\ passes' = passes /\ mem' = mem
  BY DEF loadingVars, vars, forwardVars, kvVars, pagedVars
<1>2. JobTypes /\ JobFits /\ PassState
  BY DEF ModelInv
<1>3. SamePass
  <2>1. job = [job EXCEPT !.at = job.at]
    BY <1>2 DEF JobTypes
  <2>. QED BY <1>1, <2>1 DEF SamePass
<1>4. /\ Rows' = Rows
      /\ \A l, t : Hidden(l, t)' = Hidden(l, t)
      /\ \A l, t : KeyOf(l, t)' = KeyOf(l, t) /\ ValueOf(l, t)' = ValueOf(l, t)
      /\ \A n : WeightOf(n)' = WeightOf(n)
      /\ \A l : HiddenRows(l)' = HiddenRows(l)
      /\ \A t : LogitsOf(t)' = LogitsOf(t)
  BY <1>2, <1>3, SameRows, Zenon
<1>5. /\ \A k, i : InPool(k, i)' = InPool(k, i)
      /\ \A l : WrittenTo(l)' = WrittenTo(l)
  BY <1>1, <1>2, <1>3, StillCached
<1>6. /\ \A l, j : At(l, j)' = At(l, j)
      /\ \A s : Place(s)' = Place(s)
  BY <1>1 DEF At, LayerLength, CacheOps, Place
<1>7. ASSUME NEW l, NEW s \in 1 .. 25, LayerState(l, s) PROVE LayerState(l, s)'
  BY <1>1, <1>2, <1>3, <1>7, StillComputed
<1>8. CASE AtStart
  <2>1. AtStart'
    BY <1>1, <1>5, <1>8 DEF AtStart
  <2>. QED BY <2>1, Zenon DEF PassState
<1>9. CASE \E l \in 1 .. NumLayers, s \in 1 .. 25 : AtStage(l, s)
  <2>1. PICK l \in 1 .. NumLayers, s \in 1 .. 25 : AtStage(l, s)
    BY <1>9
  <2>2. AtStage(l, s)'
    BY <1>1, <1>5, <1>6, <1>7, <2>1 DEF AtStage
  <2>. QED BY <2>2, Zenon DEF PassState
<1>10. CASE \E l \in 1 .. NumLayers, i \in Rows, m \in 1 .. 3 : AtRow(l, i, m)
  <2>1. PICK l \in 1 .. NumLayers, i \in Rows, m \in 1 .. 3 : AtRow(l, i, m)
    BY <1>10
  <2>2. BatchState(l, i, m)'
    <3>1. KeyOf(l, job.tokens[i])' = KeyOf(l, job.tokens[i])
      BY <1>1, <1>4
    <3>2. ValueOf(l, job.tokens[i])' = ValueOf(l, job.tokens[i])
      BY <1>1, <1>4
    <3>. QED BY <1>1, <1>5, <2>1, <3>1, <3>2 DEF AtRow, BatchState
  <2>3. 15 \in 1 .. 25
    OBVIOUS
  <2>4. AtRow(l, i, m)'
    BY <1>1, <1>5, <1>6, <1>7, <2>1, <2>2, <2>3 DEF AtRow
  <2>. QED BY <1>4, <2>4, Zenon DEF PassState
<1>11. CASE \E e \in 1 .. 4 : AtEnd(e)
  <2>1. PICK e \in 1 .. 4 : AtEnd(e)
    BY <1>11
  <2>2. Running' = Running
    BY <1>1 DEF Running
  <2>3. [i \in Rows |-> NormOf(0, "norm", Hidden(NumLayers, job.tokens[i]))]' =
          [i \in Rows |-> NormOf(0, "norm", Hidden(NumLayers, job.tokens[i]))]
    BY <1>1, <1>4 DEF NormOf
  <2>4. [i \in Rows |-> LogitsOf(job.tokens[i])]' = [i \in Rows |-> LogitsOf(job.tokens[i])]
    BY <1>1, <1>4
  <2>5. AtEnd(e)'
    BY <1>1, <1>4, <1>5, <1>6, <2>1, <2>2, <2>3, <2>4 DEF AtEnd
  <2>. QED BY <2>5, Zenon DEF PassState
<1>. QED BY <1>2, <1>8, <1>9, <1>10, <1>11 DEF PassState

(* A step that changes nothing keeps the invariant.                        *)
LEMMA StillStep ==
  ASSUME ModelInv, UNCHANGED <<loadingVars, forwardVars>>
  PROVE  ModelInv'
<1>1. /\ current_len' = current_len /\ capacity' = capacity /\ layers' = layers
      /\ pass' = pass /\ fed' = fed /\ passes' = passes
      /\ pool' = pool /\ cached' = cached /\ mode' = mode /\ job' = job /\ buf' = buf
      /\ mem' = mem /\ UNCHANGED vars
  BY DEF forwardVars, kvVars, pagedVars, loadingVars, vars
<1>2. LoadInv /\ CacheInv /\ PoolTypes /\ PoolHolds /\ ModeAgrees
  BY DEF ModelInv
<1>3. CacheInv'
  <2>1. [CacheNext]_cacheVars
    BY <1>1 DEF cacheVars
  <2>. QED BY <1>2, <2>1, CacheNextKeeps
<1>4. PoolTypes'
  BY <1>1, <1>2 DEF PoolTypes
<1>5. PoolHolds'
  BY <1>1, <1>2 DEF PoolHolds
<1>6. Running' = Running /\ Passing' = Passing
  BY <1>1 DEF Running, Passing
<1>7. ModeAgrees'
  BY <1>1, <1>2, <1>6 DEF ModeAgrees
<1>8. LoadInv' /\ outcome' = outcome
  <2>1. outcome' = outcome
    BY <1>1 DEF vars
  <2>. QED BY <1>1, <1>2, <2>1, LoadNext
<1>9. CASE ~ Passing
  <2>1. job = NoJob /\ ~ Running
    BY <1>9 DEF ModelInv
  <2>. QED BY <1>1, <1>3, <1>4, <1>5, <1>6, <1>7, <1>8, <1>9, <2>1 DEF ModelInv, NoJob
<1>10. CASE Passing
  <2>1. /\ outcome = "ready" /\ passes > 0 /\ mode # "unset"
        /\ JobTypes /\ JobFits /\ JobPast /\ NormsFit
    BY <1>10 DEF ModelInv
  <2>2. JobTypes'
    BY <1>1, <2>1 DEF JobTypes
  <2>3. JobFits'
    BY <1>1, <2>1 DEF JobFits
  <2>4. JobPast'
    BY <1>1, <1>6, <2>1 DEF JobPast, Rows
  <2>5. NormsFit'
    <3>1. Program' = Program
      BY <1>1 DEF Program
    <3>2. \A op : Fits(op)' = Fits(op)
      BY <1>1 DEF Fits
    <3>. QED BY <1>1, <2>1, <3>1, <3>2 DEF NormsFit
  <2>6. PassState'
    BY <1>10, StillPasses
  <2>. QED BY <1>1, <1>3, <1>4, <1>5, <1>6, <1>7, <1>8, <1>10, <2>1, <2>2, <2>3, <2>4, <2>5,
              <2>6 DEF ModelInv
<1>. QED BY <1>9, <1>10

(* The invariant of the forward passes holds at first and from step to     *)
(* step.                                                                   *)
LEMMA ModelInitInv == ForwardInit => ModelInv
<1> SUFFICES ASSUME ForwardInit PROVE ModelInv
  OBVIOUS
<1>1. /\ Init /\ CacheInit
      /\ pool = [r \in Requests |-> [l \in 1 .. NumLayers |-> [p \in 1 .. MaxTokens |-> Unwritten]]]
      /\ cached = [r \in Requests |-> << >>]
      /\ mode = "unset" /\ job = NoJob
  BY DEF ForwardInit
<1>2. LoadInv /\ CacheInv
  BY <1>1, LoadInit, CacheInitInv
<1>3. ~ Running /\ fed = << >>
  BY <1>1 DEF CacheInit, Running
<1>4. PoolTypes
  <2>1. << >> \in Seq(Tags) /\ Len(<< >>) = 0 /\ MaxTokens \in Nat
    OBVIOUS
  <2>. QED BY <1>1, <2>1 DEF PoolTypes
<1>5. PoolHolds
  <2>1. \A r \in Requests : DOMAIN cached[r] = {}
    BY <1>1
  <2>. QED BY <2>1 DEF PoolHolds
<1>6. ModeAgrees
  BY <1>1, <1>3 DEF ModeAgrees
<1>7. ~ Passing
  BY <1>1 DEF Passing, NoJob
<1>. QED BY <1>1, <1>2, <1>3, <1>4, <1>5, <1>6, <1>7 DEF ModelInv

(* Every step keeps the invariant.                                         *)
LEMMA ModelNextKeeps ==
  ModelInv /\ [ForwardNext]_<<loadingVars, forwardVars>> => ModelInv'
<1> SUFFICES ASSUME ModelInv, [ForwardNext]_<<loadingVars, forwardVars>> PROVE ModelInv'
  OBVIOUS
<1>1. CASE passes = 0 /\ Next /\ UNCHANGED forwardVars
  BY <1>1, LoadingStep
<1>2. CASE \E r \in Requests, n \in PassLens, m \in CacheModes : Begin(r, n, m)
  BY <1>2, BeginStep
<1>3. CASE \E b \in 1 .. Cardinality(Requests) : \E of \in [1 .. b -> Requests] :
             IsInjective(of) /\ BeginBatch(of)
  BY <1>3, BeginBatchStep
<1>4. CASE Locals
  BY <1>4, LocalsStep
<1>5. CASE Compute
  BY <1>5, ComputeStep
<1>6. CASE CopyRow
  BY <1>6, CopyStep
<1>7. CASE UpdateLayer
  BY <1>7, UpdateStep
<1>8. CASE AdvanceCache
  BY <1>8, AdvanceStep
<1>9. CASE Return
  BY <1>9, ReturnStep
<1>10. CASE Throw
  BY <1>10, ThrowStep
<1>11. CASE UNCHANGED <<loadingVars, forwardVars>>
  BY <1>11, StillStep
<1>. QED BY <1>1, <1>2, <1>3, <1>4, <1>5, <1>6, <1>7, <1>8, <1>9, <1>10, <1>11 DEF ForwardNext

(* A pass is always somewhere in its program, with every tensor that is    *)
(* still to be read holding what the operations before it make, every layer*)
(* of the caches holding the keys and values of the tokens counted and, for*)
(* the layers behind it, of those the pass feeds.                          *)
THEOREM ModelSpecInv == ForwardSpec => []ModelInv
<1>. QED BY ModelInitInv, ModelNextKeeps, PTL DEF ForwardSpec

(* Both caches hold, in every layer, the keys and values of the tokens     *)
(* they count, computed by that layer, over whichever cache, in batches or *)
(* not, and whatever passes threw in between.                              *)
THEOREM CachesAlwaysHold == ForwardSpec => []CachesHold
<1>1. ModelInv => CachesHold
  BY DEF ModelInv, CacheInv, PoolHolds, CachesHold
<1>. QED BY <1>1, ModelSpecInv, PTL

-----------------------------------------------------------------------------
(* Widths: a weight of its own shape fits where it is used.                *)
LEMMA LinearFits ==
  ASSUME NEW l, NEW part, NEW in, NEW out
  PROVE  Fits(Linear(l, part, in, out)) <=>
           mem.obj[Slot(<<l, part>>)].shape = <<Width(out), Width(in)>>
BY DEF Fits, Linear, Op

(* Likewise of the weight of a norm, a vector of the width it scales.      *)
LEMMA NormFits ==
  ASSUME NEW l, NEW part, NEW in, NEW out
  PROVE  Fits(RMSNorm(l, part, in, out)) <=> mem.obj[Slot(<<l, part>>)].shape = <<Width(in)>>
BY DEF Fits, RMSNorm, Op

(* The shape each weight should have.                                      *)
LEMMA ShapesAre ==
  ASSUME NEW l
  PROVE  /\ Shape(<<l, "embed_tokens">>) = <<VocabSize, HiddenSize>>
         /\ Shape(<<l, "lm_head">>) = <<VocabSize, HiddenSize>>
         /\ Shape(<<l, "norm">>) = <<HiddenSize>>
         /\ Shape(<<l, "input_layernorm">>) = <<HiddenSize>>
         /\ Shape(<<l, "post_attention_layernorm">>) = <<HiddenSize>>
         /\ Shape(<<l, "q_norm">>) = <<HeadDim>> /\ Shape(<<l, "k_norm">>) = <<HeadDim>>
         /\ Shape(<<l, "q_proj">>) = <<QSize, HiddenSize>>
         /\ Shape(<<l, "k_proj">>) = <<KvSize, HiddenSize>>
         /\ Shape(<<l, "v_proj">>) = <<KvSize, HiddenSize>>
         /\ Shape(<<l, "o_proj">>) = <<HiddenSize, QSize>>
         /\ Shape(<<l, "gate_proj">>) = <<IntermediateSize, HiddenSize>>
         /\ Shape(<<l, "up_proj">>) = <<IntermediateSize, HiddenSize>>
         /\ Shape(<<l, "down_proj">>) = <<HiddenSize, IntermediateSize>>
BY DEF Shape, LayerNorms

(* The widths of the tensors of a pass.                                    *)
LEMMA WidthsAre ==
  /\ Width("q_flat") = QSize /\ Width("attn_out_flat") = QSize
  /\ Width("k_flat") = KvSize /\ Width("v_flat") = KvSize
  /\ Width("q_2d") = HeadDim /\ Width("k_2d") = HeadDim
  /\ Width("gate") = IntermediateSize /\ Width("up") = IntermediateSize
  /\ Width("act") = IntermediateSize /\ Width("logits") = VocabSize
  /\ Width("normed_1") = HiddenSize /\ Width("normed_2") = HiddenSize
  /\ Width("attn_out") = HiddenSize /\ Width("mlp_out") = HiddenSize
  /\ Width("residual_after_attn") = HiddenSize /\ Width("hidden_states") = HiddenSize
  /\ Width("hidden_a") = HiddenSize /\ Width("hidden_b") = HiddenSize
  /\ \A l : Width(Current(l)) = HiddenSize
<1>1. /\ Width("q_flat") = QSize /\ Width("attn_out_flat") = QSize
      /\ Width("k_flat") = KvSize /\ Width("v_flat") = KvSize
      /\ Width("q_2d") = HeadDim /\ Width("k_2d") = HeadDim
      /\ Width("gate") = IntermediateSize /\ Width("up") = IntermediateSize
      /\ Width("act") = IntermediateSize /\ Width("logits") = VocabSize
  BY DEF Width
<1>2. /\ Width("normed_1") = HiddenSize /\ Width("normed_2") = HiddenSize
      /\ Width("attn_out") = HiddenSize /\ Width("mlp_out") = HiddenSize
      /\ Width("residual_after_attn") = HiddenSize /\ Width("hidden_states") = HiddenSize
      /\ Width("hidden_a") = HiddenSize /\ Width("hidden_b") = HiddenSize
  BY DEF Width
<1>3. \A l : Current(l) = "hidden_a" \/ Current(l) = "hidden_b"
  BY DEF Current
<1>. QED BY <1>1, <1>2, <1>3

(* What loading leaves in the layers.                                      *)
LEMMA LoadedShapes ==
  ASSUME ModelInv, Passing, NEW n \in NameSet, n[2] \notin LayerNorms
  PROVE  mem.obj[Slot(n)].shape = Shape(n)
<1>1. Fit({n})
  BY DEF ModelInv, LoadInv, AfterLoad
<1>. QED BY <1>1 DEF Fit

(* No weight of its own shape stops a pass.                                *)
LEMMA FittingFits ==
  ASSUME ModelInv, Passing, job.at <= Len(Program), Instruction.w # << >>,
         \A n \in NameSet : mem.obj[Slot(n)].shape = Shape(n)
  PROVE  Fits(Instruction)
<1>1. JobTypes /\ JobFits /\ PassState
  BY DEF ModelInv
<1>2. /\ mem.obj[Slot(<<0, "embed_tokens">>)].shape = <<VocabSize, HiddenSize>>
      /\ mem.obj[Slot(<<0, "norm">>)].shape = <<HiddenSize>>
      /\ mem.obj[Slot(<<0, "lm_head">>)].shape = <<VocabSize, HiddenSize>>
  <2>1. <<0, "embed_tokens">> \in NameSet
    BY DEF NameSet
  <2>2. <<0, "norm">> \in NameSet
    BY DEF NameSet
  <2>3. <<0, "lm_head">> \in NameSet
    BY DEF NameSet
  <2>4. /\ mem.obj[Slot(<<0, "embed_tokens">>)].shape = Shape(<<0, "embed_tokens">>)
        /\ mem.obj[Slot(<<0, "norm">>)].shape = Shape(<<0, "norm">>)
        /\ mem.obj[Slot(<<0, "lm_head">>)].shape = Shape(<<0, "lm_head">>)
    BY <2>1, <2>2, <2>3, Zenon
  <2>5. /\ Shape(<<0, "embed_tokens">>) = <<VocabSize, HiddenSize>>
        /\ Shape(<<0, "norm">>) = <<HiddenSize>>
        /\ Shape(<<0, "lm_head">>) = <<VocabSize, HiddenSize>>
    BY ShapesAre, Zenon
  <2>. QED BY <2>4, <2>5, Zenon
<1>3. CASE AtStart
  <2>1. Instruction = FirstOp
    BY <1>1, <1>3, Here, Zenon
  <2> DEFINE shape == mem.obj[Slot(<<0, "embed_tokens">>)].shape
  <2>2. Fits(FirstOp) <=> shape[2] = Width("hidden_a")
    BY DEF Fits, FirstOp, Op
  <2> HIDE DEF shape
  <2>3. shape = <<VocabSize, HiddenSize>>
    BY <1>2 DEF shape
  <2>. QED BY <2>1, <2>2, <2>3, WidthsAre
<1>4. ASSUME NEW l \in 1 .. NumLayers, NEW s \in 1 .. 25, AtStage(l, s)
      PROVE  Fits(Instruction)
  <2> DEFINE sh(part) == mem.obj[Slot(<<l, part>>)].shape
  <2>1. Instruction = StageOp(l, s)
    BY <1>1, <1>4, Here, Zenon
  <2>2. \A part \in Parts : sh(part) = Shape(<<l, part>>)
    <3>1. ASSUME NEW part \in Parts PROVE <<l, part>> \in NameSet
      BY Qwen3ForwardAssumption DEF NameSet
    <3>. QED BY <3>1
  <2>3. /\ sh("input_layernorm") = <<HiddenSize>> /\ sh("post_attention_layernorm") = <<HiddenSize>>
        /\ sh("q_norm") = <<HeadDim>> /\ sh("k_norm") = <<HeadDim>>
        /\ sh("q_proj") = <<QSize, HiddenSize>> /\ sh("k_proj") = <<KvSize, HiddenSize>>
        /\ sh("v_proj") = <<KvSize, HiddenSize>> /\ sh("o_proj") = <<HiddenSize, QSize>>
        /\ sh("gate_proj") = <<IntermediateSize, HiddenSize>>
        /\ sh("up_proj") = <<IntermediateSize, HiddenSize>>
        /\ sh("down_proj") = <<HiddenSize, IntermediateSize>>
    <3> HIDE DEF sh
    <3>. QED BY <2>2, ShapesAre DEF Parts
  <2>4. /\ Fits(RMSNorm(l, "input_layernorm", Current(l), "normed_1"))
        /\ Fits(Linear(l, "q_proj", "normed_1", "q_flat"))
        /\ Fits(Linear(l, "k_proj", "normed_1", "k_flat"))
        /\ Fits(Linear(l, "v_proj", "normed_1", "v_flat"))
        /\ Fits(RMSNorm(l, "q_norm", "q_2d", "q_normed_2d"))
        /\ Fits(RMSNorm(l, "k_norm", "k_2d", "k_normed_2d"))
        /\ Fits(Linear(l, "o_proj", "attn_out_flat", "attn_out"))
        /\ Fits(RMSNorm(l, "post_attention_layernorm", "residual_after_attn", "normed_2"))
        /\ Fits(Linear(l, "gate_proj", "normed_2", "gate"))
        /\ Fits(Linear(l, "up_proj", "normed_2", "up"))
        /\ Fits(Linear(l, "down_proj", "act", "mlp_out"))
    <3>1. ASSUME NEW part, NEW in, NEW out, sh(part) = <<Width(in)>>
          PROVE  Fits(RMSNorm(l, part, in, out))
      BY <3>1, NormFits, Zenon
    <3>2. ASSUME NEW part, NEW in, NEW out, sh(part) = <<Width(out), Width(in)>>
          PROVE  Fits(Linear(l, part, in, out))
      BY <3>2, LinearFits, Zenon
    <3>3. /\ sh("input_layernorm") = <<Width(Current(l))>>
          /\ sh("post_attention_layernorm") = <<Width("residual_after_attn")>>
          /\ sh("q_norm") = <<Width("q_2d")>> /\ sh("k_norm") = <<Width("k_2d")>>
      <4> HIDE DEF sh
      <4>. QED BY <2>3, WidthsAre
    <3>4. /\ sh("q_proj") = <<Width("q_flat"), Width("normed_1")>>
          /\ sh("k_proj") = <<Width("k_flat"), Width("normed_1")>>
          /\ sh("v_proj") = <<Width("v_flat"), Width("normed_1")>>
          /\ sh("o_proj") = <<Width("attn_out"), Width("attn_out_flat")>>
          /\ sh("gate_proj") = <<Width("gate"), Width("normed_2")>>
          /\ sh("up_proj") = <<Width("up"), Width("normed_2")>>
          /\ sh("down_proj") = <<Width("mlp_out"), Width("act")>>
      <4> HIDE DEF sh
      <4>. QED BY <2>3, WidthsAre
    <3> HIDE DEF sh
    <3>5. /\ Fits(RMSNorm(l, "input_layernorm", Current(l), "normed_1"))
          /\ Fits(RMSNorm(l, "q_norm", "q_2d", "q_normed_2d"))
          /\ Fits(RMSNorm(l, "k_norm", "k_2d", "k_normed_2d"))
          /\ Fits(RMSNorm(l, "post_attention_layernorm", "residual_after_attn", "normed_2"))
      BY <3>1, <3>3, Zenon
    <3>6. /\ Fits(Linear(l, "q_proj", "normed_1", "q_flat"))
          /\ Fits(Linear(l, "k_proj", "normed_1", "k_flat"))
          /\ Fits(Linear(l, "v_proj", "normed_1", "v_flat"))
          /\ Fits(Linear(l, "o_proj", "attn_out_flat", "attn_out"))
          /\ Fits(Linear(l, "gate_proj", "normed_2", "gate"))
          /\ Fits(Linear(l, "up_proj", "normed_2", "up"))
          /\ Fits(Linear(l, "down_proj", "act", "mlp_out"))
      BY <3>2, <3>4, Zenon
    <3>. QED BY <3>5, <3>6, Zenon
  <2>5. /\ StageOp(l, 1).w = << >> /\ StageOp(l, 6).w = << >> /\ StageOp(l, 7).w = << >>
        /\ StageOp(l, 10).w = << >> /\ StageOp(l, 11).w = << >> /\ StageOp(l, 12).w = << >>
        /\ StageOp(l, 13).w = << >> /\ StageOp(l, 14).w = << >> /\ StageOp(l, 15).w = << >>
        /\ StageOp(l, 16).w = << >> /\ StageOp(l, 17).w = << >> /\ StageOp(l, 19).w = << >>
        /\ StageOp(l, 23).w = << >> /\ StageOp(l, 25).w = << >>
    BY StageIs DEF Copy, Rotary, Attend, Add, Act, UpdateOp, Op
  <2>6. s \in {2, 3, 4, 5, 8, 9, 18, 20, 21, 22, 24}
    <3>1. \/ s \in {2, 3, 4, 5, 8, 9, 18, 20, 21, 22, 24}
          \/ s \in {1, 6, 7, 10, 11, 12, 13, 14, 15, 16, 17, 19, 23, 25}
      OBVIOUS
    <3>2. StageOp(l, s).w # << >>
      BY <2>1
    <3>. QED BY <2>5, <3>1, <3>2
  <2>7. /\ StageOp(l, 2) = RMSNorm(l, "input_layernorm", Current(l), "normed_1")
        /\ StageOp(l, 3) = Linear(l, "q_proj", "normed_1", "q_flat")
        /\ StageOp(l, 4) = Linear(l, "k_proj", "normed_1", "k_flat")
        /\ StageOp(l, 5) = Linear(l, "v_proj", "normed_1", "v_flat")
        /\ StageOp(l, 8) = RMSNorm(l, "q_norm", "q_2d", "q_normed_2d")
        /\ StageOp(l, 9) = RMSNorm(l, "k_norm", "k_2d", "k_normed_2d")
        /\ StageOp(l, 18) = Linear(l, "o_proj", "attn_out_flat", "attn_out")
        /\ StageOp(l, 20) =
             RMSNorm(l, "post_attention_layernorm", "residual_after_attn", "normed_2")
        /\ StageOp(l, 21) = Linear(l, "gate_proj", "normed_2", "gate")
        /\ StageOp(l, 22) = Linear(l, "up_proj", "normed_2", "up")
        /\ StageOp(l, 24) = Linear(l, "down_proj", "act", "mlp_out")
    BY StageIs, Zenon
  <2>8. /\ Fits(StageOp(l, 2)) /\ Fits(StageOp(l, 3)) /\ Fits(StageOp(l, 4))
        /\ Fits(StageOp(l, 5)) /\ Fits(StageOp(l, 8)) /\ Fits(StageOp(l, 9))
        /\ Fits(StageOp(l, 18)) /\ Fits(StageOp(l, 20)) /\ Fits(StageOp(l, 21))
        /\ Fits(StageOp(l, 22)) /\ Fits(StageOp(l, 24))
    BY <2>4, <2>7
  <2>9. Fits(StageOp(l, s))
    BY <2>6, <2>8
  <2>. QED BY <2>1, <2>9
<1>5. ASSUME NEW l \in 1 .. NumLayers, NEW i \in Rows, NEW m \in 1 .. 3, AtRow(l, i, m)
      PROVE  FALSE
  <2>1. Instruction = BatchOp(l, i, m)
    BY <1>1, <1>5, Here, Zenon
  <2>2. /\ BatchOp(l, i, 1).w = << >> /\ BatchOp(l, i, 2).w = << >> /\ BatchOp(l, i, 3).w = << >>
    BY DEF BatchOp, OfRow, Op
  <2>3. m = 1 \/ m = 2 \/ m = 3
    OBVIOUS
  <2>4. BatchOp(l, i, m).w = << >>
    BY <2>2, <2>3
  <2>. QED BY <2>1, <2>4
<1>6. ASSUME NEW e \in 1 .. 4, AtEnd(e) PROVE Fits(Instruction)
  <2>1. e # 4
    <3>1. job.at \in Nat /\ Len(Program) \in Nat
      BY <1>1, Here DEF JobTypes
    <3>. QED BY <1>1, <1>6, <3>1, Here
  <2>2. e \in 1 .. 3
    BY <2>1
  <2>3. Instruction = EndOp(e)
    BY <1>1, <1>6, <2>2, Here, Zenon
  <2>4. EndOp(1).w = << >>
    BY DEF EndOp, Op
  <2>5. e = 2 \/ e = 3
    <3>1. e = 1 \/ e = 2 \/ e = 3
      BY <2>2
    <3>. QED BY <2>3, <2>4, <3>1
  <2>6. EndOp(2) = RMSNorm(0, "norm", Current(NumLayers + 1), "hidden_states")
    BY DEF EndOp
  <2>7. EndOp(3) = Linear(0, "lm_head", "hidden_states", "logits")
    BY DEF EndOp
  <2>8. Fits(EndOp(2)) /\ Fits(EndOp(3))
    BY <1>2, <2>6, <2>7, LinearFits, NormFits, WidthsAre
  <2>. QED BY <2>3, <2>5, <2>8
<1>. QED BY <1>1, <1>3, <1>4, <1>5, <1>6 DEF PassState

(* A pass that got to its end has found every weight in its shape.         *)
LEMMA EndFits ==
  ASSUME ModelInv, Passing, AtEnd(4), NEW n \in NameSet
  PROVE  mem.obj[Slot(n)].shape = Shape(n)
<1>1. JobTypes /\ JobFits /\ NormsFit
  BY DEF ModelInv
<1>2. CASE n[2] \notin LayerNorms
  BY <1>2, LoadedShapes
<1>3. CASE n[2] \in LayerNorms
  <2>1. PICK l \in 1 .. NumLayers, part \in Parts : n = <<l, part>>
    <3>1. n \notin {<<0, "embed_tokens">>, <<0, "norm">>, <<0, "lm_head">>}
      BY <1>3 DEF LayerNorms
    <3>. QED BY <3>1, Qwen3ForwardAssumption DEF NameSet
  <2>2. part = "input_layernorm" \/ part = "post_attention_layernorm"
    BY <1>3, <2>1 DEF LayerNorms
  <2>3. ASSUME NEW s \in {2, 20} PROVE Fits(StageOp(l, s))
    <3> DEFINE p == At(l, Place(s))
    <3>1. Place(s) \in 1 .. LayerLength
      <4>1. s \in 1 .. 25
        OBVIOUS
      <4>. QED BY <1>1, <4>1, Places
    <3>2. ProgramLaid /\ s \in 1 .. 25 /\ s # 15
      BY <1>1, ProgramIs
    <3>3. Program[p] = StageOp(l, s)
      BY <3>2 DEF ProgramLaid
    <3>4. p \in Nat \ {0} /\ p < At(NumLayers + 1, 1)
      <4>1. Place(s) \in Nat /\ l \in 1 .. NumLayers + 1
        BY <3>1, <1>1, Lengths
      <4>. QED BY <1>1, <3>1, <4>1, Positions
    <3>5. job.at = At(NumLayers + 1, 1) + 3 /\ At(NumLayers + 1, 1) \in Nat
      <4> DEFINE k == NumLayers + 1
      <4>1. k \in 1 .. NumLayers + 1
        OBVIOUS
      <4>2. job.at = At(k, 4)
        BY DEF AtEnd
      <4>3. \A j \in Nat : At(k, j) \in Nat \ {0} /\ At(k, j) + 1 = At(k, j + 1)
        BY <1>1, <4>1, Positions
      <4> HIDE DEF k
      <4>4. At(k, 1) \in Nat /\ At(k, 1) + 1 = At(k, 2)
        <5>1. 1 \in Nat /\ 1 + 1 = 2
          OBVIOUS
        <5>. QED BY <4>3, <5>1
      <4>5. At(k, 2) + 1 = At(k, 3)
        <5>1. 2 \in Nat /\ 2 + 1 = 3
          OBVIOUS
        <5>. QED BY <4>3, <5>1
      <4>6. At(k, 3) + 1 = At(k, 4)
        <5>1. 3 \in Nat /\ 3 + 1 = 4
          OBVIOUS
        <5>. QED BY <4>3, <5>1
      <4>7. job.at = At(k, 1) + 3
        BY <4>2, <4>4, <4>5, <4>6
      <4>. QED BY <4>4, <4>7 DEF k
    <3> HIDE DEF p
    <3>6. p \in 1 .. (job.at - 1)
      BY <3>4, <3>5
    <3>7. StageOp(l, 2).op = "rms_norm" /\ StageOp(l, 20).op = "rms_norm"
      BY StageIs DEF RMSNorm, Op
    <3>8. Program[p].op = "rms_norm"
      BY <3>3, <3>7
    <3>. QED BY <1>1, <3>3, <3>6, <3>8 DEF NormsFit
  <2>4. /\ Fits(RMSNorm(l, "input_layernorm", Current(l), "normed_1"))
        /\ Fits(RMSNorm(l, "post_attention_layernorm", "residual_after_attn", "normed_2"))
    <3>1. Fits(StageOp(l, 2)) /\ Fits(StageOp(l, 20))
      BY <2>3
    <3>2. /\ StageOp(l, 2) = RMSNorm(l, "input_layernorm", Current(l), "normed_1")
          /\ StageOp(l, 20) =
               RMSNorm(l, "post_attention_layernorm", "residual_after_attn", "normed_2")
      BY StageIs, Zenon
    <3>. QED BY <3>1, <3>2
  <2>5. /\ mem.obj[Slot(<<l, "input_layernorm">>)].shape = <<HiddenSize>>
        /\ mem.obj[Slot(<<l, "post_attention_layernorm">>)].shape = <<HiddenSize>>
    <3>1. Width(Current(l)) = HiddenSize /\ Width("residual_after_attn") = HiddenSize
      BY WidthsAre
    <3>. QED BY <2>4, <3>1, NormFits
  <2>6. /\ Shape(<<l, "input_layernorm">>) = <<HiddenSize>>
        /\ Shape(<<l, "post_attention_layernorm">>) = <<HiddenSize>>
    BY ShapesAre
  <2>. QED BY <2>1, <2>2, <2>5, <2>6
<1>. QED BY <1>2, <1>3

(* A pass that gets to its end has computed, for every row, the logits of  *)
(* that row's token over the context that the caches and the pass give it; *)
(* no weight of another width gets an answer out of a pass, and weights of *)
(* the right widths are never refused.                                     *)
THEOREM PassesCompute == ForwardSpec => []ForwardComputes
<1>1. ModelInv => ForwardComputes
  <2> SUFFICES ASSUME ModelInv, Passing PROVE ForwardComputes
    BY DEF ForwardComputes
  <2> DEFINE fitting == \A n \in Range(Names) : mem.obj[Slot(n)].shape = Shape(n)
  <2>1. Range(Names) = NameSet
    BY NamesOnce
  <2>2. JobTypes /\ JobFits
    BY DEF ModelInv
  <2>3. ASSUME job.at > Len(Program)
        PROVE  fitting /\ \A i \in Rows : buf["logits"][i] = LogitsOf(job.tokens[i])
    <3>1. AtEnd(4)
      BY <2>3, Standing
    <3>2. fitting
      BY <2>1, <3>1, EndFits
    <3>3. buf["logits"] = [i \in Rows |-> LogitsOf(job.tokens[i])]
      BY <3>1 DEF AtEnd
    <3>. QED BY <3>2, <3>3
  <2>4. ASSUME ~ job.at > Len(Program), fitting, Instruction.w # << >> PROVE Fits(Instruction)
    <3>1. job.at <= Len(Program)
      <4>1. job.at \in Nat /\ Len(Program) \in Nat
        BY <2>2, Here DEF JobTypes
      <4>. QED BY <2>4, <4>1
    <3>. QED BY <2>1, <2>4, <3>1, FittingFits
  <2> HIDE DEF fitting
  <2>5. IF job.at > Len(Program)
        THEN fitting /\ \A i \in Rows : buf["logits"][i] = LogitsOf(job.tokens[i])
        ELSE fitting /\ Instruction.w # << >> => Fits(Instruction)
    BY <2>3, <2>4
  <2>. QED BY <2>5 DEF ForwardComputes, fitting
<1>. QED BY <1>1, ModelSpecInv, PTL
=============================================================================
