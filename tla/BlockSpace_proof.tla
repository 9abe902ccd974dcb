-------------------------- MODULE BlockSpace_proof --------------------------
(***************************************************************************)
(* Proofs about BlockSpace, for any number of threads, any mempool and any *)
(* block size.                                                             *)
(***************************************************************************)
EXTENDS BlockSpace, Counting_proof

\* Ranges that share no chunk.
Apart(r, s) == r[2] < s[1] \/ s[2] < r[1]

\* A chunk that a range does not hold any more.
Outside(c, r) == c < r[1] \/ r[2] < c

(***************************************************************************)
(* The inductive invariant.                                                *)
(***************************************************************************)
\* A worker inside operator() has a range with a chunk left, and holds space
\* for a part of that chunk; one that is about to give back some holds it for
\* the whole chunk.
WorkersInStep ==
  \A w \in Worker :
    /\ pc[w] # "idle" => range[w][1] <= range[w][2]
    /\ pc[w] = "give_back" => /\ chunk_sz[w] = chunk_size[At(w)]
                              /\ remaining_space[w] < chunk_sz[w]
    /\ pc[w] = "process" => chunk_sz[w] \in 0 .. chunk_size[At(w)]

\* No chunk is handed out twice, and none of those still to come is in the
\* block already.
RangesApart ==
  /\ \A r \in pending : r[1] <= r[2]
  /\ \A r, s \in pending : r # s => Apart(r, s)
  /\ \A r \in pending, w \in Worker : pc[w] # "idle" => Apart(r, range[w])
  /\ \A v, w \in Worker : v # w /\ pc[v] # "idle" /\ pc[w] # "idle" => Apart(range[v], range[w])
  /\ \A c \in Chunk : included[c] # {} =>
       /\ \A r \in pending : Outside(c, r)
       /\ \A w \in Worker : pc[w] # "idle" => Outside(c, range[w])

\* The units that a worker has taken although the counter did not have them.
Excess ==
  [w \in Worker |-> IF pc[w] = "give_back"
                    THEN {i \in 1 .. chunk_sz[w] : i > remaining_space[w]} ELSE {}]

\* There are finitely many of everything.
Counted == IsFiniteSet(Cells(Held)) /\ IsFiniteSet(Cells(included)) /\ IsFiniteSet(Cells(Excess))

Accounted ==
  remaining_block_space + total_block_size + Cardinality(Cells(Held)) = max_block_size + over_returned

\* As long as no overdraft has been returned twice, the counter is below zero
\* by no more than what its readers are about to give back.
NeverShort == over_returned = 0 => remaining_block_space + Cardinality(Cells(Excess)) >= 0

SpaceInv ==
  TypeOK /\ WorkersInStep /\ RangesApart /\ Counted /\ Accounted /\ NeverShort /\ BlockIsFlagged

-----------------------------------------------------------------------------
(* Numbers.                                                                *)

\* The part of 1 .. n above m.
LEMMA Above ==
  ASSUME NEW n \in Nat, NEW m \in Int, m < n, NEW S, S = {i \in 1 .. n : i > m}
  PROVE  IsFiniteSet(S) /\ Cardinality(S) = IF m < 0 THEN n ELSE n - m
<1>1. CASE m < 0
  <2>1. S = 1 .. n
    BY <1>1
  <2>2. IsFiniteSet(S) /\ Cardinality(S) = n
    BY <2>1, SizeUpTo
  <2> QED
    BY <1>1, <2>2
<1>2. CASE m >= 0
  <2>1. S = m + 1 .. n
    BY <1>2
  <2>2. m + 1 \in Int /\ n \in Int /\ ~(m + 1 > n)
    OBVIOUS
  <2>3. IsFiniteSet(S) /\ Cardinality(S) = n - (m + 1) + 1
    BY <2>1, <2>2, FS_Interval
  <2> QED
    BY <1>2, <2>3
<1> QED
  BY <1>1, <1>2

\* The larger of 0 and k.
LEMMA MaxZero ==
  ASSUME NEW k \in Int
  PROVE  Max({0, k}) = IF k > 0 THEN k ELSE 0
<1>1. \E x \in {0, k} : \A y \in {0, k} : x >= y
  OBVIOUS
<1>2. Max({0, k}) \in {0, k} /\ \A y \in {0, k} : Max({0, k}) >= y
  BY <1>1 DEF Max
<1> QED
  BY <1>2

-----------------------------------------------------------------------------
(* The steps.                                                              *)

\* The chunks are numbered from 1.
LEMMA ChunkNumbers ==
  ASSUME chunk_size \in ChunkSizes
  PROVE  /\ chunk_size \in Seq(Nat) /\ Chunk = 1 .. Len(chunk_size) /\ Len(chunk_size) \in Nat
         /\ Cardinality(DOMAIN chunk_size) = Len(chunk_size)
         /\ \A c \in Chunk : chunk_size[c] \in Nat
<1>1. chunk_size \in Seq(Nat)
  BY SpaceAssumption
<1>2. Chunk = 1 .. Len(chunk_size) /\ Len(chunk_size) \in Nat
  BY <1>1 DEF Chunk
<1>3. Cardinality(DOMAIN chunk_size) = Len(chunk_size)
  BY <1>2, SizeUpTo DEF Chunk
<1>4. \A c \in Chunk : chunk_size[c] \in Nat
  BY <1>1, <1>2
<1> QED
  BY <1>1, <1>2, <1>3, <1>4

\* parallel_reduce cuts the mempool into ranges that share nothing.
LEMMA RangesDisjoint ==
  ASSUME NEW n \in Nat, NEW ends \in SUBSET (1 .. n),
         NEW r \in Ranges(n, ends), NEW s \in Ranges(n, ends), r # s
  PROVE  Apart(r, s)
<1>1. /\ r[1] \in 1 .. n /\ r[2] \in 1 .. n /\ r = <<r[1], r[2]>>
      /\ s[1] \in 1 .. n /\ s[2] \in 1 .. n /\ s = <<s[1], s[2]>>
      /\ r[1] <= r[2] /\ s[1] <= s[2]
  BY DEF Ranges
<1>2. SUFFICES ASSUME r[2] >= s[1], s[2] >= r[1] PROVE FALSE
  BY <1>1 DEF Apart
<1>3. r[2] >= s[2]
  <2>1. r[2] \in ends \cup {n} /\ \A e \in ends : e < s[1] \/ e >= s[2]
    BY DEF Ranges
  <2> QED
    BY <1>1, <1>2, <2>1
<1>4. s[2] >= r[2]
  <2>1. s[2] \in ends \cup {n} /\ \A e \in ends : e < r[1] \/ e >= r[2]
    BY DEF Ranges
  <2> QED
    BY <1>1, <1>2, <2>1
<1>5. r[1] <= s[1]
  <2>1. (r[1] = 1 \/ r[1] - 1 \in ends) /\ \A e \in ends : e < s[1] \/ e >= s[2]
    BY DEF Ranges
  <2> QED
    BY <1>1, <1>3, <1>4, <2>1
<1>6. s[1] <= r[1]
  <2>1. (s[1] = 1 \/ s[1] - 1 \in ends) /\ \A e \in ends : e < r[1] \/ e >= r[2]
    BY DEF Ranges
  <2> QED
    BY <1>1, <1>3, <1>4, <2>1
<1> QED
  BY <1>1, <1>3, <1>4, <1>5, <1>6

\* The invariant holds at the start.
LEMMA SpaceStart == Init => SpaceInv
<1> SUFFICES ASSUME Init PROVE SpaceInv
  OBVIOUS
<1> USE DEF Init
<1>1. /\ chunk_size \in ChunkSizes /\ Chunk = 1 .. Len(chunk_size) /\ Len(chunk_size) \in Nat
      /\ Cardinality(DOMAIN chunk_size) = Len(chunk_size)
  BY ChunkNumbers
<1>2. PICK ends \in SUBSET (1 .. Len(chunk_size)) : pending = Ranges(Len(chunk_size), ends)
  BY <1>1 DEF Chunk
<1>3. TypeOK
  <2>1. pending \subseteq Chunk \X Chunk
    BY <1>1, <1>2 DEF Ranges
  <2>2. range \in [Worker -> Nat \X Nat]
    BY DEF NoRange
  <2>3. confirmed \in [Chunk -> SUBSET Nat] /\ included \in [Chunk -> SUBSET Nat]
        /\ \A c \in Chunk : confirmed[c] = {} /\ included[c] = {}
    OBVIOUS
  <2> QED
    BY <1>1, <2>1, <2>2, <2>3, SpaceAssumption DEF TypeOK
<1>4. WorkersInStep
  BY DEF WorkersInStep
<1>5. RangesApart
  <2>1. \A r \in pending : r[1] <= r[2]
    BY <1>2 DEF Ranges
  <2>2. \A r, s \in pending : r # s => Apart(r, s)
    BY <1>1, <1>2, RangesDisjoint
  <2> QED
    BY <2>1, <2>2 DEF RangesApart
<1>6. \A w \in Worker : Held[w] = {} /\ Excess[w] = {}
  BY DEF Held, Excess
<1>7. /\ IsFiniteSet(Cells(Held)) /\ Cardinality(Cells(Held)) = 0
      /\ IsFiniteSet(Cells(Excess)) /\ Cardinality(Cells(Excess)) = 0
      /\ IsFiniteSet(Cells(included)) /\ Cardinality(Cells(included)) = 0
  <2>1. DOMAIN Held = Worker /\ DOMAIN Excess = Worker
    BY DEF Held, Excess
  <2>2. DOMAIN included = Chunk /\ \A c \in Chunk : included[c] = {} /\ confirmed[c] = {}
    OBVIOUS
  <2> QED
    BY <1>6, <2>1, <2>2, CellsEmpty
<1>8. Counted /\ Accounted /\ NeverShort
  BY <1>7, SpaceAssumption DEF Counted, Accounted, NeverShort
<1>9. BlockIsFlagged
  BY <1>7 DEF BlockIsFlagged
<1> QED
  BY <1>3, <1>4, <1>5, <1>8, <1>9 DEF SpaceInv

\* What a worker holds at p with n units, and how much of that is in excess of
\* the m units that it found.
HeldBy(p, n) == IF p \in {"give_back", "process"} THEN n ELSE 0
ShortBy(p, n, m) == IF p = "give_back" THEN (IF m < 0 THEN n ELSE n - m) ELSE 0

LEMMA HeldRow ==
  ASSUME NEW p, NEW n \in Int, p \in {"give_back", "process"} => n \in Nat,
         NEW S, S = IF p \in {"give_back", "process"} THEN 1 .. n ELSE {}
  PROVE  IsFiniteSet(S) /\ Cardinality(S) = HeldBy(p, n)
BY SizeUpTo, FS_EmptySet DEF HeldBy

LEMMA ExcessRow ==
  ASSUME NEW p, NEW n \in Int, NEW m \in Int, p = "give_back" => n \in Nat /\ m < n,
         NEW S, S = IF p = "give_back" THEN {i \in 1 .. n : i > m} ELSE {}
  PROVE  IsFiniteSet(S) /\ Cardinality(S) = ShortBy(p, n, m)
<1>1. CASE p = "give_back"
  BY <1>1, Above DEF ShortBy
<1>2. CASE p # "give_back"
  BY <1>2, FS_EmptySet DEF ShortBy
<1> QED
  BY <1>1, <1>2

PCs == {"idle", "reserve", "give_back", "process"}

\* A step of w changes the units by what w takes or lets go.
LEMMA UnitsMove ==
  ASSUME SpaceInv, NEW w \in Worker, NEW p \in PCs, NEW n \in Int, NEW m \in Int,
         pc' = [pc EXCEPT ![w] = p], chunk_sz' = [chunk_sz EXCEPT ![w] = n],
         remaining_space' = [remaining_space EXCEPT ![w] = m],
         p \in {"give_back", "process"} => n \in Nat, p = "give_back" => m < n
  PROVE  /\ IsFiniteSet(Cells(Held)') /\ IsFiniteSet(Cells(Excess)')
         /\ Cardinality(Cells(Held))' =
              Cardinality(Cells(Held)) - HeldBy(pc[w], chunk_sz[w]) + HeldBy(p, n)
         /\ Cardinality(Cells(Excess))' =
              Cardinality(Cells(Excess)) - ShortBy(pc[w], chunk_sz[w], remaining_space[w])
                + ShortBy(p, n, m)
<1>1. /\ pc \in [Worker -> PCs] /\ chunk_sz \in [Worker -> Int]
      /\ remaining_space \in [Worker -> Int]
  BY DEF SpaceInv, TypeOK, PCs
<1>2. /\ pc[w] \in {"give_back", "process"} => chunk_sz[w] \in Nat
      /\ pc[w] = "give_back" => remaining_space[w] < chunk_sz[w]
  <2>1. pc[w] # "idle" => At(w) \in Chunk /\ chunk_size[At(w)] \in Nat
    BY ChunkNumbers DEF SpaceInv, TypeOK, At
  <2> QED
    BY <2>1 DEF SpaceInv, WorkersInStep
<1>3. PICK h : h = Held
  OBVIOUS
<1>4. PICK g : g = Held'
  OBVIOUS
<1>5. /\ DOMAIN h = Worker /\ DOMAIN g = Worker /\ \A v \in Worker : v # w => g[v] = h[v]
      /\ h[w] = IF pc[w] \in {"give_back", "process"} THEN 1 .. chunk_sz[w] ELSE {}
      /\ g[w] = IF p \in {"give_back", "process"} THEN 1 .. n ELSE {}
  BY <1>1, <1>3, <1>4 DEF Held
<1>6. /\ IsFiniteSet(h[w]) /\ Cardinality(h[w]) = HeldBy(pc[w], chunk_sz[w])
      /\ IsFiniteSet(g[w]) /\ Cardinality(g[w]) = HeldBy(p, n)
  <2>1. IsFiniteSet(h[w]) /\ Cardinality(h[w]) = HeldBy(pc[w], chunk_sz[w])
    BY <1>1, <1>2, <1>5, HeldRow
  <2>2. IsFiniteSet(g[w]) /\ Cardinality(g[w]) = HeldBy(p, n)
    BY <1>5, HeldRow
  <2> QED
    BY <2>1, <2>2
<1>7. /\ IsFiniteSet(Cells(g))
      /\ Cardinality(Cells(g)) =
           Cardinality(Cells(h)) - HeldBy(pc[w], chunk_sz[w]) + HeldBy(p, n)
  <2>1. IsFiniteSet(Cells(h))
    BY <1>3 DEF SpaceInv, Counted
  <2>2. /\ w \in DOMAIN h /\ DOMAIN g = DOMAIN h
        /\ \A v \in DOMAIN h : v # w => g[v] = h[v]
        /\ IsFiniteSet(h[w]) /\ IsFiniteSet(g[w])
    BY <1>5, <1>6
  <2>3. /\ IsFiniteSet(Cells(g))
        /\ Cardinality(Cells(g)) = Cardinality(Cells(h)) - Cardinality(h[w]) + Cardinality(g[w])
    BY <2>1, <2>2, CellsUpdate
  <2> QED
    BY <1>6, <2>3
<1>8. PICK x : x = Excess
  OBVIOUS
<1>9. PICK y : y = Excess'
  OBVIOUS
<1>10. /\ DOMAIN x = Worker /\ DOMAIN y = Worker /\ \A v \in Worker : v # w => y[v] = x[v]
       /\ x[w] = IF pc[w] = "give_back" THEN {i \in 1 .. chunk_sz[w] : i > remaining_space[w]} ELSE {}
       /\ y[w] = IF p = "give_back" THEN {i \in 1 .. n : i > m} ELSE {}
  BY <1>1, <1>8, <1>9 DEF Excess
<1>11. /\ IsFiniteSet(x[w]) /\ Cardinality(x[w]) = ShortBy(pc[w], chunk_sz[w], remaining_space[w])
       /\ IsFiniteSet(y[w]) /\ Cardinality(y[w]) = ShortBy(p, n, m)
  <2>1. IsFiniteSet(x[w]) /\ Cardinality(x[w]) = ShortBy(pc[w], chunk_sz[w], remaining_space[w])
    BY <1>1, <1>2, <1>10, ExcessRow
  <2>2. IsFiniteSet(y[w]) /\ Cardinality(y[w]) = ShortBy(p, n, m)
    BY <1>10, ExcessRow
  <2> QED
    BY <2>1, <2>2
<1>12. /\ IsFiniteSet(Cells(y))
       /\ Cardinality(Cells(y)) =
            Cardinality(Cells(x)) - ShortBy(pc[w], chunk_sz[w], remaining_space[w]) + ShortBy(p, n, m)
  <2>1. IsFiniteSet(Cells(x))
    BY <1>8 DEF SpaceInv, Counted
  <2>2. /\ w \in DOMAIN x /\ DOMAIN y = DOMAIN x
        /\ \A v \in DOMAIN x : v # w => y[v] = x[v]
        /\ IsFiniteSet(x[w]) /\ IsFiniteSet(y[w])
    BY <1>10, <1>11
  <2>3. /\ IsFiniteSet(Cells(y))
        /\ Cardinality(Cells(y)) = Cardinality(Cells(x)) - Cardinality(x[w]) + Cardinality(y[w])
    BY <2>1, <2>2, CellsUpdate
  <2> QED
    BY <1>11, <2>3
<1> QED
  BY <1>3, <1>4, <1>7, <1>8, <1>9, <1>12

\* A range is a pair of numbers.
LEMMA RangeNumbers ==
  ASSUME TypeOK
  PROVE  /\ \A r \in pending : r[1] \in Nat /\ r[2] \in Nat
         /\ \A w \in Worker : range[w][1] \in Nat /\ range[w][2] \in Nat
         /\ Chunk \subseteq Nat
<1>1. chunk_size \in ChunkSizes /\ Chunk = 1 .. Len(chunk_size) /\ Len(chunk_size) \in Nat
  BY ChunkNumbers DEF TypeOK
<1> QED
  BY <1>1 DEF TypeOK

\* A worker that goes on in its range or leaves it lets no chunk be taken twice.
LEMMA RangesShrink ==
  ASSUME SpaceInv, NEW w \in Worker, pc[w] # "idle", UNCHANGED <<pending, chunk_size>>,
         \A v \in Worker : v # w => pc'[v] = pc[v] /\ range'[v] = range[v],
         pc'[w] # "idle" =>
           /\ range'[w][1] \in Nat /\ range'[w][1] >= range[w][1] /\ range'[w][2] = range[w][2],
         \A c \in Chunk : included'[c] # included[c] =>
           c = At(w) /\ (pc'[w] = "idle" \/ range'[w][1] > range[w][1])
  PROVE  RangesApart'
<1>1. /\ \A r \in pending : r[1] \in Nat /\ r[2] \in Nat
      /\ \A v \in Worker : range[v][1] \in Nat /\ range[v][2] \in Nat
      /\ Chunk \subseteq Nat
  BY RangeNumbers DEF SpaceInv
<1>2. \A r \in pending, v \in Worker : pc'[v] # "idle" => Apart(r, range'[v])
  <2> SUFFICES ASSUME NEW r \in pending, NEW v \in Worker, pc'[v] # "idle"
               PROVE  Apart(r, range'[v])
    OBVIOUS
  <2>1. CASE v # w
    BY <2>1 DEF SpaceInv, RangesApart
  <2>2. CASE v = w
    <3>1. Apart(r, range[w])
      BY DEF SpaceInv, RangesApart
    <3> QED
      BY <1>1, <2>2, <3>1 DEF Apart
  <2> QED
    BY <2>1, <2>2
<1>3. \A u, v \in Worker :
        u # v /\ pc'[u] # "idle" /\ pc'[v] # "idle" => Apart(range'[u], range'[v])
  <2> SUFFICES ASSUME NEW u \in Worker, NEW v \in Worker, u # v, pc'[u] # "idle", pc'[v] # "idle"
               PROVE  Apart(range'[u], range'[v])
    OBVIOUS
  <2>1. pc[u] # "idle" /\ pc[v] # "idle"
    OBVIOUS
  <2>2. Apart(range[u], range[v])
    BY <2>1 DEF SpaceInv, RangesApart
  <2>3. CASE u # w /\ v # w
    BY <2>2, <2>3
  <2>4. CASE u = w
    BY <1>1, <2>2, <2>4 DEF Apart
  <2>5. CASE v = w
    BY <1>1, <2>2, <2>5 DEF Apart
  <2> QED
    BY <2>3, <2>4, <2>5
<1>4. ASSUME NEW c \in Chunk, included'[c] # {}
      PROVE  /\ \A r \in pending : Outside(c, r)
             /\ \A v \in Worker : pc'[v] # "idle" => Outside(c, range'[v])
  <2>1. CASE included'[c] = included[c]
    <3>1. /\ \A r \in pending : Outside(c, r)
          /\ \A v \in Worker : pc[v] # "idle" => Outside(c, range[v])
      BY <1>4, <2>1 DEF SpaceInv, RangesApart
    <3>2. pc'[w] # "idle" => Outside(c, range'[w])
      BY <1>1, <3>1 DEF Outside
    <3> QED
      BY <3>1, <3>2
  <2>2. CASE included'[c] # included[c]
    <3>1. c = At(w) /\ (pc'[w] = "idle" \/ range'[w][1] > range[w][1])
      BY <2>2
    <3>2. range[w][1] <= range[w][2] /\ At(w) = range[w][1]
      BY DEF SpaceInv, WorkersInStep, At
    <3>3. \A r \in pending : Outside(c, r)
      <4>1. \A r \in pending : Apart(r, range[w]) /\ r[1] <= r[2]
        BY DEF SpaceInv, RangesApart
      <4> QED
        BY <1>1, <3>1, <3>2, <4>1 DEF Apart, Outside
    <3>4. ASSUME NEW v \in Worker, pc'[v] # "idle" PROVE Outside(c, range'[v])
      <4>1. CASE v = w
        BY <1>1, <3>1, <3>2, <3>4, <4>1 DEF Outside
      <4>2. CASE v # w
        <5>1. Apart(range[v], range[w]) /\ range'[v] = range[v]
          BY <3>4, <4>2 DEF SpaceInv, RangesApart
        <5> QED
          BY <1>1, <3>1, <3>2, <5>1 DEF Apart, Outside
      <4> QED
        BY <4>1, <4>2
    <3> QED
      BY <3>3, <3>4
  <2> QED
    BY <2>1, <2>2
<1>5. Chunk' = Chunk
  BY DEF Chunk
<1>6. (\A r \in pending : r[1] <= r[2]) /\ \A r, s \in pending : r # s => Apart(r, s)
  BY DEF SpaceInv, RangesApart
<1> QED
  BY <1>2, <1>3, <1>4, <1>5, <1>6 DEF RangesApart

\* A thread takes a range that nobody else has.
LEMMA TakeRangeStep ==
  ASSUME SpaceInv, NEW w \in Worker, TakeRange(w)
  PROVE  SpaceInv'
<1>1. PICK r \in pending : pending' = pending \ {r} /\ range' = [range EXCEPT ![w] = r]
  BY DEF TakeRange
<1>2. /\ pc[w] = "idle" /\ pc' = [pc EXCEPT ![w] = "reserve"]
      /\ UNCHANGED <<chunk_size, remaining_block_space, total_block_size, chunk_sz,
                     remaining_space, confirmed, included, over_returned>>
  BY DEF TakeRange
<1>3. /\ TypeOK /\ pc \in [Worker -> PCs] /\ chunk_sz \in [Worker -> Int]
      /\ remaining_space \in [Worker -> Int] /\ range \in [Worker -> Nat \X Nat]
      /\ Chunk' = Chunk
  BY <1>2 DEF SpaceInv, TypeOK, PCs, Chunk
<1>4. r \in Chunk \X Chunk /\ r \in Nat \X Nat /\ r[1] \in Nat /\ r[2] \in Nat /\ r[1] <= r[2]
  BY <1>3, RangeNumbers DEF SpaceInv, TypeOK, RangesApart
<1>5. /\ pc' \in [Worker -> PCs] /\ pc'[w] = "reserve"
      /\ range' \in [Worker -> Nat \X Nat] /\ range'[w] = r
      /\ \A v \in Worker : v # w => pc'[v] = pc[v] /\ range'[v] = range[v]
  BY <1>1, <1>2, <1>3, <1>4 DEF PCs
<1>6. TypeOK'
  BY <1>1, <1>2, <1>3, <1>4, <1>5 DEF TypeOK, PCs
<1>7. WorkersInStep'
  BY <1>2, <1>4, <1>5 DEF SpaceInv, WorkersInStep, At
<1>8. RangesApart'
  <2>1. \A s \in pending' : s \in pending /\ s # r
    BY <1>1
  <2>2. \A v \in Worker : v # w /\ pc[v] # "idle" => Apart(r, range[v]) /\ Apart(range[v], r)
    BY DEF SpaceInv, RangesApart, Apart
  <2>3. /\ \A s \in pending : s # r => Apart(s, r)
        /\ \A c \in Chunk : included[c] # {} => Outside(c, r)
    BY DEF SpaceInv, RangesApart
  <2> QED
    BY <1>2, <1>3, <1>5, <2>1, <2>2, <2>3 DEF SpaceInv, RangesApart
<1>9. PICK n \in Int : n = chunk_sz[w]
  BY <1>3
<1>10. PICK m \in Int : m = remaining_space[w]
  BY <1>3
<1>11. /\ IsFiniteSet(Cells(Held)') /\ IsFiniteSet(Cells(Excess)')
       /\ Cardinality(Cells(Held))' =
            Cardinality(Cells(Held)) - HeldBy(pc[w], chunk_sz[w]) + HeldBy("reserve", n)
       /\ Cardinality(Cells(Excess))' =
            Cardinality(Cells(Excess)) - ShortBy(pc[w], chunk_sz[w], remaining_space[w])
              + ShortBy("reserve", n, m)
  <2>1. PICK p \in PCs : p = "reserve"
    BY DEF PCs
  <2>2. /\ pc' = [pc EXCEPT ![w] = p] /\ chunk_sz' = [chunk_sz EXCEPT ![w] = n]
        /\ remaining_space' = [remaining_space EXCEPT ![w] = m]
        /\ p \notin {"give_back", "process"} /\ p # "give_back"
    BY <1>2, <1>3, <1>9, <1>10, <2>1
  <2>3. /\ IsFiniteSet(Cells(Held)') /\ IsFiniteSet(Cells(Excess)')
        /\ Cardinality(Cells(Held))' =
             Cardinality(Cells(Held)) - HeldBy(pc[w], chunk_sz[w]) + HeldBy(p, n)
        /\ Cardinality(Cells(Excess))' =
             Cardinality(Cells(Excess)) - ShortBy(pc[w], chunk_sz[w], remaining_space[w])
               + ShortBy(p, n, m)
    BY <2>1, <2>2, UnitsMove
  <2> QED
    BY <2>1, <2>3
<1>12. /\ Cardinality(Cells(Held)) \in Nat /\ Cardinality(Cells(Excess)) \in Nat
  BY FS_CardinalityType DEF SpaceInv, Counted
<1>13. /\ Cardinality(Cells(Held))' = Cardinality(Cells(Held))
       /\ Cardinality(Cells(Excess))' = Cardinality(Cells(Excess))
  BY <1>2, <1>11, <1>12 DEF HeldBy, ShortBy
<1>14. Counted' /\ Accounted' /\ NeverShort' /\ BlockIsFlagged'
  BY <1>2, <1>3, <1>11, <1>13 DEF SpaceInv, Counted, Accounted, NeverShort, BlockIsFlagged
<1> QED
  BY <1>6, <1>7, <1>8, <1>14 DEF SpaceInv

\* What the steps of a busy worker have in common.
LEMMA BusyTyped ==
  ASSUME SpaceInv, NEW w \in Worker, pc[w] # "idle"
  PROVE  /\ TypeOK /\ pc \in [Worker -> PCs] /\ chunk_sz \in [Worker -> Int]
         /\ remaining_space \in [Worker -> Int] /\ range \in [Worker -> Nat \X Nat]
         /\ At(w) \in Chunk /\ chunk_size[At(w)] \in Nat /\ chunk_sz[w] \in Int
         /\ remaining_space[w] \in Int /\ remaining_block_space \in Int
         /\ total_block_size \in Nat /\ over_returned \in Nat /\ max_block_size \in Nat
         /\ Cardinality(Cells(Held)) \in Nat /\ Cardinality(Cells(Excess)) \in Nat
<1>1. /\ TypeOK /\ pc \in [Worker -> PCs] /\ chunk_sz \in [Worker -> Int]
      /\ remaining_space \in [Worker -> Int] /\ range \in [Worker -> Nat \X Nat]
      /\ remaining_block_space \in Int /\ total_block_size \in Nat /\ over_returned \in Nat
  BY DEF SpaceInv, TypeOK, PCs
<1>2. At(w) \in Chunk /\ chunk_size \in ChunkSizes
  BY DEF SpaceInv, TypeOK, At
<1>3. chunk_size[At(w)] \in Nat
  BY <1>2, ChunkNumbers
<1>4. Cardinality(Cells(Held)) \in Nat /\ Cardinality(Cells(Excess)) \in Nat
  BY FS_CardinalityType DEF SpaceInv, Counted
<1> QED
  BY <1>1, <1>2, <1>3, <1>4, SpaceAssumption

\* fetch_sub of the whole chunk.
LEMMA ReserveStep ==
  ASSUME SpaceInv, NEW w \in Worker, Reserve(w)
  PROVE  SpaceInv'
<1>1. PICK old : old = remaining_block_space
  OBVIOUS
<1>2. PICK size : size = chunk_size[At(w)]
  OBVIOUS
<1>3. PICK p : p = IF old < size THEN "give_back" ELSE "process"
  OBVIOUS
<1>4. /\ pc[w] = "reserve" /\ remaining_block_space' = old - size
      /\ remaining_space' = [remaining_space EXCEPT ![w] = old]
      /\ chunk_sz' = [chunk_sz EXCEPT ![w] = size]
      /\ pc' = [pc EXCEPT ![w] = p]
      /\ UNCHANGED <<chunk_size, total_block_size, pending, range, confirmed, included, over_returned>>
  BY <1>1, <1>2, <1>3 DEF Reserve, TooLarge
<1>5. /\ TypeOK /\ pc \in [Worker -> PCs] /\ chunk_sz \in [Worker -> Int]
      /\ remaining_space \in [Worker -> Int] /\ range \in [Worker -> Nat \X Nat]
      /\ old \in Int /\ size \in Nat /\ At(w) \in Chunk
      /\ total_block_size \in Nat /\ over_returned \in Nat /\ max_block_size \in Nat
      /\ Cardinality(Cells(Held)) \in Nat /\ Cardinality(Cells(Excess)) \in Nat
  BY <1>1, <1>2, <1>4, BusyTyped
<1>6. /\ p \in PCs /\ p \in {"give_back", "process"}
      /\ p = "give_back" => old < size
      /\ p = "process" => old >= size
  BY <1>3, <1>5 DEF PCs
<1>7. /\ pc' \in [Worker -> PCs] /\ pc'[w] = p /\ chunk_sz' \in [Worker -> Int] /\ chunk_sz'[w] = size
      /\ remaining_space' \in [Worker -> Int] /\ remaining_space'[w] = old
      /\ \A v \in Worker : v # w => /\ pc'[v] = pc[v] /\ chunk_sz'[v] = chunk_sz[v]
                                    /\ remaining_space'[v] = remaining_space[v]
  BY <1>4, <1>5, <1>6
<1>8. Chunk' = Chunk /\ remaining_block_space' \in Int
  BY <1>4, <1>5 DEF Chunk
<1>9. TypeOK'
  <2>1. \A v \in Worker : pc'[v] # "idle" => pc[v] # "idle"
    BY <1>4, <1>7
  <2> QED
    BY <1>4, <1>7, <1>8, <2>1 DEF SpaceInv, TypeOK, PCs
<1>10. WorkersInStep'
  BY <1>2, <1>4, <1>5, <1>6, <1>7 DEF SpaceInv, WorkersInStep, At
<1>11. RangesApart'
  <2>1. range[w][1] \in Nat
    BY <1>5
  <2> QED
    BY <1>4, <1>7, <2>1, RangesShrink
<1>12. /\ IsFiniteSet(Cells(Held)') /\ IsFiniteSet(Cells(Excess)')
       /\ Cardinality(Cells(Held))' =
            Cardinality(Cells(Held)) - HeldBy(pc[w], chunk_sz[w]) + HeldBy(p, size)
       /\ Cardinality(Cells(Excess))' =
            Cardinality(Cells(Excess)) - ShortBy(pc[w], chunk_sz[w], remaining_space[w])
              + ShortBy(p, size, old)
  <2>1. /\ p \in PCs /\ size \in Int /\ old \in Int
        /\ p \in {"give_back", "process"} => size \in Nat
        /\ p = "give_back" => old < size
    BY <1>5, <1>6
  <2>2. /\ pc' = [pc EXCEPT ![w] = p] /\ chunk_sz' = [chunk_sz EXCEPT ![w] = size]
        /\ remaining_space' = [remaining_space EXCEPT ![w] = old]
    BY <1>4
  <2> QED
    BY <2>1, <2>2, UnitsMove
<1>13. /\ Cardinality(Cells(Held))' = Cardinality(Cells(Held)) + size
       /\ Cardinality(Cells(Excess))' = Cardinality(Cells(Excess)) + ShortBy(p, size, old)
  BY <1>4, <1>5, <1>6, <1>12 DEF HeldBy, ShortBy
<1>14. Accounted'
  BY <1>1, <1>4, <1>5, <1>13 DEF SpaceInv, Accounted
<1>15. NeverShort'
  <2> SUFFICES ASSUME over_returned = 0
               PROVE  old - size + (Cardinality(Cells(Excess)) + ShortBy(p, size, old)) >= 0
    BY <1>4, <1>13 DEF NeverShort
  <2>1. old + Cardinality(Cells(Excess)) >= 0
    BY <1>1 DEF SpaceInv, NeverShort
  <2>2. CASE p = "process"
    BY <1>5, <1>6, <2>2 DEF ShortBy
  <2>3. CASE p = "give_back"
    BY <1>5, <1>6, <2>1, <2>3 DEF ShortBy
  <2> QED
    BY <1>6, <2>2, <2>3
<1>16. Counted' /\ BlockIsFlagged'
  BY <1>4, <1>8, <1>12 DEF SpaceInv, Counted, BlockIsFlagged
<1> QED
  BY <1>9, <1>10, <1>11, <1>14, <1>15, <1>16 DEF SpaceInv

\* The second fetch_add: after it the worker holds what the counter had, and
\* leaves if that was nothing.
LEMMA GiveBackStep ==
  ASSUME SpaceInv, NEW w \in Worker, GiveBack(w)
  PROVE  SpaceInv'
<1>1. PICK old : old = remaining_space[w]
  OBVIOUS
<1>2. PICK size : size = chunk_sz[w]
  OBVIOUS
<1>3. PICK p : p = IF old <= 0 THEN "idle" ELSE "process"
  OBVIOUS
<1>4. PICK r : r = IF old <= 0 THEN NoRange ELSE range[w]
  OBVIOUS
<1>5. /\ pc[w] = "give_back" /\ remaining_block_space' = remaining_block_space + (size - old)
      /\ chunk_sz' = [chunk_sz EXCEPT ![w] = old]
      /\ over_returned' = over_returned + Max({0, - old})
      /\ UNCHANGED <<chunk_size, total_block_size, pending, remaining_space, confirmed, included>>
  BY <1>1, <1>2 DEF GiveBack, GiveBackAmount
<1>6. /\ TypeOK /\ pc \in [Worker -> PCs] /\ chunk_sz \in [Worker -> Int]
      /\ remaining_space \in [Worker -> Int] /\ range \in [Worker -> Nat \X Nat]
      /\ old \in Int /\ size \in Int /\ At(w) \in Chunk /\ chunk_size[At(w)] \in Nat
      /\ remaining_block_space \in Int
      /\ total_block_size \in Nat /\ over_returned \in Nat /\ max_block_size \in Nat
      /\ Cardinality(Cells(Held)) \in Nat /\ Cardinality(Cells(Excess)) \in Nat
  BY <1>1, <1>2, <1>5, BusyTyped
<1>7. size = chunk_size[At(w)] /\ old < size /\ range[w][1] <= range[w][2]
  BY <1>1, <1>2, <1>5 DEF SpaceInv, WorkersInStep
<1>8. pc' = [pc EXCEPT ![w] = p] /\ range' = [range EXCEPT ![w] = r]
  <2>1. CASE old <= 0
    BY <1>1, <1>3, <1>4, <2>1 DEF GiveBack, Quit
  <2>2. CASE ~(old <= 0)
    <3>1. pc' = [pc EXCEPT ![w] = "process"] /\ range' = range
      BY <1>1, <2>2 DEF GiveBack
    <3> QED
      BY <1>3, <1>4, <1>6, <2>2, <3>1
  <2> QED
    BY <2>1, <2>2
<1>9. /\ p \in PCs /\ p \in {"idle", "process"} /\ (p = "process" <=> old > 0)
      /\ r \in Nat \X Nat /\ (p = "process" => r = range[w])
  BY <1>3, <1>4, <1>6 DEF PCs, NoRange
<1>10. /\ pc' \in [Worker -> PCs] /\ pc'[w] = p /\ chunk_sz' \in [Worker -> Int] /\ chunk_sz'[w] = old
       /\ range' \in [Worker -> Nat \X Nat] /\ range'[w] = r
       /\ \A v \in Worker : v # w => /\ pc'[v] = pc[v] /\ chunk_sz'[v] = chunk_sz[v]
                                     /\ range'[v] = range[v]
  BY <1>5, <1>6, <1>8, <1>9
<1>11. over_returned' = over_returned + (IF old < 0 THEN - old ELSE 0)
  <2>1. - old \in Int /\ (- old > 0 <=> old < 0)
    BY <1>6
  <2>2. Max({0, - old}) = IF - old > 0 THEN - old ELSE 0
    BY <2>1, MaxZero
  <2> QED
    BY <1>5, <2>1, <2>2
<1>12. Chunk' = Chunk /\ remaining_block_space' \in Int /\ over_returned' \in Nat
  BY <1>5, <1>6, <1>11 DEF Chunk
<1>13. TypeOK'
  <2>1. \A v \in Worker : pc'[v] # "idle" => pc[v] # "idle" /\ range'[v] = range[v]
    BY <1>5, <1>9, <1>10
  <2> QED
    BY <1>5, <1>10, <1>12, <2>1 DEF SpaceInv, TypeOK, PCs
<1>14. WorkersInStep'
  BY <1>5, <1>6, <1>7, <1>9, <1>10 DEF SpaceInv, WorkersInStep, At
<1>15. RangesApart'
  <2>1. range[w][1] \in Nat
    BY <1>6
  <2> QED
    BY <1>5, <1>9, <1>10, <2>1, RangesShrink
<1>16. PICK m \in Int : m = remaining_space[w]
  BY <1>6
<1>17. /\ IsFiniteSet(Cells(Held)') /\ IsFiniteSet(Cells(Excess)')
       /\ Cardinality(Cells(Held))' =
            Cardinality(Cells(Held)) - HeldBy(pc[w], chunk_sz[w]) + HeldBy(p, old)
       /\ Cardinality(Cells(Excess))' =
            Cardinality(Cells(Excess)) - ShortBy(pc[w], chunk_sz[w], remaining_space[w])
              + ShortBy(p, old, m)
  <2>1. remaining_space' = [remaining_space EXCEPT ![w] = m]
    BY <1>5, <1>6, <1>16
  <2>2. /\ p \in PCs /\ old \in Int
        /\ p \in {"give_back", "process"} => old \in Nat
        /\ p = "give_back" => m < old
    BY <1>6, <1>9
  <2>3. pc' = [pc EXCEPT ![w] = p] /\ chunk_sz' = [chunk_sz EXCEPT ![w] = old]
    BY <1>5, <1>8
  <2> QED
    BY <2>1, <2>2, <2>3, UnitsMove
<1>18. /\ Cardinality(Cells(Held))' = Cardinality(Cells(Held)) - size + (IF old > 0 THEN old ELSE 0)
       /\ Cardinality(Cells(Excess))' =
            Cardinality(Cells(Excess)) - (IF old < 0 THEN size ELSE size - old)
  <2>1. /\ HeldBy(pc[w], chunk_sz[w]) = size /\ HeldBy(p, old) = IF old > 0 THEN old ELSE 0
        /\ ShortBy(pc[w], chunk_sz[w], remaining_space[w]) = IF old < 0 THEN size ELSE size - old
        /\ ShortBy(p, old, m) = 0
    BY <1>1, <1>2, <1>5, <1>6, <1>9 DEF HeldBy, ShortBy
  <2> QED
    BY <1>6, <1>17, <2>1
<1>19. Accounted'
  <2>1. remaining_block_space + total_block_size + Cardinality(Cells(Held))
          = max_block_size + over_returned
    BY DEF SpaceInv, Accounted
  <2> QED
    BY <1>5, <1>6, <1>11, <1>18, <2>1 DEF Accounted
<1>20. NeverShort'
  <2>1. over_returned = 0 => remaining_block_space + Cardinality(Cells(Excess)) >= 0
    BY DEF SpaceInv, NeverShort
  <2> QED
    BY <1>5, <1>6, <1>11, <1>18, <2>1 DEF NeverShort
<1>21. Counted' /\ BlockIsFlagged'
  BY <1>5, <1>12, <1>17 DEF SpaceInv, Counted, BlockIsFlagged
<1> QED
  BY <1>13, <1>14, <1>15, <1>19, <1>20, <1>21 DEF SpaceInv

\* The chunk is processed: what it put into the block is counted once, because
\* nobody had the chunk before.
LEMMA ProcessChunkStep ==
  ASSUME SpaceInv, NEW w \in Worker, ProcessChunk(w)
  PROVE  SpaceInv'
<1>1. PICK n : n = chunk_sz[w]
  OBVIOUS
<1>2. PICK c : c = At(w)
  OBVIOUS
<1>3. PICK success \in SUBSET (1 .. n) : \E failed \in SUBSET ((1 .. n) \ success) :
        /\ confirmed' = [confirmed EXCEPT ![c] = Flagged(success, failed)]
        /\ included' = [included EXCEPT ![c] = success]
        /\ remaining_block_space' = remaining_block_space + Unused(w, success)
        /\ total_block_size' = total_block_size + Cardinality(success)
  BY <1>1, <1>2 DEF ProcessChunk
<1>4. PICK failed \in SUBSET ((1 .. n) \ success) :
        /\ confirmed' = [confirmed EXCEPT ![c] = success \cup failed]
        /\ included' = [included EXCEPT ![c] = success]
        /\ remaining_block_space' = remaining_block_space + (n - Cardinality(success))
        /\ total_block_size' = total_block_size + Cardinality(success)
  BY <1>1, <1>3 DEF Flagged, Unused
<1> HIDE <1>3
<1>5. /\ pc[w] = "process" /\ chunk_sz' = [chunk_sz EXCEPT ![w] = 0]
      /\ UNCHANGED <<chunk_size, pending, remaining_space, over_returned>>
  BY DEF ProcessChunk
<1>6. /\ TypeOK /\ pc \in [Worker -> PCs] /\ chunk_sz \in [Worker -> Int]
      /\ remaining_space \in [Worker -> Int] /\ range \in [Worker -> Nat \X Nat]
      /\ c \in Chunk /\ chunk_size[c] \in Nat /\ n \in Int
      /\ remaining_space[w] \in Int /\ remaining_block_space \in Int
      /\ total_block_size \in Nat /\ over_returned \in Nat /\ max_block_size \in Nat
      /\ Cardinality(Cells(Held)) \in Nat /\ Cardinality(Cells(Excess)) \in Nat
  BY <1>1, <1>2, <1>5, BusyTyped
<1>7. n \in 0 .. chunk_size[c] /\ n \in Nat /\ range[w][1] <= range[w][2] /\ c = range[w][1]
      /\ range[w][1] \in Nat /\ range[w][2] \in Nat /\ range[w] \in Chunk \X Chunk
  BY <1>1, <1>2, <1>5, <1>6 DEF SpaceInv, WorkersInStep, At, TypeOK
<1>8. PICK out \in BOOLEAN : out <=> remaining_block_space <= 0 \/ EndOfRange(w)
  OBVIOUS
<1>9. PICK p : p = IF out THEN "idle" ELSE "reserve"
  OBVIOUS
<1>10. PICK r : r = IF out THEN NoRange ELSE <<range[w][1] + 1, range[w][2]>>
  OBVIOUS
<1>11. pc' = [pc EXCEPT ![w] = p] /\ range' = [range EXCEPT ![w] = r]
  <2>1. CASE out
    BY <1>8, <1>9, <1>10, <2>1 DEF ProcessChunk, Quit
  <2>2. CASE ~out
    BY <1>8, <1>9, <1>10, <2>2 DEF ProcessChunk
  <2> QED
    BY <2>1, <2>2
<1>12. /\ p \in PCs /\ p \in {"idle", "reserve"} /\ r \in Nat \X Nat
       /\ p = "reserve" => /\ r[1] = range[w][1] + 1 /\ r[2] = range[w][2] /\ r[1] <= r[2]
                           /\ r \in Chunk \X Chunk
  <2>1. CASE out
    BY <1>9, <1>10, <2>1 DEF PCs, NoRange
  <2>2. CASE ~out
    <3>1. p = "reserve" /\ r = <<range[w][1] + 1, range[w][2]>>
      BY <1>9, <1>10, <2>2
    <3>2. range[w][1] + 1 <= range[w][2]
      BY <1>7, <1>8, <2>2 DEF EndOfRange
    <3>3. Chunk = 1 .. Len(chunk_size) /\ Len(chunk_size) \in Nat
      BY <1>6, ChunkNumbers DEF TypeOK
    <3>4. range[w][1] + 1 \in Chunk /\ range[w][2] \in Chunk
      BY <1>7, <3>2, <3>3
    <3> QED
      BY <1>7, <3>1, <3>2, <3>4 DEF PCs
  <2> QED
    BY <2>1, <2>2
<1>13. /\ pc' \in [Worker -> PCs] /\ pc'[w] = p /\ chunk_sz' \in [Worker -> Int] /\ chunk_sz'[w] = 0
       /\ range' \in [Worker -> Nat \X Nat] /\ range'[w] = r
       /\ \A v \in Worker : v # w => /\ pc'[v] = pc[v] /\ chunk_sz'[v] = chunk_sz[v]
                                     /\ range'[v] = range[v]
  BY <1>5, <1>6, <1>11, <1>12
<1>14. /\ success \subseteq 1 .. chunk_size[c] /\ failed \subseteq 1 .. chunk_size[c]
       /\ IsFiniteSet(success) /\ Cardinality(success) \in Nat
  <2>1. 1 .. n \subseteq 1 .. chunk_size[c]
    BY <1>6, <1>7
  <2>2. IsFiniteSet(success)
    BY <1>7, SizeUpTo, FS_Subset
  <2> QED
    BY <2>1, <2>2, FS_CardinalityType
<1>15. confirmed \in [Chunk -> SUBSET Nat] /\ included \in [Chunk -> SUBSET Nat]
       /\ Chunk' = Chunk
  BY <1>5 DEF SpaceInv, TypeOK, Chunk
<1>16. /\ confirmed' \in [Chunk -> SUBSET Nat] /\ confirmed'[c] = success \cup failed
       /\ included' \in [Chunk -> SUBSET Nat] /\ included'[c] = success
       /\ \A d \in Chunk : d # c => confirmed'[d] = confirmed[d] /\ included'[d] = included[d]
  <2>1. success \cup failed \in SUBSET Nat /\ success \in SUBSET Nat
    BY <1>6, <1>14
  <2> QED
    BY <1>4, <1>6, <1>15, <2>1
<1>17. remaining_block_space' \in Int /\ total_block_size' \in Nat
  BY <1>4, <1>6, <1>14
<1>18. TypeOK'
  <2>1. \A v \in Worker : pc'[v] # "idle" => range'[v] \in Chunk \X Chunk
    BY <1>6, <1>12, <1>13 DEF TypeOK
  <2>2. \A d \in Chunk : confirmed'[d] \cup included'[d] \subseteq 1 .. chunk_size[d]
    <3>1. \A d \in Chunk : d # c => confirmed'[d] \cup included'[d] \subseteq 1 .. chunk_size[d]
      BY <1>6, <1>16 DEF TypeOK
    <3>2. confirmed'[c] \cup included'[c] \subseteq 1 .. chunk_size[c]
      BY <1>14, <1>16
    <3> QED
      BY <3>1, <3>2
  <2> QED
    BY <1>5, <1>6, <1>13, <1>15, <1>16, <1>17, <2>1, <2>2 DEF TypeOK, PCs
<1>19. WorkersInStep'
  BY <1>5, <1>6, <1>12, <1>13 DEF SpaceInv, WorkersInStep, At
<1>20. RangesApart'
  <2>1. pc'[w] # "idle" =>
          /\ range'[w][1] \in Nat /\ range'[w][1] >= range[w][1] /\ range'[w][2] = range[w][2]
          /\ range'[w][1] > range[w][1]
    BY <1>7, <1>12, <1>13
  <2>2. \A d \in Chunk : included'[d] # included[d] => d = At(w)
    BY <1>2, <1>16
  <2>3. \A v \in Worker : v # w => pc'[v] = pc[v] /\ range'[v] = range[v]
    BY <1>13
  <2> QED
    BY <1>5, <2>1, <2>2, <2>3, RangesShrink
<1>21. PICK m \in Int : m = remaining_space[w]
  BY <1>6
<1>22. /\ IsFiniteSet(Cells(Held)') /\ IsFiniteSet(Cells(Excess)')
       /\ Cardinality(Cells(Held))' =
            Cardinality(Cells(Held)) - HeldBy(pc[w], chunk_sz[w]) + HeldBy(p, 0)
       /\ Cardinality(Cells(Excess))' =
            Cardinality(Cells(Excess)) - ShortBy(pc[w], chunk_sz[w], remaining_space[w])
              + ShortBy(p, 0, m)
  <2>1. remaining_space' = [remaining_space EXCEPT ![w] = m]
    BY <1>5, <1>6, <1>21
  <2>2. /\ p \in PCs /\ 0 \in Int
        /\ p \in {"give_back", "process"} => 0 \in Nat
        /\ p = "give_back" => m < 0
    BY <1>12
  <2>3. pc' = [pc EXCEPT ![w] = p] /\ chunk_sz' = [chunk_sz EXCEPT ![w] = 0]
    BY <1>5, <1>11
  <2> QED
    BY <2>1, <2>2, <2>3, UnitsMove
<1>23. /\ Cardinality(Cells(Held))' = Cardinality(Cells(Held)) - n
       /\ Cardinality(Cells(Excess))' = Cardinality(Cells(Excess))
  <2>1. /\ HeldBy(pc[w], chunk_sz[w]) = n /\ HeldBy(p, 0) = 0
        /\ ShortBy(pc[w], chunk_sz[w], remaining_space[w]) = 0 /\ ShortBy(p, 0, m) = 0
    BY <1>1, <1>5, <1>12 DEF HeldBy, ShortBy
  <2> QED
    BY <1>6, <1>22, <2>1
<1>24. Accounted'
  <2>1. remaining_block_space + total_block_size + Cardinality(Cells(Held))
          = max_block_size + over_returned
    BY DEF SpaceInv, Accounted
  <2> QED
    BY <1>4, <1>5, <1>6, <1>14, <1>23, <2>1 DEF Accounted
<1>25. NeverShort'
  <2>1. over_returned = 0 => remaining_block_space + Cardinality(Cells(Excess)) >= 0
    BY DEF SpaceInv, NeverShort
  <2>2. n - Cardinality(success) >= 0
    <3>1. Cardinality(success) <= Cardinality(1 .. n) /\ Cardinality(1 .. n) = n
      BY <1>7, SizeUpTo, FS_Subset
    <3> QED
      BY <1>6, <1>14, <3>1
  <2> QED
    BY <1>4, <1>5, <1>6, <1>14, <1>23, <2>1, <2>2 DEF NeverShort
<1>26. /\ IsFiniteSet(Cells(included)')
       /\ Cardinality(Cells(included))' = Cardinality(Cells(included)) + Cardinality(success)
  <2>1. included[c] = {}
    <3>1. included[c] # {} => Outside(c, range[w])
      BY <1>5, <1>6 DEF SpaceInv, RangesApart
    <3> QED
      BY <1>7, <3>1 DEF Outside
  <2>2. PICK f : f = included
    OBVIOUS
  <2>3. PICK g : g = included'
    OBVIOUS
  <2>4. /\ c \in DOMAIN f /\ DOMAIN g = DOMAIN f /\ \A d \in DOMAIN f : d # c => g[d] = f[d]
        /\ f[c] = {} /\ g[c] = success
    BY <1>6, <1>15, <1>16, <2>1, <2>2, <2>3
  <2>5. IsFiniteSet(Cells(f)) /\ IsFiniteSet(f[c]) /\ IsFiniteSet(g[c]) /\ Cardinality(f[c]) = 0
    BY <1>14, <2>2, <2>4, FS_EmptySet DEF SpaceInv, Counted
  <2>6. /\ IsFiniteSet(Cells(g))
        /\ Cardinality(Cells(g)) = Cardinality(Cells(f)) - Cardinality(f[c]) + Cardinality(g[c])
    BY <2>4, <2>5, CellsUpdate
  <2>7. Cardinality(Cells(f)) \in Nat
    BY <2>5, FS_CardinalityType
  <2>8. Cardinality(Cells(g)) = Cardinality(Cells(f)) + Cardinality(success)
    BY <1>14, <2>4, <2>5, <2>6, <2>7
  <2> QED
    BY <2>2, <2>3, <2>6, <2>8
<1>27. Counted'
  BY <1>22, <1>26 DEF Counted
<1>28. BlockIsFlagged'
  <2>1. \A d \in Chunk : included'[d] \subseteq confirmed'[d]
    BY <1>16 DEF SpaceInv, BlockIsFlagged
  <2>2. total_block_size' = Cardinality(Cells(included))'
    BY <1>4, <1>26 DEF SpaceInv, BlockIsFlagged
  <2> QED
    BY <1>15, <2>1, <2>2 DEF BlockIsFlagged
<1> QED
  BY <1>18, <1>19, <1>20, <1>24, <1>25, <1>27, <1>28 DEF SpaceInv

-----------------------------------------------------------------------------
(* The theorems.                                                           *)

\* No step breaks the invariant.
LEMMA SpaceInductive == SpaceInv /\ [Next]_vars => SpaceInv'
<1> SUFFICES ASSUME SpaceInv, [Next]_vars PROVE SpaceInv'
  OBVIOUS
<1>1. ASSUME NEW w \in Worker, TakeRange(w) \/ Reserve(w) \/ GiveBack(w) \/ ProcessChunk(w)
      PROVE  SpaceInv'
  BY <1>1, TakeRangeStep, ReserveStep, GiveBackStep, ProcessChunkStep
<1>2. CASE UNCHANGED vars
  <2>1. UNCHANGED <<chunk_size, remaining_block_space, total_block_size, pending, range,
                    pc, chunk_sz, remaining_space, confirmed, included, over_returned>>
    BY <1>2 DEF vars
  <2>2. Held' = Held /\ Excess' = Excess /\ Chunk' = Chunk
    BY <2>1 DEF Held, Excess, Chunk
  <2>3. TypeOK' /\ BlockIsFlagged'
    BY <2>1, <2>2 DEF SpaceInv, TypeOK, BlockIsFlagged
  <2>4. WorkersInStep' /\ RangesApart'
    BY <2>1, <2>2 DEF SpaceInv, WorkersInStep, RangesApart, At
  <2>5. Counted' /\ Accounted' /\ NeverShort'
    BY <2>1, <2>2 DEF SpaceInv, Counted, Accounted, NeverShort
  <2> QED
    BY <2>3, <2>4, <2>5 DEF SpaceInv
<1> QED
  BY <1>1, <1>2 DEF Next, Done

\* What is in excess is held.
LEMMA ExcessIsHeld ==
  ASSUME SpaceInv
  PROVE  Cardinality(Cells(Excess)) <= Cardinality(Cells(Held))
<1>1. \A w \in Worker : Excess[w] \subseteq Held[w]
  BY DEF Excess, Held
<1>2. DOMAIN Excess = Worker /\ DOMAIN Held = Worker
  BY DEF Excess, Held
<1>3. \A z : z \in Cells(Excess) <=> \E w \in Worker : z \in {w} \X Excess[w]
  BY <1>2 DEF Cells
<1>4. \A z : z \in Cells(Held) <=> \E w \in Worker : z \in {w} \X Held[w]
  BY <1>2 DEF Cells
<1>5. \A w \in Worker : {w} \X Excess[w] \subseteq {w} \X Held[w]
  BY <1>1
<1>6. Cells(Excess) \subseteq Cells(Held)
  BY <1>3, <1>4, <1>5, Zenon
<1> QED
  BY <1>6, FS_Subset DEF SpaceInv, Counted

\* The limit follows from the account.
LEMMA LimitEntailed == SpaceInv => LimitWithoutOverdraw
<1> SUFFICES ASSUME SpaceInv, over_returned = 0 PROVE total_block_size <= max_block_size
  BY DEF LimitWithoutOverdraw
<1>1. remaining_block_space + Cardinality(Cells(Excess)) >= 0
  BY DEF SpaceInv, NeverShort
<1>2. remaining_block_space + total_block_size + Cardinality(Cells(Held)) = max_block_size
  BY SpaceAssumption DEF SpaceInv, Accounted
<1>3. /\ Cardinality(Cells(Excess)) \in Nat /\ Cardinality(Cells(Held)) \in Nat
      /\ remaining_block_space \in Int /\ total_block_size \in Nat /\ max_block_size \in Nat
  BY FS_CardinalityType, SpaceAssumption DEF SpaceInv, Counted, TypeOK
<1> QED
  BY <1>1, <1>2, <1>3, ExcessIsHeld

\* Every unit of block space is accounted for, whatever the order in which the
\* threads reserve, give back and process (BlockProductionReduce::operator());
\* and the state keeps its types.
THEOREM SpaceCorrect == Spec => []SpaceAccounted
<1>1. Init => SpaceInv
  BY SpaceStart
<1>2. SpaceInv /\ [Next]_vars => SpaceInv'
  BY SpaceInductive
<1>3. SpaceInv => SpaceAccounted
  BY DEF SpaceInv, Accounted, SpaceAccounted
<1> QED
  BY <1>1, <1>2, <1>3, PTL DEF Spec

\* A block is within its limit unless a reservation found the counter below
\* zero and returned more than it had taken: that is the only way to exceed it
\* (operator(), the reservation).
THEOREM LimitCorrect == Spec => []LimitWithoutOverdraw
<1>1. Init => SpaceInv
  BY SpaceStart
<1>2. SpaceInv /\ [Next]_vars => SpaceInv'
  BY SpaceInductive
<1>3. SpaceInv => LimitWithoutOverdraw
  BY LimitEntailed
<1> QED
  BY <1>1, <1>2, <1>3, PTL DEF Spec

\* Every transaction in the block is flagged for removal from the mempool and
\* counted once in total_block_size, since no chunk is processed twice (bitmap,
\* set_confirmed_txs, parallel_reduce).
THEOREM FlaggedCorrect == Spec => []BlockIsFlagged
<1>1. Init => SpaceInv
  BY SpaceStart
<1>2. SpaceInv /\ [Next]_vars => SpaceInv'
  BY SpaceInductive
<1>3. SpaceInv => BlockIsFlagged
  BY DEF SpaceInv
<1> QED
  BY <1>1, <1>2, <1>3, PTL DEF Spec
=============================================================================
