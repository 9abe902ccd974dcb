--------------------------- MODULE Mempool_proof ---------------------------
(***************************************************************************)
(* Proofs about Mempool, for any transactions, batches and chunk size, and *)
(* about Overlay, which fills it, for any number of replicas, of batches   *)
(* and of failing calls.                                                   *)
(***************************************************************************)
EXTENDS Mempool, Overlay, Counting_proof, SequenceTheorems

Chunk == [txs : Seq(TxId), confirmed_txs_to_remove : Seq(BOOLEAN)]

-----------------------------------------------------------------------------
(* Removal from a vector: erase.                                           *)

\* r is s without its element at i, which the last one replaces.
Closed(r, s, i, S) ==
  /\ r \in Seq(S) /\ Len(r) = Len(s) - 1
  /\ \A k \in 1..(Len(s) - 1) : r[k] = IF k = i THEN s[Len(s)] ELSE s[k]

LEMMA Overwritten ==
  ASSUME NEW S, NEW s \in Seq(S), NEW i \in 1..Len(s)
  PROVE  Closed(Overwrite(s, i), s, i, S)
<1>1. PICK n : n = Len(s) - 1 /\ n \in Nat
  OBVIOUS
<1>2. PICK r : r = Overwrite(s, i)
  OBVIOUS
<1>3. r = [k \in 1..n |-> IF k = i THEN s[Len(s)] ELSE s[k]]
  BY <1>1, <1>2 DEF Overwrite, Last
<1>4. \A k \in 1..n : k \in 1..Len(s) /\ Len(s) \in 1..Len(s)
  BY <1>1
<1>5. \A k \in 1..n : r[k] \in S
  BY <1>3, <1>4, ElementOfSeq
<1>6. r \in Seq(S) /\ Len(r) = n
  BY <1>1, <1>3, <1>5
<1> QED
  BY <1>1, <1>2, <1>3, <1>6 DEF Closed

AllUnset(bits) == \A j \in 1..Len(bits) : ~bits[j]
Loop == [txs : Seq(TxId), bits : Seq(BOOLEAN), i : Nat \ {0}]
Aligned(s) == Len(s.bits) = Len(s.txs)

\* What is not flagged.
Kept(txs, bits) == {txs[j] : j \in {k \in 1..Len(txs) : ~bits[k]}}

\* What one iteration does to a transaction's flag and to the transactions
\* that are not flagged.
LEMMA EraseFlagged ==
  ASSUME NEW s \in Loop, Aligned(s), s.i <= Len(s.bits), s.bits[s.i]
  PROVE  /\ erase_next(s) \in Loop /\ Aligned(erase_next(s))
         /\ erase_next(s).i = s.i /\ Len(erase_next(s).bits) = Len(s.bits) - 1
         /\ \A k \in 1..(Len(s.bits) - 1) :
              erase_next(s).bits[k] = IF k = s.i THEN s.bits[Len(s.bits)] ELSE s.bits[k]
         /\ \A k \in 1..(Len(s.bits) - 1) :
              erase_next(s).txs[k] = IF k = s.i THEN s.txs[Len(s.bits)] ELSE s.txs[k]
<1>1. s.txs \in Seq(TxId) /\ s.bits \in Seq(BOOLEAN) /\ s.i \in Nat \ {0}
  BY DEF Loop
<1>2. s.i \in 1..Len(s.bits) /\ s.i \in 1..Len(s.txs) /\ Len(s.bits) = Len(s.txs)
  BY <1>1 DEF Aligned
<1>3. PICK r : r = erase_next(s)
  OBVIOUS
<1>4. r = [txs |-> Overwrite(s.txs, s.i), bits |-> Overwrite(s.bits, s.i), i |-> s.i]
  <2>1. s = [txs |-> s.txs, bits |-> s.bits, i |-> s.i]
    BY DEF Loop
  <2>2. r = [s EXCEPT !.txs = Overwrite(s.txs, s.i), !.bits = Overwrite(s.bits, s.i)]
    BY <1>2, <1>3, <1>1 DEF erase_next, erase_at
  <2> QED
    BY <2>1, <2>2
<1>5. PICK x, y, i : x = s.txs /\ y = s.bits /\ i = s.i
  OBVIOUS
<1>6. /\ Overwrite(x, i) \in Seq(TxId) /\ Len(Overwrite(x, i)) = Len(x) - 1
      /\ \A k \in 1..(Len(x) - 1) : Overwrite(x, i)[k] = IF k = i THEN x[Len(x)] ELSE x[k]
  <2>1. x \in Seq(TxId) /\ i \in 1..Len(x)
    BY <1>1, <1>2, <1>5
  <2>2. Closed(Overwrite(x, i), x, i, TxId)
    BY <2>1, Overwritten
  <2> QED
    BY <2>2 DEF Closed
<1>8. /\ Overwrite(y, i) \in Seq(BOOLEAN) /\ Len(Overwrite(y, i)) = Len(y) - 1
      /\ \A k \in 1..(Len(y) - 1) : Overwrite(y, i)[k] = IF k = i THEN y[Len(y)] ELSE y[k]
  <2>1. y \in Seq(BOOLEAN) /\ i \in 1..Len(y)
    BY <1>1, <1>2, <1>5
  <2>2. Closed(Overwrite(y, i), y, i, BOOLEAN)
    BY <2>1, Overwritten
  <2> QED
    BY <2>2 DEF Closed
<1>7. r \in Loop /\ Aligned(r)
  BY <1>1, <1>2, <1>4, <1>5, <1>6, <1>8 DEF Loop, Aligned
<1> QED
  BY <1>2, <1>3, <1>4, <1>5, <1>6, <1>7, <1>8

LEMMA EraseOther ==
  ASSUME NEW s \in Loop, s.i > Len(s.bits) \/ ~s.bits[s.i]
  PROVE  /\ erase_next(s) \in Loop /\ erase_next(s).txs = s.txs /\ erase_next(s).bits = s.bits
         /\ s.i > Len(s.bits) => erase_next(s).i = s.i
         /\ s.i <= Len(s.bits) => erase_next(s).i = s.i + 1
<1>1. s.i \in Nat \ {0} /\ Len(s.bits) \in Nat
  BY DEF Loop
<1>2. CASE s.i > Len(s.bits)
  BY <1>1, <1>2 DEF erase_next
<1>3. CASE ~(s.i > Len(s.bits))
  <2>1. ~s.bits[s.i]
    BY <1>3
  <2>2. PICK r : r = erase_next(s)
    OBVIOUS
  <2>3. r = [s EXCEPT !.i = s.i + 1]
    BY <1>3, <2>1, <2>2 DEF erase_next
  <2>4. r \in Loop /\ r.txs = s.txs /\ r.bits = s.bits /\ r.i = s.i + 1
    BY <1>1, <2>3 DEF Loop
  <2> QED
    BY <1>1, <1>3, <2>2, <2>4
<1> QED
  BY <1>2, <1>3

Fit(s) == Aligned(s) \/ AllUnset(s.bits)
FitLoop == {s \in Loop : Fit(s)}

LEMMA EraseClosed ==
  ASSUME NEW s \in FitLoop
  PROVE  erase_next(s) \in FitLoop
<1>1. s \in Loop /\ Fit(s) /\ s.i \in Nat \ {0} /\ Len(s.bits) \in Nat
  BY DEF FitLoop, Loop
<1>2. CASE s.i <= Len(s.bits) /\ s.bits[s.i]
  <2>1. ~AllUnset(s.bits)
    <3>1. s.i \in 1..Len(s.bits)
      BY <1>1, <1>2
    <3> QED
      BY <1>2, <3>1 DEF AllUnset
  <2>2. Aligned(s)
    BY <1>1, <2>1 DEF Fit
  <2> QED
    BY <1>1, <1>2, <2>2, EraseFlagged DEF FitLoop, Fit
<1>3. CASE ~(s.i <= Len(s.bits) /\ s.bits[s.i])
  <2>1. s.i > Len(s.bits) \/ ~s.bits[s.i]
    BY <1>1, <1>3
  <2>2. PICK r : r = erase_next(s)
    OBVIOUS
  <2>3. r \in Loop /\ r.txs = s.txs /\ r.bits = s.bits
    BY <1>1, <2>1, <2>2, EraseOther
  <2>4. Fit(r)
    BY <1>1, <2>3 DEF Fit, Aligned, AllUnset
  <2> QED
    BY <2>2, <2>3, <2>4 DEF FitLoop
<1> QED
  BY <1>2, <1>3

LEMMA EraseLoop ==
  ASSUME NEW txs \in Seq(TxId), NEW bits \in Seq(BOOLEAN),
         Len(bits) = Len(txs) \/ AllUnset(bits)
  PROVE  /\ erase_loop(txs, bits)[0] = [txs |-> txs, bits |-> bits, i |-> 1]
         /\ \A n \in 0..Len(bits) : erase_loop(txs, bits)[n] \in FitLoop
         /\ \A n \in 1..Len(bits) :
              erase_loop(txs, bits)[n] = erase_next(erase_loop(txs, bits)[n - 1])
<1> DEFINE L == Len(bits)
           start == [txs |-> txs, bits |-> bits, i |-> 1]
           Run(f) == f = [n \in 0..L |-> IF n = 0 THEN start ELSE erase_next(f[n - 1])]
<1>1. L \in Nat
  OBVIOUS
<1>2. start \in FitLoop
  BY DEF FitLoop, Loop, Fit, Aligned
<1>3. PICK g : g = [x \in FitLoop \X (1..L) |-> erase_next(x[1])]
  OBVIOUS
<1>4. g \in [FitLoop \X (1..L) -> FitLoop]
  BY <1>3, EraseClosed
<1>5. erase_loop(txs, bits) = CHOOSE h : Run(h)
  BY DEF erase_loop
<1> HIDE DEF L, start
<1>6. PICK f : f \in [0..L -> FitLoop] /\ Steps(f, start, L, g)
  BY <1>1, <1>2, <1>4, Iterated
<1>7. \A n \in 0..L : f[n] = IF n = 0 THEN start ELSE erase_next(f[n - 1])
  <2>1. \A n \in 0..L : n = 0 \/ (n \in 1..L /\ n # 0 /\ n - 1 \in 0..L)
    BY <1>1
  <2>2. \A n \in 1..L : n - 1 \in 0..L
    BY <1>1
  <2>3. \A n \in 1..L : f[n] = erase_next(f[n - 1])
    BY <1>3, <1>6, <2>2 DEF Steps
  <2> QED
    BY <1>6, <2>1, <2>3, Zenon DEF Steps
<1>8. Run(f)
  BY <1>6, <1>7
<1>9. PICK e : e = erase_loop(txs, bits)
  OBVIOUS
<1>10. Run(e)
  BY <1>5, <1>8, <1>9
<1>11. e[0] = start /\ \A n \in 1..L : e[n] = erase_next(e[n - 1])
  <2>1. 0 \in 0..L /\ \A n \in 1..L : n \in 0..L /\ n # 0
    BY <1>1
  <2> QED
    BY <1>10, <2>1
<1>12. \A n \in 0..L : e[n] \in FitLoop
  <2> DEFINE G == {n \in 0..L : e[n] \in FitLoop}
  <2>1. 0 \in G
    BY <1>1, <1>2, <1>11
  <2>2. ASSUME NEW n \in 1..L, n - 1 \in G PROVE n \in G
    <3>1. e[n - 1] \in FitLoop /\ n \in 0..L
      BY <1>1, <2>2
    <3> QED
      BY <1>11, <3>1, EraseClosed
  <2> HIDE DEF G
  <2>3. \A n \in 0..L : n \in G
    BY <1>1, <2>1, <2>2, Reached
  <2> QED
    BY <2>3 DEF G
<1> QED
  BY <1>9, <1>11, <1>12 DEF L, start

\* Without a flag nothing changes.
LEMMA ErasedNone ==
  ASSUME NEW txs \in Seq(TxId), NEW bits \in Seq(BOOLEAN), AllUnset(bits)
  PROVE  erase(txs, bits).txs = txs /\ erase(txs, bits).bits = bits
<1>1. PICK L, e : L = Len(bits) /\ e = erase_loop(txs, bits)
  OBVIOUS
<1>2. L \in Nat
  BY <1>1
<1>3. /\ e[0] = [txs |-> txs, bits |-> bits, i |-> 1]
      /\ \A n \in 0..L : e[n] \in FitLoop
      /\ \A n \in 1..L : e[n] = erase_next(e[n - 1])
  BY <1>1, EraseLoop
<1> DEFINE G == {n \in 0..L : e[n].txs = txs /\ e[n].bits = bits}
<1>4. 0 \in G
  BY <1>2, <1>3
<1>5. ASSUME NEW n \in 1..L, n - 1 \in G PROVE n \in G
  <2>1. PICK s : s = e[n - 1]
    OBVIOUS
  <2>2. s \in Loop /\ s.txs = txs /\ s.bits = bits /\ n \in 0..L
    BY <1>2, <1>3, <1>5, <2>1 DEF FitLoop
  <2>3. s.i > Len(s.bits) \/ ~s.bits[s.i]
    BY <2>2 DEF Loop, AllUnset
  <2>4. erase_next(s).txs = txs /\ erase_next(s).bits = bits
    BY <2>2, <2>3, EraseOther
  <2> QED
    BY <1>3, <2>1, <2>2, <2>4
<1> HIDE DEF G
<1>6. \A n \in 0..L : n \in G
  BY <1>2, <1>4, <1>5, Reached
<1>7. L \in G
  BY <1>2, <1>6
<1> QED
  BY <1>1, <1>7 DEF G, erase

\* The state of the loop after n of L iterations.
Scanned(s, n, L) ==
  /\ Aligned(s)
  /\ \A k \in 1..Len(s.bits) : k < s.i => ~s.bits[k]
  /\ s.i <= Len(s.bits) => Len(s.bits) - s.i <= L - n - 1

LEMMA EraseScans ==
  ASSUME NEW s \in Loop, NEW L \in Nat, NEW n \in 1..L, Scanned(s, n - 1, L)
  PROVE  Scanned(erase_next(s), n, L) /\ Kept(erase_next(s).txs, erase_next(s).bits) = Kept(s.txs, s.bits)
<1>1. s.txs \in Seq(TxId) /\ s.bits \in Seq(BOOLEAN) /\ s.i \in Nat \ {0} /\ Aligned(s)
  BY DEF Loop, Scanned
<1>2. PICK r : r = erase_next(s)
  OBVIOUS
<1>3. PICK m : m = Len(s.bits) /\ m \in Nat /\ m = Len(s.txs)
  BY <1>1 DEF Aligned
<1>4. CASE s.i <= m /\ s.bits[s.i]
  <2>1. /\ r \in Loop /\ Aligned(r) /\ r.i = s.i /\ Len(r.bits) = m - 1
        /\ \A k \in 1..(m - 1) : r.bits[k] = IF k = s.i THEN s.bits[m] ELSE s.bits[k]
        /\ \A k \in 1..(m - 1) : r.txs[k] = IF k = s.i THEN s.txs[m] ELSE s.txs[k]
    <3>1. s.i <= Len(s.bits)
      BY <1>3, <1>4
    <3>2. m - 1 = Len(s.bits) - 1
      BY <1>3
    <3> QED
      BY <1>1, <1>2, <1>3, <1>4, <3>1, EraseFlagged, ZenonT(40)
  <2>2. Len(r.txs) = m - 1
    BY <2>1 DEF Aligned
  <2>3. Scanned(r, n, L)
    <3>1. \A k \in 1..(m - 1) : k < s.i => ~r.bits[k]
      <4>1. \A k \in 1..(m - 1) : k < s.i => k # s.i /\ ~s.bits[k]
        BY <1>1, <1>3 DEF Scanned
      <4> QED
        BY <2>1, <4>1
    <3>2. s.i <= m - 1 => (m - 1) - s.i <= L - n - 1
      BY <1>1, <1>3 DEF Scanned
    <3> QED
      BY <2>1, <3>1, <3>2 DEF Scanned
  <2>4. ASSUME NEW k \in 1..(m - 1), ~r.bits[k]
        PROVE  \E j \in 1..m : ~s.bits[j] /\ s.txs[j] = r.txs[k]
    <3>1. m \in 1..m /\ k \in 1..m
      BY <1>3
    <3>2. CASE k = s.i
      BY <2>1, <2>4, <3>1, <3>2
    <3>3. CASE k # s.i
      BY <2>1, <2>4, <3>1, <3>3
    <3> QED
      BY <3>2, <3>3
  <2>5. ASSUME NEW j \in 1..m, ~s.bits[j]
        PROVE  \E k \in 1..(m - 1) : ~r.bits[k] /\ r.txs[k] = s.txs[j]
    <3>1. j # s.i
      BY <1>4, <2>5
    <3>2. CASE j = m
      <4>1. s.i \in 1..(m - 1)
        BY <1>1, <1>3, <1>4, <3>1, <3>2
      <4> QED
        BY <2>1, <2>5, <3>2, <4>1
    <3>3. CASE j # m
      <4>1. j \in 1..(m - 1)
        BY <1>3, <3>3
      <4> QED
        BY <2>1, <2>5, <3>1, <4>1
    <3> QED
      BY <3>2, <3>3
  <2>6. Kept(r.txs, r.bits) = Kept(s.txs, s.bits)
    <3>1. \A x : x \in Kept(r.txs, r.bits) <=> \E k \in 1..(m - 1) : ~r.bits[k] /\ x = r.txs[k]
      BY <2>2 DEF Kept
    <3>2. \A x : x \in Kept(s.txs, s.bits) <=> \E j \in 1..m : ~s.bits[j] /\ x = s.txs[j]
      BY <1>3 DEF Kept
    <3>3. \A x : x \in Kept(r.txs, r.bits) <=> x \in Kept(s.txs, s.bits)
      BY <2>4, <2>5, <3>1, <3>2
    <3> QED
      BY <3>3
  <2> QED
    BY <1>2, <2>3, <2>6
<1>5. CASE ~(s.i <= m /\ s.bits[s.i])
  <2>1. s.i > Len(s.bits) \/ ~s.bits[s.i]
    BY <1>1, <1>3, <1>5
  <2>2. /\ r \in Loop /\ r.txs = s.txs /\ r.bits = s.bits
        /\ s.i > m => r.i = s.i
        /\ s.i <= m => r.i = s.i + 1
    BY <1>2, <1>3, <2>1, EraseOther
  <2>3. Aligned(r)
    BY <1>1, <2>2 DEF Aligned
  <2>4. \A k \in 1..m : k < r.i => ~s.bits[k]
    <3>1. \A k \in 1..m : k < s.i => ~s.bits[k]
      BY <1>3 DEF Scanned
    <3>2. CASE s.i > m
      BY <2>2, <3>1, <3>2
    <3>3. CASE s.i <= m
      <4>1. \A k \in 1..m : k < s.i + 1 => k < s.i \/ k = s.i
        BY <1>1, <1>3
      <4> QED
        BY <1>5, <2>2, <3>1, <3>3, <4>1
    <3> QED
      BY <1>1, <1>3, <3>2, <3>3
  <2>5. r.i <= m => m - r.i <= L - n - 1
    BY <1>1, <1>3, <2>2 DEF Scanned
  <2>6. Scanned(r, n, L)
    BY <1>3, <2>2, <2>3, <2>4, <2>5 DEF Scanned
  <2> QED
    BY <1>2, <2>2, <2>6
<1> QED
  BY <1>4, <1>5

\* erase removes what is flagged and nothing else.
LEMMA Erased ==
  ASSUME NEW txs \in Seq(TxId), NEW bits \in Seq(BOOLEAN), Len(bits) = Len(txs)
  PROVE  /\ erase(txs, bits).txs \in Seq(TxId) /\ erase(txs, bits).bits \in Seq(BOOLEAN)
         /\ AllUnset(erase(txs, bits).bits)
         /\ ToSet(erase(txs, bits).txs) = Kept(txs, bits)
<1>1. PICK L, e : L = Len(bits) /\ e = erase_loop(txs, bits)
  OBVIOUS
<1>2. L \in Nat
  BY <1>1
<1>3. /\ e[0] = [txs |-> txs, bits |-> bits, i |-> 1]
      /\ \A n \in 0..L : e[n] \in FitLoop
      /\ \A n \in 1..L : e[n] = erase_next(e[n - 1])
  BY <1>1, EraseLoop
<1> DEFINE G == {n \in 0..L : Scanned(e[n], n, L) /\ Kept(e[n].txs, e[n].bits) = Kept(txs, bits)}
<1>4. 0 \in G
  <2>1. Scanned(e[0], 0, L)
    BY <1>1, <1>2, <1>3 DEF Scanned, Aligned
  <2> QED
    BY <1>2, <1>3, <2>1
<1>5. ASSUME NEW n \in 1..L, n - 1 \in G PROVE n \in G
  <2>1. n \in 0..L /\ n - 1 \in 0..L
    BY <1>2
  <2>2. e[n - 1] \in Loop /\ Scanned(e[n - 1], n - 1, L)
    BY <1>3, <1>5, <2>1 DEF FitLoop
  <2>3. Scanned(e[n], n, L) /\ Kept(e[n].txs, e[n].bits) = Kept(e[n - 1].txs, e[n - 1].bits)
    BY <1>2, <1>3, <2>2, EraseScans
  <2> QED
    BY <1>5, <2>1, <2>3
<1> HIDE DEF G
<1>6. \A n \in 0..L : n \in G
  BY <1>2, <1>4, <1>5, Reached
<1>7. PICK s : s = e[L]
  OBVIOUS
<1>8. s \in Loop /\ Scanned(s, L, L) /\ Kept(s.txs, s.bits) = Kept(txs, bits)
  <2>1. L \in 0..L
    BY <1>2
  <2> QED
    BY <1>3, <1>6, <1>7, <2>1 DEF G, FitLoop
<1>9. s.txs \in Seq(TxId) /\ s.bits \in Seq(BOOLEAN) /\ s.i \in Nat /\ Len(s.bits) = Len(s.txs)
  BY <1>8 DEF Loop, Scanned, Aligned
<1>10. AllUnset(s.bits)
  BY <1>2, <1>8, <1>9 DEF Scanned, AllUnset
<1>11. ToSet(s.txs) = Kept(s.txs, s.bits)
  <2>1. DOMAIN s.txs = 1..Len(s.txs) /\ \A j \in 1..Len(s.txs) : ~s.bits[j]
    BY <1>9, <1>10 DEF AllUnset
  <2>2. {k \in 1..Len(s.txs) : ~s.bits[k]} = 1..Len(s.txs)
    BY <2>1
  <2> QED
    BY <2>1, <2>2 DEF ToSet, Kept
<1> QED
  BY <1>1, <1>7, <1>8, <1>9, <1>10, <1>11 DEF erase

-----------------------------------------------------------------------------
(* The number of transactions in a sequence of chunks.                     *)

LEMMA ChunkAt ==
  ASSUME NEW m \in Seq(Chunk), NEW n \in 1..Len(m)
  PROVE  /\ m[n] \in Chunk /\ m[n].txs \in Seq(TxId) /\ Len(m[n].txs) \in Nat
         /\ m[n].confirmed_txs_to_remove \in Seq(BOOLEAN)
<1>1. m[n] \in Chunk
  BY ElementOfSeq
<1> QED
  BY <1>1 DEF Chunk

LEMMA Sizes ==
  ASSUME NEW m \in Seq(Chunk)
  PROVE  /\ sizes(m)[0] = 0
         /\ \A n \in 0..Len(m) : sizes(m)[n] \in Nat
         /\ \A n \in 1..Len(m) : sizes(m)[n] = sizes(m)[n - 1] + Len(m[n].txs)
<1> DEFINE L == Len(m)
           Run(f) == f = [n \in 0..L |-> IF n = 0 THEN 0 ELSE f[n - 1] + Len(m[n].txs)]
<1>1. L \in Nat
  OBVIOUS
<1>2. \A n \in 1..L : Len(m[n].txs) \in Nat
  BY ChunkAt
<1>3. PICK g : g = [x \in Nat \X (1..L) |-> x[1] + Len(m[x[2]].txs)]
  OBVIOUS
<1>4. sizes(m) = CHOOSE h : Run(h)
  BY DEF sizes
<1> HIDE DEF L
<1>5. g \in [Nat \X (1..L) -> Nat]
  BY <1>2, <1>3
<1>6. PICK f : f \in [0..L -> Nat] /\ Steps(f, 0, L, g)
  BY <1>1, <1>5, Iterated
<1>7. \A n \in 0..L : f[n] = IF n = 0 THEN 0 ELSE f[n - 1] + Len(m[n].txs)
  <2>1. \A n \in 0..L : n = 0 \/ (n \in 1..L /\ n # 0 /\ n - 1 \in 0..L)
    BY <1>1
  <2>2. \A n \in 1..L : n - 1 \in 0..L
    BY <1>1
  <2>3. \A n \in 1..L : f[n] = f[n - 1] + Len(m[n].txs)
    BY <1>3, <1>6, <2>2 DEF Steps
  <2> QED
    BY <1>6, <2>1, <2>3, Zenon DEF Steps
<1>8. Run(f)
  BY <1>6, <1>7
<1>9. PICK e : e = sizes(m)
  OBVIOUS
<1>10. Run(e)
  BY <1>4, <1>8, <1>9
<1>11. e[0] = 0 /\ \A n \in 1..L : e[n] = e[n - 1] + Len(m[n].txs)
  <2>1. 0 \in 0..L /\ \A n \in 1..L : n \in 0..L /\ n # 0
    BY <1>1
  <2> QED
    BY <1>10, <2>1
<1>12. \A n \in 0..L : e[n] \in Nat
  <2> DEFINE G == {n \in 0..L : e[n] \in Nat}
  <2>1. 0 \in G
    BY <1>1, <1>11
  <2>2. ASSUME NEW n \in 1..L, n - 1 \in G PROVE n \in G
    BY <1>1, <1>2, <1>11, <2>2
  <2> HIDE DEF G
  <2>3. \A n \in 0..L : n \in G
    BY <1>1, <2>1, <2>2, Reached
  <2> QED
    BY <2>3 DEF G
<1> QED
  BY <1>9, <1>11, <1>12 DEF L

LEMMA SizeType ==
  ASSUME NEW m \in Seq(Chunk)
  PROVE  SizeOf(m) \in Nat
<1>1. Len(m) \in 0..Len(m)
  OBVIOUS
<1> QED
  BY <1>1, Sizes DEF SizeOf

\* The first n chunks alone decide.
LEMMA SizePrefix ==
  ASSUME NEW a \in Seq(Chunk), NEW b \in Seq(Chunk), NEW n \in Nat, n <= Len(a), n <= Len(b),
         \A k \in 1..n : a[k] = b[k]
  PROVE  sizes(a)[n] = sizes(b)[n]
<1>1. PICK x, y : x = sizes(a) /\ y = sizes(b)
  OBVIOUS
<1>2. /\ x[0] = 0 /\ \A k \in 1..n : x[k] = x[k - 1] + Len(a[k].txs)
      /\ y[0] = 0 /\ \A k \in 1..n : y[k] = y[k - 1] + Len(b[k].txs)
  <2>1. \A k \in 1..n : k \in 1..Len(a) /\ k \in 1..Len(b)
    OBVIOUS
  <2> QED
    BY <1>1, <2>1, Sizes
<1> DEFINE G == {k \in 0..n : x[k] = y[k]}
<1>3. 0 \in G
  BY <1>2
<1>4. ASSUME NEW k \in 1..n, k - 1 \in G PROVE k \in G
  BY <1>2, <1>4
<1> HIDE DEF G
<1>5. \A k \in 0..n : k \in G
  BY <1>3, <1>4, Reached
<1> QED
  BY <1>1, <1>5 DEF G

LEMMA SizeUpdated ==
  ASSUME NEW a \in Seq(Chunk), NEW b \in Seq(Chunk), Len(b) = Len(a), NEW i \in 1..Len(a),
         \A k \in 1..Len(a) : k # i => b[k] = a[k]
  PROVE  SizeOf(b) = SizeOf(a) - Len(a[i].txs) + Len(b[i].txs)
<1>1. PICK x, y, L : x = sizes(a) /\ y = sizes(b) /\ L = Len(a)
  OBVIOUS
<1>2. /\ L \in Nat /\ x[0] = 0 /\ \A k \in 1..L : x[k] = x[k - 1] + Len(a[k].txs)
      /\ y[0] = 0 /\ \A k \in 1..L : y[k] = y[k - 1] + Len(b[k].txs)
      /\ \A k \in 0..L : x[k] \in Nat /\ y[k] \in Nat
  <2>1. /\ sizes(a)[0] = 0 /\ \A k \in 1..Len(a) : sizes(a)[k] = sizes(a)[k - 1] + Len(a[k].txs)
        /\ \A k \in 0..Len(a) : sizes(a)[k] \in Nat
    BY Sizes
  <2>2. /\ sizes(b)[0] = 0 /\ \A k \in 1..Len(b) : sizes(b)[k] = sizes(b)[k - 1] + Len(b[k].txs)
        /\ \A k \in 0..Len(b) : sizes(b)[k] \in Nat
    BY Sizes
  <2> QED
    BY <1>1, <2>1, <2>2
<1>4. \A k \in 1..L : Len(a[k].txs) \in Nat /\ Len(b[k].txs) \in Nat
  BY <1>1, ChunkAt
<1>11. PICK u, v : u = Len(a[i].txs) /\ v = Len(b[i].txs)
  OBVIOUS
<1>12. u \in Nat /\ v \in Nat
  BY <1>1, <1>4, <1>11
<1>3. PICK d : d = v - u /\ d \in Int
  BY <1>12
<1> DEFINE G == {k \in 0..L : y[k] = x[k] + IF k >= i THEN d ELSE 0}
<1>5. 0 \in G
  BY <1>2
<1>6. ASSUME NEW k \in 1..L, k - 1 \in G PROVE k \in G
  <2>1. k - 1 \in 0..L /\ k \in 0..L /\ i \in Nat
    BY <1>1, <1>2
  <2>2. k - 1 >= i => y[k - 1] = x[k - 1] + d
    BY <1>6
  <2>6. ~(k - 1 >= i) => y[k - 1] = x[k - 1]
    <3>1. ~(k - 1 >= i) => y[k - 1] = x[k - 1] + 0
      BY <1>6
    <3>2. x[k - 1] \in Nat
      BY <1>2, <2>1
    <3> QED
      BY <3>1, <3>2
  <2>5. /\ x[k] = x[k - 1] + Len(a[k].txs) /\ y[k] = y[k - 1] + Len(b[k].txs)
        /\ x[k - 1] \in Nat /\ Len(a[k].txs) \in Nat /\ Len(b[k].txs) \in Nat
    BY <1>2, <1>4, <2>1
  <2>3. CASE k = i
    <3>1. ~(k - 1 >= i) /\ k >= i
      BY <2>1, <2>3
    <3>2. y[k] = x[k] + d
      <4>1. y[k - 1] = x[k - 1]
        BY <2>6, <3>1
      <4>2. PICK h : h = x[k - 1]
        OBVIOUS
      <4>3. h \in Nat /\ x[k] = h + u /\ y[k] = h + v
        BY <1>11, <2>3, <2>5, <4>1, <4>2
      <4> QED
        BY <1>3, <1>12, <4>3
    <3> QED
      BY <2>1, <3>1, <3>2
  <2>4. CASE k # i
    <3>1. b[k] = a[k]
      BY <1>1, <2>4
    <3>2. k - 1 >= i <=> k >= i
      BY <2>1, <2>4
    <3>3. CASE k >= i
      <4>1. y[k] = x[k] + d
        <5>1. PICK h, w : h = x[k - 1] /\ w = Len(a[k].txs)
          OBVIOUS
        <5>2. h \in Nat /\ w \in Nat /\ x[k] = h + w /\ y[k - 1] = h + d /\ y[k] = y[k - 1] + w
          BY <2>2, <2>5, <3>1, <3>2, <3>3, <5>1
        <5> QED
          BY <1>3, <5>2
      <4> QED
        BY <2>1, <3>3, <4>1
    <3>4. CASE ~(k >= i)
      <4>1. y[k] = x[k] + 0
        BY <2>5, <2>6, <3>1, <3>2, <3>4
      <4> QED
        BY <2>1, <3>4, <4>1
    <3> QED
      BY <3>3, <3>4
  <2> QED
    BY <2>3, <2>4
<1> HIDE DEF G
<1>7. \A k \in 0..L : k \in G
  BY <1>2, <1>5, <1>6, Reached
<1>8. y[L] = x[L] + d
  <2>1. L \in 0..L /\ L >= i
    BY <1>1, <1>2
  <2> QED
    BY <1>7, <2>1 DEF G
<1>9. x[L] \in Nat
  BY <1>1, <1>2
<1>10. SizeOf(a) = x[L] /\ SizeOf(b) = y[L]
  BY <1>1 DEF SizeOf
<1>13. y[L] = x[L] - u + v
  BY <1>3, <1>8, <1>9, <1>12
<1> QED
  BY <1>10, <1>11, <1>13

LEMMA SizeConcat ==
  ASSUME NEW a \in Seq(Chunk), NEW b \in Seq(Chunk)
  PROVE  SizeOf(a \o b) = SizeOf(a) + SizeOf(b)
<1>1. PICK c, x, y, z, p, q : /\ c = a \o b /\ x = sizes(a) /\ y = sizes(b) /\ z = sizes(c)
                              /\ p = Len(a) /\ q = Len(b)
  OBVIOUS
<1>2. /\ c \in Seq(Chunk) /\ Len(c) = p + q /\ p \in Nat /\ q \in Nat
      /\ \A k \in 1..p : c[k] = a[k]
      /\ \A k \in 1..q : c[p + k] = b[k]
  <2>1. /\ c \in Seq(Chunk) /\ Len(c) = p + q /\ p \in Nat /\ q \in Nat
        /\ \A k \in 1..(p + q) : c[k] = IF k <= p THEN a[k] ELSE b[k - p]
    BY <1>1, ConcatProperties
  <2>2. \A k \in 1..q : p + k \in 1..(p + q) /\ ~(p + k <= p) /\ (p + k) - p = k
    BY <2>1
  <2>3. \A k \in 1..p : k \in 1..(p + q) /\ k <= p
    BY <2>1
  <2> QED
    BY <2>1, <2>2, <2>3
<1>3. z[p] = x[p]
  <2>1. p <= Len(c) /\ p <= Len(a) /\ a \in Seq(Chunk)
    BY <1>1, <1>2
  <2>2. sizes(c)[p] = sizes(a)[p]
    BY <1>2, <2>1, SizePrefix
  <2> QED
    BY <1>1, <2>2
<1>4. /\ y[0] = 0 /\ \A k \in 1..q : y[k] = y[k - 1] + Len(b[k].txs)
      /\ \A k \in 0..q : y[k] \in Nat
  BY <1>1, Sizes
<1>5. \A k \in 1..q : z[p + k] = z[p + (k - 1)] + Len(b[k].txs)
  <2>1. \A n \in 1..(p + q) : z[n] = z[n - 1] + Len(c[n].txs)
    BY <1>1, <1>2, Sizes
  <2>2. \A k \in 1..q : p + k \in 1..(p + q) /\ (p + k) - 1 = p + (k - 1)
    BY <1>2
  <2> QED
    BY <1>2, <2>1, <2>2
<1>6. x[p] \in Nat
  BY <1>1, <1>2, Sizes
<1>7. \A k \in 1..q : Len(b[k].txs) \in Nat
  BY <1>1, ChunkAt
<1> DEFINE G == {k \in 0..q : z[p + k] = x[p] + y[k]}
<1>8. 0 \in G
  BY <1>2, <1>3, <1>4, <1>6
<1>9. ASSUME NEW k \in 1..q, k - 1 \in G PROVE k \in G
  <2>1. k \in 0..q /\ k - 1 \in 0..q
    BY <1>2
  <2>2. z[p + (k - 1)] = x[p] + y[k - 1]
    BY <1>9
  <2> QED
    <3>1. PICK d, h, w : d = Len(b[k].txs) /\ h = x[p] /\ w = y[k - 1]
      OBVIOUS
    <3>2. /\ d \in Nat /\ h \in Nat /\ w \in Nat
          /\ z[p + k] = (h + w) + d /\ y[k] = w + d
      BY <1>4, <1>5, <1>6, <1>7, <2>1, <2>2, <3>1
    <3>3. z[p + k] = h + y[k]
      BY <3>2
    <3> QED
      BY <2>1, <3>1, <3>3
<1> HIDE DEF G
<1>10. \A k \in 0..q : k \in G
  BY <1>2, <1>8, <1>9, Reached
<1>11. z[p + q] = x[p] + y[q]
  BY <1>2, <1>10 DEF G
<1> QED
  BY <1>1, <1>2, <1>11 DEF SizeOf

-----------------------------------------------------------------------------
(* Joining chunks.                                                         *)

\* t is in the chunk c.
Has(c, t) == \E j \in 1..Len(c.txs) : c.txs[j] = t

LEMMA TxsOf ==
  ASSUME NEW c \in Chunk, NEW t
  PROVE  t \in ToSet(c.txs) <=> Has(c, t)
<1>1. DOMAIN c.txs = 1..Len(c.txs)
  BY DEF Chunk
<1> QED
  BY <1>1 DEF ToSet, Has

LEMMA TxsInAll ==
  ASSUME NEW m \in Seq(Chunk), NEW t
  PROVE  t \in TxsIn(m) <=> \E i \in 1..Len(m) : Has(m[i], t)
<1>1. DOMAIN m = 1..Len(m)
  OBVIOUS
<1>2. \A i \in 1..Len(m) : t \in ToSet(m[i].txs) <=> Has(m[i], t)
  BY ChunkAt, TxsOf
<1>3. t \in TxsIn(m) <=> \E i \in 1..Len(m) : t \in ToSet(m[i].txs)
  BY <1>1 DEF TxsIn
<1> QED
  BY <1>2, <1>3

\* No transaction is in two chunks.
Apart(m) == \A i, k \in 1..Len(m) : \A t : Has(m[i], t) /\ Has(m[k], t) => i = k
Quiet(m) == \A i \in 1..Len(m) : AllUnset(m[i].confirmed_txs_to_remove)

LEMMA Joined ==
  ASSUME NEW c \in Chunk, NEW d \in Chunk
  PROVE  /\ join(c, d) \in Chunk /\ Len(join(c, d).txs) = Len(c.txs) + Len(d.txs)
         /\ \A t : Has(join(c, d), t) <=> Has(c, t) \/ Has(d, t)
         /\ AllUnset(c.confirmed_txs_to_remove) /\ AllUnset(d.confirmed_txs_to_remove)
              => AllUnset(join(c, d).confirmed_txs_to_remove)
<1>1. PICK a, b, x, y : /\ a = c.txs /\ b = d.txs
                        /\ x = c.confirmed_txs_to_remove /\ y = d.confirmed_txs_to_remove
  OBVIOUS
<1>2. a \in Seq(TxId) /\ b \in Seq(TxId) /\ x \in Seq(BOOLEAN) /\ y \in Seq(BOOLEAN)
  BY <1>1 DEF Chunk
<1>3. join(c, d) = [txs |-> a \o b, confirmed_txs_to_remove |-> x \o y]
  BY <1>1 DEF join
<1>4. PICK p, q : p = Len(a) /\ q = Len(b) /\ p \in Nat /\ q \in Nat
  <2>1. Len(a) \in Nat /\ Len(b) \in Nat
    BY <1>2, LenProperties
  <2> QED
    BY <2>1
<1>5. /\ a \o b \in Seq(TxId) /\ Len(a \o b) = p + q
      /\ \A k \in 1..(p + q) : (a \o b)[k] = IF k <= p THEN a[k] ELSE b[k - p]
  BY <1>2, <1>4, ConcatProperties, SMTT(30)
<1>6. PICK f, g : f = Len(x) /\ g = Len(y) /\ f \in Nat /\ g \in Nat
  BY <1>2
<1>7. /\ x \o y \in Seq(BOOLEAN) /\ Len(x \o y) = f + g
      /\ \A k \in 1..(f + g) : (x \o y)[k] = IF k <= f THEN x[k] ELSE y[k - f]
  BY <1>2, <1>6, ConcatProperties
<1>8. join(c, d) \in Chunk /\ Len(join(c, d).txs) = Len(c.txs) + Len(d.txs)
  BY <1>1, <1>3, <1>4, <1>5, <1>7 DEF Chunk
<1>9. ASSUME NEW t PROVE Has(join(c, d), t) <=> Has(c, t) \/ Has(d, t)
  <2>1. Has(join(c, d), t) <=> \E k \in 1..(p + q) : (a \o b)[k] = t
    BY <1>3, <1>5 DEF Has
  <2>2. Has(c, t) <=> \E k \in 1..p : a[k] = t
    BY <1>1, <1>4 DEF Has
  <2>3. Has(d, t) <=> \E k \in 1..q : b[k] = t
    BY <1>1, <1>4 DEF Has
  <2>4. ASSUME NEW k \in 1..(p + q), (a \o b)[k] = t
        PROVE  (\E h \in 1..p : a[h] = t) \/ (\E h \in 1..q : b[h] = t)
    <3>1. CASE k <= p
      BY <1>4, <1>5, <2>4, <3>1
    <3>2. CASE ~(k <= p)
      <4>1. k - p \in 1..q
        BY <1>4, <3>2
      <4> QED
        BY <1>5, <2>4, <3>2, <4>1
    <3> QED
      BY <3>1, <3>2
  <2>5. ASSUME NEW k \in 1..p, a[k] = t PROVE \E h \in 1..(p + q) : (a \o b)[h] = t
    <3>1. k \in 1..(p + q) /\ k <= p
      BY <1>4
    <3> QED
      BY <1>5, <2>5, <3>1
  <2>6. ASSUME NEW k \in 1..q, b[k] = t PROVE \E h \in 1..(p + q) : (a \o b)[h] = t
    <3>1. p + k \in 1..(p + q) /\ ~(p + k <= p) /\ (p + k) - p = k
      BY <1>4
    <3> QED
      BY <1>5, <2>6, <3>1
  <2> QED
    BY <2>1, <2>2, <2>3, <2>4, <2>5, <2>6
<1>10. ASSUME AllUnset(x), AllUnset(y) PROVE AllUnset(x \o y)
  <2>1. ASSUME NEW k \in 1..(f + g) PROVE ~(x \o y)[k]
    <3>1. CASE k <= f
      <4>1. k \in 1..f
        BY <1>6, <3>1
      <4> QED
        BY <1>6, <1>7, <1>10, <3>1, <4>1 DEF AllUnset
    <3>2. CASE ~(k <= f)
      <4>1. k - f \in 1..g
        BY <1>6, <3>2
      <4> QED
        BY <1>6, <1>7, <1>10, <3>2, <4>1 DEF AllUnset
    <3> QED
      BY <3>1, <3>2
  <2> QED
    BY <1>7, <2>1 DEF AllUnset
<1>11. join(c, d).confirmed_txs_to_remove = x \o y
  BY <1>3
<1>12. AllUnset(x) /\ AllUnset(y) => AllUnset(join(c, d).confirmed_txs_to_remove)
  BY <1>10, <1>11
<1> QED
  BY <1>1, <1>8, <1>9, <1>12

\* The chunks of m, joined in some way.
Regrouped(r, m) ==
  /\ r \in Seq(Chunk) /\ SizeOf(r) = SizeOf(m)
  /\ \A t : t \in TxsIn(r) <=> t \in TxsIn(m)
  /\ Apart(m) => Apart(r)
  /\ Quiet(m) => Quiet(r)

JoinAt(m, i) == Overwrite([m EXCEPT ![i] = join(m[i], m[i + 1])], i + 1)

LEMMA JoinedAt ==
  ASSUME NEW m \in Seq(Chunk), NEW i \in 1..(Len(m) - 1)
  PROVE  Regrouped(JoinAt(m, i), m)
<1>1. PICK L, c : L = Len(m) /\ c = join(m[i], m[i + 1])
  OBVIOUS
<1>2. L \in Nat /\ i \in 1..L /\ i + 1 \in 1..L /\ i \in Nat /\ L - 1 \in Nat /\ L \in 1..L
  BY <1>1
<1>3. m[i] \in Chunk /\ m[i + 1] \in Chunk
  BY <1>1, <1>2, ChunkAt
<1>4. /\ c \in Chunk /\ Len(c.txs) = Len(m[i].txs) + Len(m[i + 1].txs)
      /\ \A t : Has(c, t) <=> Has(m[i], t) \/ Has(m[i + 1], t)
      /\ AllUnset(m[i].confirmed_txs_to_remove) /\ AllUnset(m[i + 1].confirmed_txs_to_remove)
           => AllUnset(c.confirmed_txs_to_remove)
  BY <1>1, <1>3, Joined
<1>5. PICK a : a = [m EXCEPT ![i] = c]
  OBVIOUS
<1>6. /\ a \in Seq(Chunk) /\ Len(a) = L
      /\ \A k \in 1..L : a[k] = IF k = i THEN c ELSE m[k]
  BY <1>1, <1>2, <1>4, <1>5, ExceptSeq
<1>7. PICK b : b = [a EXCEPT ![i + 1] = a[L]]
  OBVIOUS
<1>8. /\ b \in Seq(Chunk) /\ Len(b) = L
      /\ \A k \in 1..L : b[k] = IF k = i + 1 THEN a[L] ELSE a[k]
  BY <1>2, <1>6, <1>7, ElementOfSeq, ExceptSeq
<1>9. PICK r : r = JoinAt(m, i)
  OBVIOUS
<1>10. /\ r \in Seq(Chunk) /\ Len(r) = L - 1
       /\ \A k \in 1..(L - 1) : r[k] = IF k = i + 1 THEN a[L] ELSE a[k]
  <2>1. r = Overwrite(a, i + 1)
    BY <1>1, <1>5, <1>9 DEF JoinAt
  <2>2. PICK j : j = i + 1 /\ j \in 1..Len(a)
    BY <1>2, <1>6
  <2>3. /\ Overwrite(a, j) \in Seq(Chunk) /\ Len(Overwrite(a, j)) = Len(a) - 1
        /\ \A k \in 1..(Len(a) - 1) : Overwrite(a, j)[k] = IF k = j THEN a[Len(a)] ELSE a[k]
    <3>1. Closed(Overwrite(a, j), a, j, Chunk)
      BY <1>6, <2>2, Overwritten
    <3> QED
      BY <3>1 DEF Closed
  <2> QED
    BY <1>6, <2>1, <2>2, <2>3
<1>11. \A k \in 1..(L - 1) : k \in 1..L /\ r[k] = b[k]
  BY <1>2, <1>8, <1>10
<1>12. SizeOf(r) = SizeOf(m)
  <2>1. SizeOf(a) = SizeOf(m) - Len(m[i].txs) + Len(a[i].txs)
    <3>1. \A k \in 1..Len(m) : k # i => a[k] = m[k]
      BY <1>1, <1>6
    <3> QED
      BY <1>1, <1>2, <1>6, <3>1, SizeUpdated
  <2>2. SizeOf(b) = SizeOf(a) - Len(a[i + 1].txs) + Len(b[i + 1].txs)
    <3>1. \A k \in 1..Len(a) : k # i + 1 => b[k] = a[k]
      BY <1>6, <1>8
    <3> QED
      BY <1>2, <1>6, <1>8, <3>1, SizeUpdated
  <2>3. SizeOf(b) = sizes(b)[L - 1] + Len(b[L].txs)
    BY <1>2, <1>8, Sizes DEF SizeOf
  <2>4. SizeOf(r) = sizes(b)[L - 1]
    <3>1. L - 1 <= Len(r) /\ L - 1 <= Len(b)
      BY <1>2, <1>8, <1>10
    <3>2. sizes(r)[L - 1] = sizes(b)[L - 1]
      BY <1>2, <1>8, <1>10, <1>11, <3>1, SizePrefix
    <3> QED
      BY <1>10, <3>2 DEF SizeOf
  <2>5. b[L] = a[L] /\ b[i + 1] = a[L] /\ a[i] = c /\ a[i + 1] = m[i + 1]
    BY <1>2, <1>6, <1>8
  <2>6. PICK x, y, z : x = Len(m[i].txs) /\ y = Len(m[i + 1].txs) /\ z = Len(a[L].txs)
    OBVIOUS
  <2>7. x \in Nat /\ y \in Nat /\ z \in Nat
    BY <1>1, <1>2, <1>6, <2>6, ChunkAt
  <2>8. PICK u, v, w : u = SizeOf(m) /\ v = SizeOf(r) /\ w = SizeOf(a)
    OBVIOUS
  <2>9. u \in Nat /\ v \in Nat /\ w \in Nat
    BY <1>6, <1>10, <2>8, SizeType
  <2>10. w = u - x + (x + y)
    BY <1>4, <2>1, <2>5, <2>6, <2>8
  <2>11. v + z = w - y + z
    BY <2>2, <2>3, <2>4, <2>5, <2>6, <2>8
  <2>12. u = v
    BY <2>7, <2>9, <2>10, <2>11
  <2> QED
    BY <2>8, <2>12
<1>13. ASSUME NEW t PROVE t \in TxsIn(r) <=> t \in TxsIn(m)
  <2>1. t \in TxsIn(r) <=> \E k \in 1..(L - 1) : Has(r[k], t)
    BY <1>10, TxsInAll
  <2>2. t \in TxsIn(m) <=> \E k \in 1..L : Has(m[k], t)
    BY <1>1, TxsInAll
  <2>3. ASSUME NEW k \in 1..(L - 1), Has(r[k], t) PROVE \E h \in 1..L : Has(m[h], t)
    BY <1>2, <1>4, <1>6, <1>10, <2>3
  <2>4. ASSUME NEW k \in 1..L, Has(m[k], t) PROVE \E h \in 1..(L - 1) : Has(r[h], t)
    <3>1. CASE k = i \/ k = i + 1
      <4>1. i \in 1..(L - 1) /\ i # i + 1
        BY <1>1, <1>2
      <4>2. r[i] = c
        BY <1>2, <1>6, <1>10, <4>1
      <4> QED
        BY <1>4, <2>4, <3>1, <4>1, <4>2
    <3>2. CASE k # i /\ k # i + 1 /\ k # L
      <4>1. k \in 1..(L - 1) /\ r[k] = m[k]
        BY <1>2, <1>6, <1>10, <3>2
      <4> QED
        BY <2>4, <4>1
    <3>3. CASE k = L /\ k # i /\ k # i + 1
      <4>1. i + 1 \in 1..(L - 1) /\ r[i + 1] = m[L]
        BY <1>2, <1>6, <1>10, <3>3
      <4> QED
        BY <2>4, <3>3, <4>1
    <3> QED
      BY <3>1, <3>2, <3>3
  <2> QED
    BY <2>1, <2>2, <2>3, <2>4
<1>14. \A k \in 1..(L - 1) : r[k] = IF k = i THEN c ELSE IF k = i + 1 THEN m[L] ELSE m[k]
  <2>1. i + 1 \in 1..(L - 1) => a[L] = m[L]
    BY <1>2, <1>6
  <2> QED
    BY <1>2, <1>6, <1>10, <2>1
<1>15. ASSUME Apart(m) PROVE Apart(r)
  <2> SUFFICES ASSUME NEW k \in 1..(L - 1), NEW h \in 1..(L - 1), NEW t, Has(r[k], t), Has(r[h], t)
               PROVE  k = h
    BY <1>10 DEF Apart
  <2>1. \A x, y \in 1..L : Has(m[x], t) /\ Has(m[y], t) => x = y
    BY <1>1, <1>15 DEF Apart
  <2>2. ASSUME NEW n \in 1..(L - 1), Has(r[n], t)
        PROVE  \E x \in 1..L : /\ Has(m[x], t)
                               /\ n = i => x = i \/ x = i + 1
                               /\ n = i + 1 => x = L
                               /\ n # i /\ n # i + 1 => x = n
    <3>1. CASE n = i
      BY <1>2, <1>4, <1>14, <2>2, <3>1
    <3>2. CASE n = i + 1
      BY <1>2, <1>14, <2>2, <3>2
    <3>3. CASE n # i /\ n # i + 1
      BY <1>2, <1>14, <2>2, <3>3
    <3> QED
      BY <3>1, <3>2, <3>3
  <2>3. PICK x \in 1..L : /\ Has(m[x], t)
                          /\ k = i => x = i \/ x = i + 1
                          /\ k = i + 1 => x = L
                          /\ k # i /\ k # i + 1 => x = k
    BY <2>2
  <2>4. PICK y \in 1..L : /\ Has(m[y], t)
                          /\ h = i => y = i \/ y = i + 1
                          /\ h = i + 1 => y = L
                          /\ h # i /\ h # i + 1 => y = h
    BY <2>2
  <2>5. x = y
    BY <2>1, <2>3, <2>4
  <2> QED
    BY <1>2, <2>3, <2>4, <2>5
<1>16. ASSUME Quiet(m) PROVE Quiet(r)
  <2> SUFFICES ASSUME NEW k \in 1..(L - 1) PROVE AllUnset(r[k].confirmed_txs_to_remove)
    BY <1>10 DEF Quiet
  <2>1. \A n \in 1..L : AllUnset(m[n].confirmed_txs_to_remove)
    BY <1>1, <1>16 DEF Quiet
  <2>2. AllUnset(c.confirmed_txs_to_remove) /\ k \in 1..L
    BY <1>2, <1>4, <2>1
  <2> QED
    BY <1>2, <1>14, <2>1, <2>2
<1> QED
  BY <1>9, <1>10, <1>12, <1>13, <1>15, <1>16 DEF Regrouped

JoinState == [m : Seq(Chunk), i : Nat \ {0}]

LEMMA RegroupedAgain ==
  ASSUME NEW m \in Seq(Chunk), NEW n, NEW r, Regrouped(n, m), Regrouped(r, n)
  PROVE  Regrouped(r, m)
BY DEF Regrouped

LEMMA JoinNext ==
  ASSUME NEW s \in JoinState
  PROVE  join_next(s) \in JoinState /\ Regrouped(join_next(s).m, s.m)
<1>1. PICK m, i : m = s.m /\ i = s.i
  OBVIOUS
<1>2. m \in Seq(Chunk) /\ i \in Nat \ {0} /\ s = [m |-> m, i |-> i]
  BY <1>1 DEF JoinState
<1>3. Len(m) \in Nat
  BY <1>2
<1>4. Regrouped(m, m)
  BY <1>2 DEF Regrouped
<1>5. CASE i >= Len(m)
  <2>1. join_next(s) = s
    BY <1>1, <1>5 DEF join_next
  <2> QED
    BY <1>1, <1>4, <2>1
<1>6. CASE ~(i >= Len(m)) /\ Len(m[i].txs) + Len(m[i + 1].txs) < TARGET_CHUNK_SIZE
  <2>1. i \in 1..(Len(m) - 1)
    BY <1>2, <1>3, <1>6
  <2>2. join_next(s) = [s EXCEPT !.m = JoinAt(m, i)]
    BY <1>1, <1>6 DEF join_next, JoinAt
  <2>3. Regrouped(JoinAt(m, i), m)
    BY <1>2, <2>1, JoinedAt
  <2>4. PICK r : r = JoinAt(m, i)
    OBVIOUS
  <2>5. r \in Seq(Chunk)
    BY <2>3, <2>4 DEF Regrouped
  <2>6. join_next(s) = [m |-> r, i |-> i]
    BY <1>2, <2>2, <2>4
  <2> QED
    BY <1>1, <1>2, <2>3, <2>4, <2>5, <2>6 DEF JoinState
<1>7. CASE ~(i >= Len(m)) /\ ~(Len(m[i].txs) + Len(m[i + 1].txs) < TARGET_CHUNK_SIZE)
  <2>1. join_next(s) = [s EXCEPT !.i = i + 1]
    BY <1>1, <1>7 DEF join_next
  <2>2. join_next(s) = [m |-> m, i |-> i + 1]
    BY <1>2, <2>1
  <2>3. i + 1 \in Nat \ {0}
    BY <1>2
  <2> QED
    BY <1>1, <1>2, <1>4, <2>2, <2>3 DEF JoinState
<1> QED
  BY <1>5, <1>6, <1>7

\* join_small_chunks loses nothing.
LEMMA JoinedSmall ==
  ASSUME NEW m \in Seq(Chunk)
  PROVE  Regrouped(join_small_chunks(m), m)
<1> DEFINE L == Len(m)
           start == [m |-> m, i |-> 1]
           Run(f) == f = [n \in 0..L |-> IF n = 0 THEN start ELSE join_next(f[n - 1])]
<1>1. L \in Nat
  OBVIOUS
<1>2. start \in JoinState /\ start.m = m
  BY DEF JoinState
<1>3. PICK g : g = [x \in JoinState \X (1..L) |-> join_next(x[1])]
  OBVIOUS
<1>4. g \in [JoinState \X (1..L) -> JoinState]
  BY <1>3, JoinNext
<1>5. join_loop(m) = CHOOSE h : Run(h)
  BY DEF join_loop
<1>13. join_small_chunks(m) = join_loop(m)[L].m
  BY DEF join_small_chunks
<1> HIDE DEF L, start
<1>6. PICK f : f \in [0..L -> JoinState] /\ Steps(f, start, L, g)
  BY <1>1, <1>2, <1>4, Iterated
<1>7. \A n \in 0..L : f[n] = IF n = 0 THEN start ELSE join_next(f[n - 1])
  <2>1. \A n \in 0..L : n = 0 \/ (n \in 1..L /\ n # 0 /\ n - 1 \in 0..L)
    BY <1>1
  <2>2. \A n \in 1..L : n - 1 \in 0..L
    BY <1>1
  <2>3. \A n \in 1..L : f[n] = join_next(f[n - 1])
    BY <1>3, <1>6, <2>2 DEF Steps
  <2> QED
    BY <1>6, <2>1, <2>3, Zenon DEF Steps
<1>8. Run(f)
  BY <1>6, <1>7
<1>9. PICK e : e = join_loop(m)
  OBVIOUS
<1>10. Run(e)
  BY <1>5, <1>8, <1>9
<1>11. e[0] = start /\ \A n \in 1..L : e[n] = join_next(e[n - 1])
  <2>1. 0 \in 0..L /\ \A n \in 1..L : n \in 0..L /\ n # 0
    BY <1>1
  <2> QED
    BY <1>10, <2>1
<1> DEFINE G == {n \in 0..L : e[n] \in JoinState /\ Regrouped(e[n].m, m)}
<1>14. 0 \in G
  <2>1. Regrouped(m, m)
    BY DEF Regrouped
  <2> QED
    BY <1>1, <1>2, <1>11, <2>1
<1>15. ASSUME NEW n \in 1..L, n - 1 \in G PROVE n \in G
  <2>1. PICK s : s = e[n - 1]
    OBVIOUS
  <2>2. s \in JoinState /\ Regrouped(s.m, m) /\ n \in 0..L
    BY <1>1, <1>15, <2>1
  <2>3. join_next(s) \in JoinState /\ Regrouped(join_next(s).m, s.m)
    BY <2>2, JoinNext
  <2>4. Regrouped(join_next(s).m, m)
    BY <2>2, <2>3, RegroupedAgain
  <2> QED
    BY <1>11, <2>1, <2>2, <2>3, <2>4
<1> HIDE DEF G
<1>16. \A n \in 0..L : n \in G
  BY <1>1, <1>14, <1>15, Reached
<1>17. L \in G
  BY <1>1, <1>16
<1> QED
  BY <1>9, <1>13, <1>17 DEF G

-----------------------------------------------------------------------------
(* Batches.                                                                *)

LEMMA Multiples ==
  ASSUME NEW i \in Nat, NEW k \in Nat, NEW T \in Nat, i <= k
  PROVE  i * T \in Nat /\ i * T <= k * T /\ (i + 1) * T = i * T + T
OBVIOUS

LEMMA Quotient ==
  ASSUME NEW n \in Nat, NEW T \in Nat \ {0}
  PROVE  n \div T \in Nat /\ (n \div T) * T <= n /\ n < (n \div T) * T + T
OBVIOUS

\* Chunk i has the elements lo + 1 .. hi of the batch.
Lower(i) == (i - 1) * TARGET_CHUNK_SIZE
Upper(b, i) == IF i * TARGET_CHUNK_SIZE < Len(b) THEN i * TARGET_CHUNK_SIZE ELSE Len(b)
Chunks(b) == (Len(b) \div TARGET_CHUNK_SIZE) + 1

LEMMA Bounds ==
  ASSUME NEW b \in Seq(TxId)
  PROVE  /\ Chunks(b) \in Nat \ {0} /\ Lower(1) = 0 /\ Upper(b, Chunks(b)) = Len(b)
         /\ \A i \in 1..Chunks(b) : /\ Lower(i) \in Nat /\ Upper(b, i) \in Nat
                                    /\ Lower(i) <= Upper(b, i) /\ Upper(b, i) <= Len(b)
         /\ \A i \in 1..(Chunks(b) - 1) : Upper(b, i) = Lower(i + 1)
         /\ \A i, k \in 1..Chunks(b) : i < k => Upper(b, i) <= Lower(k)
         /\ \A j \in 1..Len(b) : \E i \in 1..Chunks(b) : Lower(i) < j /\ j <= Upper(b, i)
<1>1. PICK T, n, q : T = TARGET_CHUNK_SIZE /\ n = Len(b) /\ q = n \div T
  OBVIOUS
<1>2. T \in Nat \ {0} /\ n \in Nat
  BY <1>1, MempoolAssumption
<1>3. q \in Nat /\ q * T <= n /\ n < q * T + T
  BY <1>1, <1>2, Quotient
<1>4. Chunks(b) = q + 1
  BY <1>1 DEF Chunks
<1>5. /\ \A i : Lower(i) = (i - 1) * T
      /\ \A i : Upper(b, i) = IF i * T < n THEN i * T ELSE n
  BY <1>1 DEF Lower, Upper
<1>6. ASSUME NEW i \in 1..(q + 1)
      PROVE  /\ (i - 1) * T \in Nat /\ (i - 1) * T <= n
             /\ i * T = (i - 1) * T + T
             /\ i <= q => i * T <= n
             /\ i = q + 1 => ~(i * T < n)
  <2>1. i - 1 \in Nat /\ i \in Nat /\ i - 1 <= q /\ (i - 1) + 1 = i
    BY <1>3
  <2>2. (i - 1) * T \in Nat /\ (i - 1) * T <= q * T /\ ((i - 1) + 1) * T = (i - 1) * T + T
    BY <1>2, <1>3, <2>1, Multiples
  <2>3. i <= q => i * T <= q * T
    BY <1>2, <1>3, <2>1, Multiples
  <2>4. q * T \in Nat /\ (q + 1) * T = q * T + T
    BY <1>2, <1>3, Multiples
  <2>5. i * T = (i - 1) * T + T
    BY <2>1, <2>2
  <2>6. PICK a, c, d : a = (i - 1) * T /\ c = q * T /\ d = i * T
    OBVIOUS
  <2>7. a \in Nat /\ a <= c /\ c \in Nat /\ d = a + T /\ (i <= q => d <= c) /\ (i = q + 1 => d = c + T)
    BY <2>2, <2>3, <2>4, <2>5, <2>6
  <2>8. c <= n /\ n < c + T
    BY <1>3, <2>6
  <2>9. a <= n /\ (i <= q => d <= n) /\ (i = q + 1 => ~(d < n))
    BY <1>2, <2>7, <2>8
  <2> QED
    BY <2>6, <2>7, <2>9
<1>7. Lower(1) = 0
  BY <1>2, <1>5
<1>8. Upper(b, q + 1) = n
  <2>1. q + 1 \in 1..(q + 1)
    BY <1>3
  <2> QED
    BY <1>5, <1>6, <2>1
<1>9. ASSUME NEW i \in 1..(q + 1)
      PROVE  Lower(i) \in Nat /\ Upper(b, i) \in Nat /\ Lower(i) <= Upper(b, i) /\ Upper(b, i) <= n
  <2>1. PICK a, d : a = (i - 1) * T /\ d = i * T
    OBVIOUS
  <2>2. a \in Nat /\ a <= n /\ d = a + T
    BY <1>6, <2>1
  <2>3. Lower(i) = a /\ Upper(b, i) = IF d < n THEN d ELSE n
    BY <1>5, <2>1
  <2> QED
    BY <1>2, <2>2, <2>3
<1>10. ASSUME NEW i \in 1..q PROVE Upper(b, i) = Lower(i + 1)
  <2>1. i \in 1..(q + 1) /\ (i + 1) - 1 = i /\ i <= q
    BY <1>3
  <2>2. PICK d : d = i * T
    OBVIOUS
  <2>3. d <= n /\ d \in Nat
    <3>1. PICK a : a = (i - 1) * T
      OBVIOUS
    <3>2. a \in Nat /\ d = a + T /\ d <= n
      BY <1>6, <2>1, <2>2, <3>1
    <3> QED
      BY <1>2, <3>2
  <2>4. Upper(b, i) = IF d < n THEN d ELSE n
    BY <1>5, <2>2
  <2>5. Upper(b, i) = d
    BY <1>2, <2>3, <2>4
  <2> QED
    BY <1>5, <2>1, <2>2, <2>5
<1>11. ASSUME NEW i \in 1..(q + 1), NEW k \in 1..(q + 1), i < k PROVE Upper(b, i) <= Lower(k)
  <2>1. i \in Nat /\ k - 1 \in Nat /\ i <= k - 1 /\ i \in 1..q
    BY <1>3, <1>11
  <2>2. i * T <= (k - 1) * T
    BY <1>2, <2>1, Multiples
  <2>3. Upper(b, i) = Lower(i + 1) /\ (i + 1) - 1 = i
    BY <1>10, <2>1
  <2> QED
    BY <1>5, <2>2, <2>3
<1>12. ASSUME NEW j \in 1..n PROVE \E i \in 1..(q + 1) : Lower(i) < j /\ j <= Upper(b, i)
  <2>1. PICK h : h = (j - 1) \div T
    OBVIOUS
  <2>2. j - 1 \in Nat
    BY <1>2
  <2>3. h \in Nat /\ h * T <= j - 1 /\ j - 1 < h * T + T
    BY <1>2, <2>1, <2>2, Quotient
  <2>4. h <= q
    <3> SUFFICES ASSUME q + 1 <= h PROVE FALSE
      BY <1>3, <2>3
    <3>1. (q + 1) * T <= h * T /\ (q + 1) * T = q * T + T
      BY <1>2, <1>3, <2>3, Multiples
    <3>2. PICK a, c : a = q * T /\ c = h * T
      OBVIOUS
    <3>3. a + T <= c /\ c <= j - 1 /\ n < a + T /\ a \in Nat /\ c \in Nat
      BY <1>2, <1>3, <2>3, <3>1, <3>2, Multiples
    <3> QED
      BY <1>2, <3>3
  <2>5. PICK i : i = h + 1 /\ i \in 1..(q + 1) /\ i - 1 = h
    BY <1>3, <2>3, <2>4
  <2>6. PICK a, d : a = (i - 1) * T /\ d = i * T
    OBVIOUS
  <2>7. a \in Nat /\ d = a + T /\ a <= j - 1 /\ j - 1 < a + T
    BY <1>6, <2>3, <2>5, <2>6
  <2>8. Lower(i) = a /\ Upper(b, i) = IF d < n THEN d ELSE n
    BY <1>5, <2>6
  <2>9. Lower(i) < j /\ j <= Upper(b, i)
    BY <1>2, <2>7, <2>8
  <2> QED
    BY <2>5, <2>9
<1> QED
  BY <1>1, <1>3, <1>4, <1>7, <1>8, <1>9, <1>10, <1>11, <1>12

LEMMA Chunkified ==
  ASSUME NEW b \in Batches
  PROVE  /\ chunkify(b) \in Seq(Chunk) /\ SizeOf(chunkify(b)) = Len(b)
         /\ Quiet(chunkify(b)) /\ Apart(chunkify(b))
         /\ \A t : t \in TxsIn(chunkify(b)) <=> t \in ToSet(b)
<1>1. b \in Seq(TxId) /\ IsInjective(b)
  BY MempoolAssumption
<1>2. PICK n, N, c : n = Len(b) /\ N = Chunks(b) /\ c = chunkify(b)
  OBVIOUS
<1>3. n \in Nat /\ DOMAIN b = 1..n
  BY <1>1, <1>2
<1>4. /\ N \in Nat \ {0} /\ Lower(1) = 0 /\ Upper(b, N) = n
      /\ \A i \in 1..N : /\ Lower(i) \in Nat /\ Upper(b, i) \in Nat
                         /\ Lower(i) <= Upper(b, i) /\ Upper(b, i) <= n
      /\ \A i \in 1..(N - 1) : Upper(b, i) = Lower(i + 1)
      /\ \A i, k \in 1..N : i < k => Upper(b, i) <= Lower(k)
      /\ \A j \in 1..n : \E i \in 1..N : Lower(i) < j /\ j <= Upper(b, i)
  BY <1>1, <1>2, Bounds
<1>5. c = [i \in 1..N |-> MempoolChunk(SubSeq(b, Lower(i) + 1, Upper(b, i)))]
  BY <1>2 DEF chunkify, Chunks, Lower, Upper
<1>6. ASSUME NEW i \in 1..N
      PROVE  /\ c[i] \in Chunk /\ c[i].confirmed_txs_to_remove = <<>>
             /\ Len(c[i].txs) = Upper(b, i) - Lower(i)
             /\ \A k \in 1..(Upper(b, i) - Lower(i)) : c[i].txs[k] = b[Lower(i) + k]
  <2>1. PICK l, u, s : l = Lower(i) /\ u = Upper(b, i) /\ s = SubSeq(b, l + 1, u)
    OBVIOUS
  <2>2. l \in Nat /\ u \in Nat /\ l <= u /\ u <= n
    BY <1>4, <2>1
  <2>3. \A k \in (l + 1)..u : b[k] \in TxId
    <3>1. \A k \in (l + 1)..u : k \in 1..Len(b)
      BY <1>2, <1>3, <2>2
    <3> QED
      BY <1>1, <3>1, ElementOfSeq
  <2>4. /\ s \in Seq(TxId) /\ Len(s) = u - l
        /\ \A k \in 1..(u - l) : s[k] = b[l + k]
    <3>1. l + 1 \in Int /\ u \in Int
      BY <2>2
    <3>2. PICK h : h = l + 1
      OBVIOUS
    <3>3. /\ SubSeq(b, h, u) \in Seq(TxId)
          /\ Len(SubSeq(b, h, u)) = IF h <= u THEN u - h + 1 ELSE 0
          /\ \A k \in 1..(u - h + 1) : SubSeq(b, h, u)[k] = b[h + k - 1]
      BY <2>3, <3>1, <3>2, SubSeqProperties
    <3>4. u - h + 1 = u - l /\ (h <= u <=> u - l # 0) /\ (~(h <= u) => u - l = 0)
      BY <2>2, <3>2
    <3>5. \A k \in 1..(u - l) : h + k - 1 = l + k
      BY <2>2, <3>2
    <3>6. Len(s) = u - l
      BY <2>1, <3>2, <3>3, <3>4
    <3> QED
      BY <2>1, <3>2, <3>3, <3>4, <3>5, <3>6
  <2>5. c[i] = [txs |-> s, confirmed_txs_to_remove |-> <<>>]
    BY <1>5, <2>1 DEF MempoolChunk
  <2>6. <<>> \in Seq(BOOLEAN)
    OBVIOUS
  <2> QED
    BY <2>1, <2>4, <2>5, <2>6 DEF Chunk
<1>7. c \in Seq(Chunk) /\ Len(c) = N
  BY <1>4, <1>5, <1>6
<1>8. Quiet(c)
  <2>1. AllUnset(<<>>)
    BY DEF AllUnset
  <2> QED
    BY <1>6, <1>7, <2>1 DEF Quiet
<1>9. ASSUME NEW i \in 1..N, NEW t
      PROVE  Has(c[i], t) <=> \E j \in 1..n : Lower(i) < j /\ j <= Upper(b, i) /\ b[j] = t
  <2>1. PICK l, u : l = Lower(i) /\ u = Upper(b, i)
    OBVIOUS
  <2>2. l \in Nat /\ u \in Nat /\ l <= u /\ u <= n
    BY <1>4, <2>1
  <2>3. Has(c[i], t) <=> \E k \in 1..(u - l) : b[l + k] = t
    BY <1>6, <2>1 DEF Has
  <2>4. \A k \in 1..(u - l) : l + k \in 1..n /\ l < l + k /\ l + k <= u
    BY <1>3, <2>2
  <2>5. \A j \in 1..n : l < j /\ j <= u => j - l \in 1..(u - l) /\ l + (j - l) = j
    BY <1>3, <2>2
  <2> QED
    BY <2>1, <2>3, <2>4, <2>5
<1>10. ASSUME NEW t PROVE t \in TxsIn(c) <=> t \in ToSet(b)
  <2>1. t \in TxsIn(c) <=> \E i \in 1..N : Has(c[i], t)
    BY <1>7, TxsInAll
  <2>2. t \in ToSet(b) <=> \E j \in 1..n : b[j] = t
    BY <1>3 DEF ToSet
  <2>3. ASSUME NEW i \in 1..N, Has(c[i], t) PROVE \E j \in 1..n : b[j] = t
    BY <1>9, <2>3
  <2>4. ASSUME NEW j \in 1..n, b[j] = t PROVE \E i \in 1..N : Has(c[i], t)
    <3>1. PICK i \in 1..N : Lower(i) < j /\ j <= Upper(b, i)
      BY <1>4
    <3> QED
      BY <1>9, <2>4, <3>1
  <2> QED
    BY <2>1, <2>2, <2>3, <2>4
<1>11. Apart(c)
  <2> SUFFICES ASSUME NEW i \in 1..N, NEW k \in 1..N, NEW t, Has(c[i], t), Has(c[k], t), i < k
               PROVE  FALSE
    <3>1. \A i, k \in 1..N : i = k \/ i < k \/ k < i
      BY <1>4
    <3> QED
      BY <1>7, <3>1 DEF Apart
  <2>1. PICK j \in 1..n : Lower(i) < j /\ j <= Upper(b, i) /\ b[j] = t
    BY <1>9
  <2>2. PICK h \in 1..n : Lower(k) < h /\ h <= Upper(b, k) /\ b[h] = t
    BY <1>9
  <2>3. j = h
    BY <1>1, <1>3, <2>1, <2>2 DEF IsInjective
  <2>4. PICK u, l : u = Upper(b, i) /\ l = Lower(k)
    OBVIOUS
  <2>5. u <= l /\ u \in Nat /\ l \in Nat /\ j <= u /\ l < j
    BY <1>4, <2>1, <2>2, <2>3, <2>4
  <2> QED
    BY <1>3, <2>5
<1>12. SizeOf(c) = n
  <2>1. PICK z : z = sizes(c)
    OBVIOUS
  <2>2. z[0] = 0 /\ \A i \in 1..N : z[i] = z[i - 1] + Len(c[i].txs)
    BY <1>7, <2>1, Sizes
  <2> DEFINE G == {i \in 0..N : i # 0 => z[i] = Upper(b, i)}
  <2>3. 0 \in G
    BY <1>4
  <2>4. ASSUME NEW i \in 1..N, i - 1 \in G PROVE i \in G
    <3>1. PICK l, u : l = Lower(i) /\ u = Upper(b, i)
      OBVIOUS
    <3>2. l \in Nat /\ u \in Nat /\ z[i] = z[i - 1] + (u - l) /\ i \in 0..N
      BY <1>4, <1>6, <2>2, <3>1
    <3>3. z[i - 1] = l
      <4>1. CASE i = 1
        BY <1>4, <2>2, <3>1, <4>1
      <4>2. CASE i # 1
        <5>1. i - 1 \in 1..(N - 1) /\ i - 1 # 0 /\ (i - 1) + 1 = i
          BY <1>4, <4>2
        <5>2. z[i - 1] = Upper(b, i - 1)
          BY <2>4, <5>1
        <5> QED
          BY <1>4, <3>1, <5>1, <5>2
      <4> QED
        BY <4>1, <4>2
    <3>4. z[i] = u
      BY <3>2, <3>3
    <3> QED
      BY <3>1, <3>2, <3>4
  <2> HIDE DEF G
  <2>5. \A i \in 0..N : i \in G
    BY <1>4, <2>3, <2>4, Reached
  <2>6. z[N] = n
    <3>1. N \in 0..N /\ N # 0
      BY <1>4
    <3> QED
      BY <1>4, <2>5, <3>1 DEF G
  <2> QED
    BY <1>7, <2>1, <2>6 DEF SizeOf
<1> QED
  BY <1>2, <1>7, <1>8, <1>10, <1>11, <1>12

LEMMA Concatenated ==
  ASSUME NEW a \in Seq(Chunk), NEW b \in Seq(Chunk)
  PROVE  /\ a \o b \in Seq(Chunk) /\ SizeOf(a \o b) = SizeOf(a) + SizeOf(b)
         /\ \A t : t \in TxsIn(a \o b) <=> t \in TxsIn(a) \/ t \in TxsIn(b)
         /\ Quiet(a \o b) <=> Quiet(a) /\ Quiet(b)
         /\ Apart(a \o b) <=> Apart(a) /\ Apart(b) /\ \A t : ~(t \in TxsIn(a) /\ t \in TxsIn(b))
<1>1. PICK c, p, q : c = a \o b /\ p = Len(a) /\ q = Len(b)
  OBVIOUS
<1>2. /\ c \in Seq(Chunk) /\ Len(c) = p + q /\ p \in Nat /\ q \in Nat
      /\ \A k \in 1..p : c[k] = a[k]
      /\ \A k \in 1..q : c[p + k] = b[k]
  <2>1. /\ c \in Seq(Chunk) /\ Len(c) = p + q /\ p \in Nat /\ q \in Nat
        /\ \A k \in 1..(p + q) : c[k] = IF k <= p THEN a[k] ELSE b[k - p]
    BY <1>1, ConcatProperties
  <2>2. \A k \in 1..q : p + k \in 1..(p + q) /\ ~(p + k <= p) /\ (p + k) - p = k
    BY <2>1
  <2>3. \A k \in 1..p : k \in 1..(p + q) /\ k <= p
    BY <2>1
  <2> QED
    BY <2>1, <2>2, <2>3
<1>3. /\ \A k \in 1..p : k \in 1..(p + q)
      /\ \A k \in 1..q : p + k \in 1..(p + q)
      /\ \A k \in 1..(p + q) : k \in 1..p \/ (k - p \in 1..q /\ p + (k - p) = k)
  BY <1>2
<1>4. /\ \A t : t \in TxsIn(a) <=> \E k \in 1..p : Has(a[k], t)
      /\ \A t : t \in TxsIn(b) <=> \E k \in 1..q : Has(b[k], t)
      /\ \A t : t \in TxsIn(c) <=> \E k \in 1..(p + q) : Has(c[k], t)
  BY <1>1, <1>2, TxsInAll
<1>5. ASSUME NEW t PROVE t \in TxsIn(c) <=> t \in TxsIn(a) \/ t \in TxsIn(b)
  BY <1>2, <1>3, <1>4
<1>6. Quiet(c) <=> Quiet(a) /\ Quiet(b)
  <2>1. Quiet(a) <=> \A k \in 1..p : AllUnset(c[k].confirmed_txs_to_remove)
    BY <1>1, <1>2 DEF Quiet
  <2>2. Quiet(b) <=> \A k \in 1..q : AllUnset(c[p + k].confirmed_txs_to_remove)
    BY <1>1, <1>2 DEF Quiet
  <2>3. Quiet(c) <=> \A k \in 1..(p + q) : AllUnset(c[k].confirmed_txs_to_remove)
    BY <1>2 DEF Quiet
  <2> QED
    BY <1>3, <2>1, <2>2, <2>3
<1>7. ASSUME Apart(c)
      PROVE  Apart(a) /\ Apart(b) /\ \A t : ~(t \in TxsIn(a) /\ t \in TxsIn(b))
  <2>1. \A i, k \in 1..(p + q) : \A t : Has(c[i], t) /\ Has(c[k], t) => i = k
    BY <1>2, <1>7 DEF Apart
  <2>2. ASSUME NEW i \in 1..p, NEW k \in 1..p, NEW t, Has(a[i], t), Has(a[k], t) PROVE i = k
    BY <1>2, <1>3, <2>1, <2>2
  <2>3. ASSUME NEW i \in 1..q, NEW k \in 1..q, NEW t, Has(b[i], t), Has(b[k], t) PROVE i = k
    <3>1. p + i = p + k
      BY <1>2, <1>3, <2>1, <2>3
    <3> QED
      BY <1>2, <3>1
  <2>4. ASSUME NEW t, t \in TxsIn(a), t \in TxsIn(b) PROVE FALSE
    <3>1. PICK i \in 1..p : Has(a[i], t)
      BY <1>4, <2>4
    <3>2. PICK k \in 1..q : Has(b[k], t)
      BY <1>4, <2>4
    <3>3. i = p + k
      BY <1>2, <1>3, <2>1, <3>1, <3>2
    <3> QED
      BY <1>2, <3>3
  <2> QED
    BY <1>1, <2>2, <2>3, <2>4 DEF Apart
<1>8. ASSUME Apart(a), Apart(b), \A t : ~(t \in TxsIn(a) /\ t \in TxsIn(b))
      PROVE  Apart(c)
  <2> SUFFICES ASSUME NEW i \in 1..(p + q), NEW k \in 1..(p + q), NEW t, Has(c[i], t), Has(c[k], t)
               PROVE  i = k
    BY <1>2 DEF Apart
  <2>1. CASE i \in 1..p /\ k \in 1..p
    BY <1>1, <1>2, <1>8, <2>1 DEF Apart
  <2>2. CASE i \notin 1..p /\ k \notin 1..p
    <3>1. PICK x, y : x = i - p /\ y = k - p
      OBVIOUS
    <3>2. x \in 1..q /\ y \in 1..q /\ p + x = i /\ p + y = k
      BY <1>3, <2>2, <3>1
    <3>3. Has(b[x], t) /\ Has(b[y], t)
      BY <1>2, <3>2
    <3>4. x = y
      BY <1>1, <1>8, <3>2, <3>3 DEF Apart
    <3> QED
      BY <3>2, <3>4
  <2>3. CASE i \in 1..p /\ k \notin 1..p
    <3>1. PICK y : y \in 1..q /\ p + y = k
      BY <1>3, <2>3
    <3> QED
      BY <1>2, <1>4, <1>8, <2>3, <3>1
  <2>4. CASE i \notin 1..p /\ k \in 1..p
    <3>1. PICK y : y \in 1..q /\ p + y = i
      BY <1>3, <2>4
    <3> QED
      BY <1>2, <1>4, <1>8, <2>4, <3>1
  <2> QED
    BY <2>1, <2>2, <2>3, <2>4
<1>9. SizeOf(c) = SizeOf(a) + SizeOf(b)
  BY <1>1, SizeConcat
<1> QED
  BY <1>1, <1>2, <1>5, <1>6, <1>7, <1>8, <1>9

-----------------------------------------------------------------------------
(***************************************************************************)
(* The inductive invariant.                                                *)
(***************************************************************************)
\* The filter has work only between two blocks and while it is waited for;
\* the cleaner only in the part of a block that starts it and waits for it.
Threads ==
  /\ do_work => vm_pc \in {"idle", "p_push", "v_clean"}
  /\ filter_pc \in {"wait", "run"} /\ (filter_pc = "run" => do_work)
  /\ filter_pc = "wait" => todo = {}
  /\ todo \subseteq 1..Len(mempool)
  /\ do_cleaning => vm_pc \in {"p_commit", "p_wait", "v_validate", "v_push"}
  /\ cleaner_pc \in {"wait", "join"} /\ (cleaner_pc = "join" => do_cleaning)

PoolTyped ==
  /\ mempool \in Seq(Chunk) /\ buffered_mempool \in Seq(Chunk)
  /\ arrived \subseteq Batches /\ selected \subseteq TxId
  /\ last_committed \in [Account -> 0..MaxSeqNum]

Counted == mempool_size = SizeOf(mempool) /\ buffer_size = SizeOf(buffered_mempool)

Arrived(t) == \E b \in arrived : t \in ToSet(b)

\* A transaction is in one place: a chunk of the buffer or of the pool, and
\* not in the buffer once it has been flagged.
OnePlace ==
  /\ Apart(mempool) /\ Apart(buffered_mempool) /\ Quiet(buffered_mempool)
  /\ \A t : t \in TxsIn(buffered_mempool) => t \notin TxsIn(mempool) /\ t \notin flagged
  /\ \A t : t \in TxsIn(buffered_mempool) \/ t \in TxsIn(mempool) \/ t \in flagged => Arrived(t)

\* The cleaner has yet to apply the flags of the last block.
MarksPending ==
  \/ vm_pc = "p_clean"
  \/ vm_pc \in {"p_commit", "p_wait"} /\ do_cleaning /\ cleaner_pc = "wait"

\* The flags of a chunk point at exactly its flagged transactions, or none is
\* set and none of its transactions was flagged.
Settled(c, f) == AllUnset(c.confirmed_txs_to_remove) /\ \A t : Has(c, t) => t \notin f
Marked(c, f) ==
  /\ Len(c.confirmed_txs_to_remove) = Len(c.txs)
  /\ \A j \in 1..Len(c.txs) : c.confirmed_txs_to_remove[j] <=> c.txs[j] \in f
FlagsRight ==
  \A i \in 1..Len(mempool) :
    Settled(mempool[i], flagged) \/ (MarksPending /\ Marked(mempool[i], flagged))

NoneLost ==
  \A t : Arrived(t) => \/ t \in TxsIn(buffered_mempool) \/ t \in TxsIn(mempool)
                       \/ t \in flagged \/ check_transaction(t)

MInv == Threads /\ PoolTyped /\ Counted /\ OnePlace /\ FlagsRight /\ NoneLost

LEMMA EmptyPool ==
  /\ <<>> \in Seq(Chunk) /\ SizeOf(<<>>) = 0 /\ Apart(<<>>) /\ Quiet(<<>>)
  /\ \A t : t \notin TxsIn(<<>>)
<1>1. <<>> \in Seq(Chunk) /\ Len(<<>>) = 0
  OBVIOUS
<1>2. PICK e : e = <<>>
  OBVIOUS
<1>3. sizes(e)[0] = 0
  BY <1>1, <1>2, Sizes
<1>4. SizeOf(e) = 0
  BY <1>1, <1>2, <1>3 DEF SizeOf
<1>5. Apart(e) /\ Quiet(e)
  BY <1>1, <1>2 DEF Apart, Quiet
<1>6. \A t : t \notin TxsIn(e)
  <2>1. \A i \in 1..Len(e) : FALSE
    BY <1>1, <1>2
  <2>2. \A t : t \in TxsIn(e) <=> \E i \in 1..Len(e) : Has(e[i], t)
    BY <1>1, <1>2, TxsInAll
  <2> QED
    BY <2>1, <2>2
<1> QED
  BY <1>1, <1>2, <1>4, <1>5, <1>6

LEMMA MempoolInit == Init => MInv
<1> SUFFICES ASSUME Init PROVE MInv
  OBVIOUS
<1>1. Threads
  BY DEF Init, Threads
<1>2. PoolTyped
  <2>1. last_committed \in [Account -> 0..MaxSeqNum]
    BY MempoolAssumption DEF Init
  <2>2. mempool \in Seq(Chunk) /\ buffered_mempool \in Seq(Chunk)
    BY EmptyPool DEF Init
  <2> QED
    BY <2>1, <2>2 DEF Init, PoolTyped
<1>3. Counted
  BY EmptyPool DEF Init, Counted
<1>4. OnePlace
  BY EmptyPool DEF Init, OnePlace
<1>5. FlagsRight
  <2>1. Len(mempool) = 0
    BY DEF Init
  <2> QED
    BY <2>1 DEF FlagsRight
<1>6. NoneLost
  BY DEF Init, NoneLost, Arrived
<1> QED
  BY <1>1, <1>2, <1>3, <1>4, <1>5, <1>6 DEF MInv

-----------------------------------------------------------------------------
(* The threads.                                                            *)

LEMMA ThreadsPool ==
  ASSUME MInv, Threads, chunkify_and_add_to_mempool_buffer \/ CleanerRemove \/ CleanerJoin
  PROVE  Threads'
<1>1. CASE chunkify_and_add_to_mempool_buffer
  BY <1>1 DEF chunkify_and_add_to_mempool_buffer, Threads, cleaner, filter, pool
<1>2. CASE CleanerRemove
  BY <1>2 DEF CleanerRemove, MempoolFree, Threads, filter
<1>3. CASE CleanerJoin
  BY <1>3 DEF CleanerJoin, MempoolFree, Threads, filter
<1> QED
  BY <1>1, <1>2, <1>3

LEMMA ThreadsFilter ==
  ASSUME MInv, Threads, Filter
  PROVE  Threads'
<1>1. CASE FilterStart
  BY <1>1 DEF FilterStart, num_chunks, Threads, cleaner, pool
<1>2. CASE FilterChunk
  <2>1. PICK i \in todo : todo' = todo \ {i} /\ mempool' = [mempool EXCEPT ![i].txs = filter_txs(@)]
    BY <1>2 DEF FilterChunk
  <2>2. Len(mempool') = Len(mempool)
    BY <2>1 DEF MInv, PoolTyped
  <2> QED
    BY <1>2, <2>1, <2>2 DEF FilterChunk, Threads, cleaner
<1>3. CASE FilterSkip
  BY <1>3 DEF FilterSkip, Threads, cleaner, pool
<1>4. CASE FilterEnd
  BY <1>4 DEF FilterEnd, Threads, cleaner, pool
<1> QED
  BY <1>1, <1>2, <1>3, <1>4 DEF Filter

LEMMA ThreadsVM ==
  ASSUME MInv, Threads, VM
  PROVE  Threads'
<1>1. CASE ProposeBegin
  BY <1>1 DEF ProposeBegin, StopFilter, Threads, cleaner, pool
<1>11. CASE ExecBegin
  BY <1>11 DEF ExecBegin, StopFilter, Threads, cleaner, pool
<1>2. CASE ProposePush
  BY <1>2 DEF ProposePush, filter_stopped, push_mempool_buffer_to_mempool, MempoolFree, Threads,
              cleaner, filter
<1>3. CASE build_block
  BY <1>3 DEF build_block, MempoolFree, Threads, cleaner, filter
<1>4. CASE ProposeClean
  BY <1>4 DEF ProposeClean, do_mempool_cleaning, Threads, filter, pool
<1>5. CASE ProposeCommit
  BY <1>5 DEF ProposeCommit, Threads, cleaner, filter, pool
<1>6. CASE ProposeEnd
  BY <1>6 DEF ProposeEnd, cleaning_done, Threads, cleaner, filter, pool
<1>7. CASE ExecClean
  BY <1>7 DEF ExecClean, filter_stopped, do_mempool_cleaning, Threads, filter, pool
<1>8. CASE ExecValidate
  BY <1>8 DEF ExecValidate, Threads, cleaner, filter, pool
<1>9. CASE ExecPush
  BY <1>9 DEF ExecPush, cleaning_done, push_mempool_buffer_to_mempool, MempoolFree, Threads,
              cleaner, filter
<1>10. CASE ExecEnd
  BY <1>10 DEF ExecEnd, Threads, cleaner, pool
<1> QED
  BY <1>1, <1>2, <1>3, <1>4, <1>5, <1>6, <1>7, <1>8, <1>9, <1>10, <1>11 DEF VM

-----------------------------------------------------------------------------
(* The transactions.                                                       *)

Content == PoolTyped /\ Counted /\ OnePlace /\ FlagsRight /\ NoneLost

\* A step of the threads alone.
LEMMA ContentKept ==
  ASSUME Content,
         UNCHANGED <<mempool, buffered_mempool, mempool_size, buffer_size, arrived, flagged,
                     last_committed, selected>>,
         MarksPending => MarksPending'
  PROVE  Content'
<1>1. PoolTyped' /\ Counted'
  BY DEF Content, PoolTyped, Counted
<1>2. OnePlace'
  BY DEF Content, OnePlace, Arrived
<1>3. FlagsRight'
  BY DEF Content, FlagsRight
<1>4. NoneLost'
  BY DEF Content, NoneLost, Arrived, check_transaction
<1> QED
  BY <1>1, <1>2, <1>3, <1>4 DEF Content

\* A block commits sequence numbers.
LEMMA ContentCommitted ==
  ASSUME Content,
         UNCHANGED <<mempool, buffered_mempool, mempool_size, buffer_size, arrived, flagged>>,
         MarksPending => MarksPending', selected' \subseteq TxId,
         last_committed' \in [Account -> 0..MaxSeqNum],
         \A a \in Account : last_committed'[a] >= last_committed[a]
  PROVE  Content'
<1>1. PoolTyped' /\ Counted'
  BY DEF Content, PoolTyped, Counted
<1>2. OnePlace'
  BY DEF Content, OnePlace, Arrived
<1>3. FlagsRight'
  BY DEF Content, FlagsRight
<1>4. NoneLost'
  <2>1. ASSUME NEW t, Arrived(t), check_transaction(t) PROVE check_transaction(t)'
    <3>1. PICK b \in arrived : t \in ToSet(b)
      BY <2>1 DEF Arrived
    <3>2. b \in Seq(TxId)
      BY MempoolAssumption DEF Content, PoolTyped
    <3>3. t \in TxId
      BY <3>1, <3>2, ElementOfSeq DEF ToSet
    <3>4. Source[t] \in Account /\ SeqNum[t] \in Int
      BY <3>3, MempoolAssumption
    <3>5. last_committed[Source[t]] \in Int /\ last_committed'[Source[t]] \in Int
      BY <3>4, MempoolAssumption DEF Content, PoolTyped
    <3>6. last_committed'[Source[t]] >= last_committed[Source[t]]
      BY <3>4
    <3> QED
      BY <2>1, <3>4, <3>5, <3>6 DEF check_transaction
  <2> QED
    BY <2>1 DEF Content, NoneLost, Arrived
<1> QED
  BY <1>1, <1>2, <1>3, <1>4 DEF Content

\* Chunks lose transactions.
Shrunk(m, n) ==
  /\ Len(n) = Len(m)
  /\ \A i \in 1..Len(m) : \A t : Has(n[i], t) => Has(m[i], t)

LEMMA ShrunkPool ==
  ASSUME NEW m \in Seq(Chunk), NEW n \in Seq(Chunk), Shrunk(m, n)
  PROVE  /\ Apart(m) => Apart(n)
         /\ \A t : t \in TxsIn(n) => t \in TxsIn(m)
<1>1. \A t : t \in TxsIn(m) <=> \E i \in 1..Len(m) : Has(m[i], t)
  BY TxsInAll
<1>2. \A t : t \in TxsIn(n) <=> \E i \in 1..Len(n) : Has(n[i], t)
  BY TxsInAll
<1>3. Apart(m) => Apart(n)
  BY DEF Apart, Shrunk
<1> QED
  BY <1>1, <1>2, <1>3 DEF Shrunk

\* The pool loses transactions that were flagged or are out of date.
LEMMA ContentShrunk ==
  ASSUME Content, mempool' \in Seq(Chunk), Shrunk(mempool, mempool'),
         mempool_size' = SizeOf(mempool'),
         UNCHANGED <<buffered_mempool, buffer_size, arrived, flagged, last_committed, selected>>,
         \A i \in 1..Len(mempool) :
           /\ Settled(mempool'[i], flagged)
           /\ \A t : Has(mempool[i], t) =>
                Has(mempool'[i], t) \/ t \in flagged \/ check_transaction(t)
  PROVE  Content'
<1>1. mempool \in Seq(Chunk) /\ Len(mempool') = Len(mempool)
  BY DEF Content, PoolTyped, Shrunk
<1>2. /\ Apart(mempool) => Apart(mempool')
      /\ \A t : t \in TxsIn(mempool') => t \in TxsIn(mempool)
  BY <1>1, ShrunkPool
<1>3. PoolTyped' /\ Counted'
  BY DEF Content, PoolTyped, Counted
<1>4. OnePlace'
  BY <1>2 DEF Content, OnePlace, Arrived
<1>5. FlagsRight'
  BY <1>1 DEF Content, FlagsRight
<1>6. NoneLost'
  <2>1. ASSUME NEW t, t \in TxsIn(mempool)
        PROVE  t \in TxsIn(mempool') \/ t \in flagged \/ check_transaction(t)
    <3>1. PICK i \in 1..Len(mempool) : Has(mempool[i], t)
      BY <1>1, <2>1, TxsInAll
    <3>2. Has(mempool'[i], t) => t \in TxsIn(mempool')
      BY <1>1, TxsInAll
    <3> QED
      BY <3>1, <3>2
  <2>2. \A t : check_transaction(t)' <=> check_transaction(t)
    BY DEF check_transaction
  <2> QED
    BY <2>1, <2>2 DEF Content, NoneLost, Arrived
<1> QED
  BY <1>3, <1>4, <1>5, <1>6 DEF Content

\* remove_confirmed_txs applies the flags of a chunk.
LEMMA ChunkCleaned ==
  ASSUME NEW c \in Chunk, NEW f, Settled(c, f) \/ Marked(c, f)
  PROVE  /\ remove_confirmed_txs(c) \in Chunk /\ Settled(remove_confirmed_txs(c), f)
         /\ \A t : Has(remove_confirmed_txs(c), t) <=> Has(c, t) /\ t \notin f
<1>1. PICK x, y, r : x = c.txs /\ y = c.confirmed_txs_to_remove /\ r = erase(x, y)
  OBVIOUS
<1>2. x \in Seq(TxId) /\ y \in Seq(BOOLEAN) /\ c = [txs |-> x, confirmed_txs_to_remove |-> y]
  BY <1>1 DEF Chunk
<1>3. PICK d : d = remove_confirmed_txs(c)
  OBVIOUS
<1>4. d = [txs |-> r.txs, confirmed_txs_to_remove |-> r.bits]
  BY <1>1, <1>3 DEF remove_confirmed_txs
<1>5. CASE Settled(c, f)
  <2>1. AllUnset(y)
    BY <1>1, <1>5 DEF Settled
  <2>2. r.txs = x /\ r.bits = y
    BY <1>1, <1>2, <2>1, ErasedNone
  <2>3. d = c
    BY <1>2, <1>4, <2>2
  <2> QED
    BY <1>3, <1>5, <2>3 DEF Settled
<1>6. CASE Marked(c, f)
  <2>1. Len(y) = Len(x) /\ \A j \in 1..Len(x) : y[j] <=> x[j] \in f
    BY <1>1, <1>6 DEF Marked
  <2>2. r.txs \in Seq(TxId) /\ r.bits \in Seq(BOOLEAN) /\ AllUnset(r.bits) /\ ToSet(r.txs) = Kept(x, y)
    BY <1>1, <1>2, <2>1, Erased
  <2>3. d \in Chunk
    BY <1>4, <2>2 DEF Chunk
  <2>4. \A t : Has(d, t) <=> t \in Kept(x, y)
    <3>1. \A t : t \in ToSet(d.txs) <=> Has(d, t)
      BY <2>3, TxsOf
    <3> QED
      BY <1>4, <2>2, <3>1
  <2>5. \A t : t \in Kept(x, y) <=> \E j \in 1..Len(x) : ~y[j] /\ t = x[j]
    BY DEF Kept
  <2>6. \A t : Has(c, t) <=> \E j \in 1..Len(x) : x[j] = t
    BY <1>1 DEF Has
  <2>7. \A t : Has(d, t) <=> Has(c, t) /\ t \notin f
    BY <2>1, <2>4, <2>5, <2>6
  <2>8. Settled(d, f)
    BY <1>4, <2>2, <2>7 DEF Settled
  <2> QED
    BY <1>3, <2>3, <2>7, <2>8
<1> QED
  BY <1>5, <1>6

\* filter removes what is out of date.
LEMMA ChunkFiltered ==
  ASSUME NEW x \in Seq(TxId), last_committed \in [Account -> 0..MaxSeqNum]
  PROVE  /\ filter_txs(x) \in Seq(TxId)
         /\ \A t : t \in ToSet(filter_txs(x)) <=> t \in ToSet(x) /\ ~check_transaction(t)
<1>1. PICK y : y = [j \in DOMAIN x |-> check_transaction(x[j])]
  OBVIOUS
<1>2. PICK n : n = Len(x) /\ n \in Nat /\ DOMAIN x = 1..n
  BY LenProperties
<1>3. y \in Seq(BOOLEAN) /\ Len(y) = n
  <2>1. \A j \in 1..n : check_transaction(x[j]) \in BOOLEAN
    BY DEF check_transaction
  <2>2. y \in [1..n -> BOOLEAN]
    BY <1>1, <1>2, <2>1, Zenon
  <2> QED
    BY <1>2, <2>2
<1>4. filter_txs(x) = erase(x, y).txs
  BY <1>1 DEF filter_txs
<1>5. filter_txs(x) \in Seq(TxId) /\ ToSet(filter_txs(x)) = Kept(x, y)
  BY <1>2, <1>3, <1>4, Erased
<1>6. \A j \in 1..n : y[j] <=> check_transaction(x[j])
  BY <1>1, <1>2
<1>7. \A t : t \in Kept(x, y) <=> \E j \in 1..n : ~y[j] /\ t = x[j]
  BY <1>2 DEF Kept
<1>8. \A t : t \in ToSet(x) <=> \E j \in 1..n : t = x[j]
  BY <1>2 DEF ToSet
<1> QED
  BY <1>5, <1>6, <1>7, <1>8

LEMMA BatchArrives ==
  ASSUME Content, chunkify_and_add_to_mempool_buffer
  PROVE  Content'
<1>1. PICK b \in Batches \ arrived :
        /\ arrived' = arrived \cup {b}
        /\ buffered_mempool' = buffered_mempool \o chunkify(b)
        /\ buffer_size' = buffer_size + Len(b)
  BY DEF chunkify_and_add_to_mempool_buffer
<1>2. UNCHANGED <<mempool, mempool_size, flagged, last_committed, selected, vm_pc, do_cleaning, cleaner_pc>>
  BY DEF chunkify_and_add_to_mempool_buffer, cleaner, pool, chain
<1>3. PICK c : c = chunkify(b)
  OBVIOUS
<1>4. /\ c \in Seq(Chunk) /\ SizeOf(c) = Len(b) /\ Quiet(c) /\ Apart(c)
      /\ \A t : t \in TxsIn(c) <=> t \in ToSet(b)
  BY <1>1, <1>3, Chunkified
<1>5. PICK a : a = buffered_mempool /\ a \in Seq(Chunk)
  BY DEF Content, PoolTyped
<1>6. /\ a \o c \in Seq(Chunk) /\ SizeOf(a \o c) = SizeOf(a) + SizeOf(c)
      /\ \A t : t \in TxsIn(a \o c) <=> t \in TxsIn(a) \/ t \in TxsIn(c)
      /\ Quiet(a \o c) <=> Quiet(a) /\ Quiet(c)
      /\ Apart(a \o c) <=> Apart(a) /\ Apart(c) /\ \A t : ~(t \in TxsIn(a) /\ t \in TxsIn(c))
  BY <1>4, <1>5, Concatenated
<1>7. buffered_mempool' = a \o c
  BY <1>1, <1>3, <1>5
<1>8. \A t : t \in TxsIn(c) => ~Arrived(t)
  <2>1. ASSUME NEW t, t \in ToSet(b), NEW d \in arrived, t \in ToSet(d) PROVE FALSE
    <3>1. d \in Batches /\ d # b
      BY <1>1 DEF Content, PoolTyped
    <3>2. ToSet(b) \cap ToSet(d) = {}
      BY <1>1, <3>1, MempoolAssumption
    <3> QED
      BY <2>1, <3>2
  <2> QED
    BY <1>4, <2>1 DEF Arrived
<1>9. \A t : Arrived(t)' <=> Arrived(t) \/ t \in TxsIn(c)
  BY <1>1, <1>4 DEF Arrived
<1>10. PoolTyped'
  BY <1>1, <1>2, <1>6, <1>7 DEF Content, PoolTyped
<1>11. Counted'
  <2>1. buffer_size' = SizeOf(a \o c)
    BY <1>1, <1>4, <1>5, <1>6 DEF Content, Counted
  <2> QED
    BY <1>2, <1>7, <2>1 DEF Content, Counted
<1>12. OnePlace'
  <2>1. Apart(a) /\ Quiet(a) /\ \A t : t \in TxsIn(a) => Arrived(t)
    BY <1>5 DEF Content, OnePlace
  <2>2. Apart(a \o c) /\ Quiet(a \o c)
    BY <1>4, <1>6, <1>8, <2>1
  <2>3. \A t : t \in TxsIn(a \o c) => t \notin TxsIn(mempool) /\ t \notin flagged
    BY <1>5, <1>6, <1>8 DEF Content, OnePlace
  <2>4. \A t : t \in TxsIn(a \o c) \/ t \in TxsIn(mempool) \/ t \in flagged => Arrived(t)'
    BY <1>5, <1>6, <1>9 DEF Content, OnePlace
  <2> QED
    BY <1>2, <1>7, <2>2, <2>3, <2>4 DEF Content, OnePlace
<1>13. FlagsRight'
  BY <1>2 DEF Content, FlagsRight, MarksPending
<1>14. NoneLost'
  <2>1. \A t : check_transaction(t)' <=> check_transaction(t)
    BY <1>2 DEF check_transaction
  <2> QED
    BY <1>2, <1>5, <1>6, <1>7, <1>9, <2>1 DEF Content, NoneLost
<1> QED
  BY <1>10, <1>11, <1>12, <1>13, <1>14 DEF Content

LEMMA CleanerRemoves ==
  ASSUME Content, CleanerRemove
  PROVE  Content'
<1>1. /\ mempool' = [i \in DOMAIN mempool |-> remove_confirmed_txs(mempool[i])]
      /\ mempool_size' = mempool_size - (SizeOf(mempool) - SizeOf(mempool'))
      /\ UNCHANGED <<buffered_mempool, buffer_size, arrived, flagged, last_committed, selected>>
  BY DEF CleanerRemove, log_tx_removal, buffer, chain
<1>2. PICK n : n = Len(mempool) /\ n \in Nat /\ DOMAIN mempool = 1..n /\ mempool \in Seq(Chunk)
  BY LenProperties DEF Content, PoolTyped
<1>3. \A i \in 1..n : mempool[i] \in Chunk /\ (Settled(mempool[i], flagged) \/ Marked(mempool[i], flagged))
  BY <1>2, ElementOfSeq DEF Content, FlagsRight
<1>4. \A i \in 1..n : mempool'[i] = remove_confirmed_txs(mempool[i])
  BY <1>1, <1>2
<1>5. \A i \in 1..n :
        /\ mempool'[i] \in Chunk /\ Settled(mempool'[i], flagged)
        /\ \A t : Has(mempool'[i], t) <=> Has(mempool[i], t) /\ t \notin flagged
  BY <1>3, <1>4, ChunkCleaned
<1>6. mempool' \in Seq(Chunk) /\ Len(mempool') = n
  BY <1>1, <1>2, <1>5
<1>7. Shrunk(mempool, mempool')
  BY <1>2, <1>5, <1>6 DEF Shrunk
<1>8. mempool_size' = SizeOf(mempool')
  <2>1. PICK x, y : x = SizeOf(mempool) /\ y = SizeOf(mempool')
    OBVIOUS
  <2>2. x \in Nat /\ y \in Nat /\ mempool_size = x
    BY <1>2, <1>6, <2>1, SizeType DEF Content, Counted
  <2>3. mempool_size' = x - (x - y)
    BY <1>1, <2>1, <2>2
  <2> QED
    BY <2>1, <2>2, <2>3
<1>9. \A i \in 1..Len(mempool) :
        /\ Settled(mempool'[i], flagged)
        /\ \A t : Has(mempool[i], t) =>
             Has(mempool'[i], t) \/ t \in flagged \/ check_transaction(t)
  BY <1>2, <1>5
<1> QED
  BY <1>1, <1>6, <1>7, <1>8, <1>9, ContentShrunk

LEMMA CleanerJoins ==
  ASSUME Content, Threads, CleanerJoin
  PROVE  Content'
<1>1. /\ mempool' = join_small_chunks(mempool) /\ cleaner_pc = "join"
      /\ UNCHANGED <<mempool_size, buffered_mempool, buffer_size, arrived, flagged,
                     last_committed, selected, vm_pc>>
  BY DEF CleanerJoin, buffer, chain
<1>2. do_cleaning /\ ~MarksPending
  BY <1>1 DEF Threads, MarksPending
<1>3. mempool \in Seq(Chunk)
  BY DEF Content, PoolTyped
<1>4. Regrouped(mempool', mempool)
  BY <1>1, <1>3, JoinedSmall
<1>5. PoolTyped'
  BY <1>1, <1>4 DEF Content, PoolTyped, Regrouped
<1>6. Counted'
  BY <1>1, <1>4 DEF Content, Counted, Regrouped
<1>7. OnePlace'
  BY <1>1, <1>4 DEF Content, OnePlace, Regrouped, Arrived
<1>8. FlagsRight'
  <2>1. Quiet(mempool) /\ \A t : t \in TxsIn(mempool) => t \notin flagged
    <3>1. \A i \in 1..Len(mempool) : Settled(mempool[i], flagged)
      BY <1>2 DEF Content, FlagsRight
    <3>2. \A t : t \in TxsIn(mempool) <=> \E i \in 1..Len(mempool) : Has(mempool[i], t)
      BY <1>3, TxsInAll
    <3> QED
      BY <3>1, <3>2 DEF Settled, Quiet
  <2>2. Quiet(mempool') /\ \A t : t \in TxsIn(mempool') => t \notin flagged
    BY <1>4, <2>1 DEF Regrouped
  <2>3. \A t : t \in TxsIn(mempool') <=> \E i \in 1..Len(mempool') : Has(mempool'[i], t)
    <3>1. mempool' \in Seq(Chunk)
      BY <1>4 DEF Regrouped
    <3> QED
      BY <3>1, TxsInAll
  <2>4. \A i \in 1..Len(mempool') : Settled(mempool'[i], flagged)
    BY <2>2, <2>3 DEF Settled, Quiet
  <2> QED
    BY <1>1, <2>4 DEF FlagsRight
<1>9. NoneLost'
  <2>1. \A t : check_transaction(t)' <=> check_transaction(t)
    BY <1>1 DEF check_transaction
  <2> QED
    BY <1>1, <1>4, <2>1 DEF Content, NoneLost, Regrouped, Arrived
<1> QED
  BY <1>5, <1>6, <1>7, <1>8, <1>9 DEF Content

LEMMA FilterRemoves ==
  ASSUME Content, Threads, FilterChunk
  PROVE  Content'
<1>1. PICK i \in todo :
        /\ mempool' = [mempool EXCEPT ![i].txs = filter_txs(mempool[i].txs)]
        /\ mempool_size' = mempool_size - (Len(mempool[i].txs) - Len(mempool'[i].txs))
  BY DEF FilterChunk, log_tx_removal
<1>2. UNCHANGED <<buffered_mempool, buffer_size, arrived, flagged, last_committed, selected>>
  BY DEF FilterChunk, buffer, chain
<1>3. PICK n : n = Len(mempool) /\ n \in Nat /\ DOMAIN mempool = 1..n /\ mempool \in Seq(Chunk)
  BY LenProperties DEF Content, PoolTyped
<1>4. ~MarksPending /\ i \in 1..n
  BY <1>3 DEF FilterChunk, Threads, MarksPending
<1>5. PICK x, y, z : x = mempool[i].txs /\ y = filter_txs(x) /\ z = mempool[i].confirmed_txs_to_remove
  OBVIOUS
<1>6. x \in Seq(TxId) /\ z \in Seq(BOOLEAN) /\ mempool[i] = [txs |-> x, confirmed_txs_to_remove |-> z]
  <2>1. mempool[i] \in Chunk
    BY <1>3, <1>4, ElementOfSeq
  <2> QED
    BY <1>5, <2>1 DEF Chunk
<1>7. y \in Seq(TxId) /\ \A t : t \in ToSet(y) <=> t \in ToSet(x) /\ ~check_transaction(t)
  BY <1>5, <1>6, ChunkFiltered DEF Content, PoolTyped
<1>8. PICK d : d = [txs |-> y, confirmed_txs_to_remove |-> z] /\ d \in Chunk
  <2>1. [txs |-> y, confirmed_txs_to_remove |-> z] \in Chunk
    BY <1>6, <1>7 DEF Chunk
  <2> QED
    BY <2>1
<1>9. mempool' = [mempool EXCEPT ![i] = d]
  <2>1. [mempool[i] EXCEPT !.txs = y] = d
    BY <1>6, <1>8
  <2> QED
    BY <1>1, <1>3, <1>4, <1>5, <2>1
<1>10. /\ mempool' \in Seq(Chunk) /\ Len(mempool') = n
       /\ \A k \in 1..n : mempool'[k] = IF k = i THEN d ELSE mempool[k]
  BY <1>3, <1>4, <1>8, <1>9, ExceptSeq
<1>11. \A t : Has(d, t) <=> Has(mempool[i], t) /\ ~check_transaction(t)
  <2>1. \A t : t \in ToSet(d.txs) <=> Has(d, t)
    BY <1>8, TxsOf
  <2>2. \A t : t \in ToSet(mempool[i].txs) <=> Has(mempool[i], t)
    <3>1. mempool[i] \in Chunk
      BY <1>3, <1>4, ElementOfSeq
    <3> QED
      BY <3>1, TxsOf
  <2> QED
    BY <1>5, <1>7, <1>8, <2>1, <2>2
<1>12. Shrunk(mempool, mempool')
  BY <1>3, <1>10, <1>11 DEF Shrunk
<1>13. \A k \in 1..n : Settled(mempool[k], flagged)
  BY <1>3, <1>4 DEF Content, FlagsRight
<1>14. Settled(d, flagged)
  <2>1. d.confirmed_txs_to_remove = mempool[i].confirmed_txs_to_remove
    BY <1>5, <1>8
  <2> QED
    BY <1>4, <1>11, <1>13, <2>1 DEF Settled
<1>15. \A k \in 1..Len(mempool) :
         /\ Settled(mempool'[k], flagged)
         /\ \A t : Has(mempool[k], t) =>
              Has(mempool'[k], t) \/ t \in flagged \/ check_transaction(t)
  BY <1>3, <1>10, <1>11, <1>13, <1>14
<1>16. mempool_size' = SizeOf(mempool')
  <2>1. SizeOf(mempool') = SizeOf(mempool) - Len(mempool[i].txs) + Len(mempool'[i].txs)
    <3>1. PICK a, b : a = mempool /\ b = mempool'
      OBVIOUS
    <3>2. /\ a \in Seq(Chunk) /\ b \in Seq(Chunk) /\ Len(b) = Len(a) /\ i \in 1..Len(a)
          /\ \A k \in 1..Len(a) : k # i => b[k] = a[k]
      BY <1>3, <1>4, <1>10, <3>1
    <3>3. SizeOf(b) = SizeOf(a) - Len(a[i].txs) + Len(b[i].txs)
      BY <3>2, SizeUpdated
    <3> QED
      BY <3>1, <3>3
  <2>2. PICK u, v, w : u = SizeOf(mempool) /\ v = Len(mempool[i].txs) /\ w = Len(mempool'[i].txs)
    OBVIOUS
  <2>3. u \in Nat /\ v \in Nat /\ w \in Nat /\ mempool_size = u
    BY <1>3, <1>4, <1>10, <2>2, SizeType, ChunkAt DEF Content, Counted
  <2>4. mempool_size' = u - (v - w) /\ SizeOf(mempool') = u - v + w
    BY <1>1, <2>1, <2>2, <2>3
  <2> QED
    BY <2>3, <2>4
<1> QED
  BY <1>2, <1>10, <1>12, <1>15, <1>16, ContentShrunk

LEMMA PushSplits ==
  ASSUME NEW b \in Seq(Chunk)
  PROVE  \E n \in 0..Len(b) : PushCount(b) = n
<1> DEFINE stops == {n \in DOMAIN b : mempool_size + sizes(b)[n - 1] > MAX_MEMPOOL_SIZE}
<1>1. PushCount(b) = IF stops = {} THEN Len(b) ELSE Min(stops)
  BY DEF PushCount
<1>2. stops \subseteq 1..Len(b) /\ Len(b) \in Nat
  BY LenProperties
<1> HIDE DEF stops
<1>3. CASE stops = {}
  BY <1>1, <1>2, <1>3
<1>4. CASE stops # {}
  <2>1. stops \subseteq Nat
    BY <1>2
  <2>2. Min(stops) \in stops
    BY <1>4, <2>1, LeastElement
  <2>3. PICK k : k = Min(stops)
    OBVIOUS
  <2>4. k \in 0..Len(b) /\ PushCount(b) = k
    <3>1. PushCount(b) = k
      BY <1>1, <1>4, <2>3, Zenon
    <3>2. k \in 1..Len(b)
      BY <1>2, <2>2, <2>3, Zenon
    <3> QED
      BY <1>2, <3>1, <3>2
  <2> QED
    BY <2>4
<1> QED
  BY <1>3, <1>4

LEMMA BufferPushed ==
  ASSUME Content, ~MarksPending, push_mempool_buffer_to_mempool,
         UNCHANGED <<flagged, last_committed, selected>>
  PROVE  Content'
<1>1. PICK b, m : b = buffered_mempool /\ m = mempool
  OBVIOUS
<1>2. b \in Seq(Chunk) /\ m \in Seq(Chunk)
  BY <1>1 DEF Content, PoolTyped
<1>3. PICK n \in 0..Len(b) : PushCount(b) = n
  BY <1>2, PushSplits
<1>4. PICK x, y : x = SubSeq(b, 1, n) /\ y = SubSeq(b, n + 1, Len(b))
  OBVIOUS
<1>5. /\ mempool' = m \o x /\ mempool_size' = mempool_size + SizeOf(x)
      /\ buffer_size' = buffer_size - SizeOf(x) /\ buffered_mempool' = y /\ arrived' = arrived
  BY <1>1, <1>3, <1>4 DEF push_mempool_buffer_to_mempool
<1>6. x \in Seq(Chunk) /\ y \in Seq(Chunk) /\ b = x \o y
  <2>1. x \in Seq(Chunk)
    BY <1>2, <1>3, <1>4
  <2>2. y \in Seq(Chunk)
    <3>1. \A k \in (n + 1)..Len(b) : b[k] \in Chunk
      <4>1. \A k \in (n + 1)..Len(b) : k \in 1..Len(b)
        BY <1>2, <1>3
      <4> QED
        BY <1>2, <4>1, ElementOfSeq
    <3>2. n + 1 \in Int /\ Len(b) \in Int
      BY <1>2, <1>3
    <3>3. PICK h, l : h = n + 1 /\ l = Len(b)
      OBVIOUS
    <3>5. h \in Int /\ l \in Int /\ \A k \in h..l : b[k] \in Chunk
      BY <3>1, <3>2, <3>3
    <3>4. SubSeq(b, h, l) \in Seq(Chunk)
      BY <3>5, SubSeqProperties, ZenonT(30)
    <3> QED
      BY <1>4, <3>3, <3>4
  <2>3. b = x \o y
    <3>1. 1 \in 1..(Len(b) + 1) /\ n \in (1 - 1)..Len(b) /\ Len(b) \in n..Len(b)
      BY <1>2, <1>3
    <3>2. SubSeq(b, 1, n) \o SubSeq(b, n + 1, Len(b)) = SubSeq(b, 1, Len(b))
      BY <1>2, <3>1, ConcatAdjacentSubSeq
    <3>3. SubSeq(b, 1, Len(b)) = b
      BY <1>2, SubSeqFull
    <3> QED
      BY <1>4, <3>2, <3>3
  <2> QED
    BY <2>1, <2>2, <2>3
<1>7. /\ SizeOf(b) = SizeOf(x) + SizeOf(y)
      /\ \A t : t \in TxsIn(b) <=> t \in TxsIn(x) \/ t \in TxsIn(y)
      /\ Quiet(b) <=> Quiet(x) /\ Quiet(y)
      /\ Apart(b) <=> Apart(x) /\ Apart(y) /\ \A t : ~(t \in TxsIn(x) /\ t \in TxsIn(y))
  BY <1>6, Concatenated
<1>8. PICK k : k = m \o x
  OBVIOUS
<1>9. /\ k \in Seq(Chunk) /\ SizeOf(k) = SizeOf(m) + SizeOf(x)
      /\ \A t : t \in TxsIn(k) <=> t \in TxsIn(m) \/ t \in TxsIn(x)
      /\ Quiet(k) <=> Quiet(m) /\ Quiet(x)
      /\ Apart(k) <=> Apart(m) /\ Apart(x) /\ \A t : ~(t \in TxsIn(m) /\ t \in TxsIn(x))
  BY <1>2, <1>6, <1>8, Concatenated
<1>10. mempool' = k
  BY <1>5, <1>8
<1>11. /\ Apart(m) /\ Apart(b) /\ Quiet(b)
       /\ \A t : t \in TxsIn(b) => t \notin TxsIn(m) /\ t \notin flagged
       /\ \A t : t \in TxsIn(b) \/ t \in TxsIn(m) \/ t \in flagged => Arrived(t)
  BY <1>1 DEF Content, OnePlace
<1>12. PoolTyped'
  BY <1>5, <1>6, <1>9, <1>10 DEF Content, PoolTyped
<1>13. Counted'
  <2>1. PICK p, q, r : p = SizeOf(x) /\ q = SizeOf(y) /\ r = SizeOf(m)
    OBVIOUS
  <2>2. p \in Nat /\ q \in Nat /\ r \in Nat
    BY <1>2, <1>6, <2>1, SizeType
  <2>3. mempool_size = r /\ buffer_size = p + q
    BY <1>1, <1>7, <2>1 DEF Content, Counted
  <2>4. mempool_size' = r + p /\ buffer_size' = (p + q) - p
    BY <1>5, <2>1, <2>3
  <2>5. buffer_size' = q
    BY <2>2, <2>4
  <2> QED
    BY <1>5, <1>9, <1>10, <2>1, <2>4, <2>5 DEF Counted
<1>14. OnePlace'
  <2>1. \A t : Arrived(t)' <=> Arrived(t)
    BY <1>5 DEF Arrived
  <2>2. Apart(k) /\ Apart(y) /\ Quiet(y)
    BY <1>7, <1>9, <1>11
  <2>3. \A t : t \in TxsIn(y) => t \notin TxsIn(k) /\ t \notin flagged
    BY <1>7, <1>9, <1>11
  <2>4. \A t : t \in TxsIn(y) \/ t \in TxsIn(k) \/ t \in flagged => Arrived(t)
    BY <1>7, <1>9, <1>11
  <2> QED
    BY <1>5, <1>10, <2>1, <2>2, <2>3, <2>4 DEF OnePlace
<1>15. FlagsRight'
  <2>1. Quiet(m) /\ \A t : t \in TxsIn(m) => t \notin flagged
    <3>1. \A j \in 1..Len(m) : Settled(m[j], flagged)
      BY <1>1 DEF Content, FlagsRight
    <3>2. \A t : t \in TxsIn(m) <=> \E j \in 1..Len(m) : Has(m[j], t)
      BY <1>2, TxsInAll
    <3> QED
      BY <3>1, <3>2 DEF Settled, Quiet
  <2>2. Quiet(k) /\ \A t : t \in TxsIn(k) => t \notin flagged
    BY <1>7, <1>9, <1>11, <2>1
  <2>3. \A t : t \in TxsIn(k) <=> \E j \in 1..Len(k) : Has(k[j], t)
    BY <1>9, TxsInAll
  <2>4. \A j \in 1..Len(k) : Settled(k[j], flagged)
    BY <2>2, <2>3 DEF Settled, Quiet
  <2> QED
    BY <1>10, <2>4 DEF FlagsRight
<1>16. NoneLost'
  <2>1. \A t : check_transaction(t)' <=> check_transaction(t)
    BY DEF check_transaction
  <2>2. \A t : Arrived(t) => t \in TxsIn(b) \/ t \in TxsIn(m) \/ t \in flagged \/ check_transaction(t)
    BY <1>1 DEF Content, NoneLost
  <2>3. \A t : Arrived(t)' <=> Arrived(t)
    BY <1>5 DEF Arrived
  <2> QED
    BY <1>5, <1>7, <1>9, <1>10, <2>1, <2>2, <2>3 DEF NoneLost
<1> QED
  BY <1>12, <1>13, <1>14, <1>15, <1>16 DEF Content

LEMMA BlockBuilt ==
  ASSUME Content, Threads, build_block
  PROVE  Content'
<1>1. PICK P \in SUBSET DOMAIN mempool :
        LET seen == UNION {ToSet(mempool[i].txs) : i \in P}
        IN \E included \in SUBSET {t \in seen : SeqNum[t] > last_committed[Source[t]]
                                                 /\ Source[t] \notin UnknownAccounts},
              dropped \in SUBSET seen :
             /\ included \cap dropped = {}
             /\ mempool' = [i \in DOMAIN mempool |->
                  IF i \in P
                  THEN [mempool[i] EXCEPT !.confirmed_txs_to_remove =
                          [j \in DOMAIN mempool[i].txs |-> mempool[i].txs[j] \in included \cup dropped]]
                  ELSE mempool[i]]
             /\ selected' = included
             /\ flagged' = flagged \cup included \cup dropped
  BY DEF build_block
<1>2. PICK seen : seen = UNION {ToSet(mempool[i].txs) : i \in P}
  OBVIOUS
<1>3. PICK included \in SUBSET seen, dropped \in SUBSET seen :
             /\ mempool' = [i \in DOMAIN mempool |->
                  IF i \in P
                  THEN [mempool[i] EXCEPT !.confirmed_txs_to_remove =
                          [j \in DOMAIN mempool[i].txs |-> mempool[i].txs[j] \in included \cup dropped]]
                  ELSE mempool[i]]
             /\ selected' = included
             /\ flagged' = flagged \cup included \cup dropped
  <2>1. \A S : {t \in S : SeqNum[t] > last_committed[Source[t]]
                           /\ Source[t] \notin UnknownAccounts} \subseteq S
    OBVIOUS
  <2> QED
    BY <1>1, <1>2, <2>1, Zenon
<1>4. PICK new : new = included \cup dropped
  OBVIOUS
<1>5. /\ vm_pc' = "p_clean" /\ vm_pc = "p_build"
      /\ UNCHANGED <<mempool_size, buffered_mempool, buffer_size, arrived, last_committed>>
  BY DEF build_block, buffer
<1>6. ~MarksPending /\ MarksPending'
  BY <1>5 DEF MarksPending
<1>7. PICK n : n = Len(mempool) /\ n \in Nat /\ DOMAIN mempool = 1..n /\ mempool \in Seq(Chunk)
  BY LenProperties DEF Content, PoolTyped
<1>8. \A i \in 1..n : mempool[i] \in Chunk /\ Settled(mempool[i], flagged)
  BY <1>6, <1>7, ElementOfSeq DEF Content, FlagsRight
<1>9. \A t : t \in seen <=> \E i \in P : Has(mempool[i], t)
  <2>1. \A i \in P : \A t : t \in ToSet(mempool[i].txs) <=> Has(mempool[i], t)
    BY <1>7, <1>8, TxsOf
  <2> QED
    BY <1>2, <2>1
<1>10. flagged' = flagged \cup new /\ new \subseteq seen
  BY <1>3, <1>4
<1>11. ASSUME NEW i \in P
       PROVE  /\ mempool'[i] \in Chunk /\ mempool'[i].txs = mempool[i].txs
              /\ Marked(mempool'[i], flagged')
  <2>1. PICK x, y : x = mempool[i].txs /\ y = [j \in DOMAIN x |-> x[j] \in new]
    OBVIOUS
  <2>2. i \in 1..n /\ mempool[i] \in Chunk /\ x \in Seq(TxId)
    BY <1>7, <1>8, <2>1 DEF Chunk
  <2>3. PICK l : l = Len(x) /\ l \in Nat /\ DOMAIN x = 1..l
    BY <2>2, LenProperties
  <2>4. y \in Seq(BOOLEAN) /\ Len(y) = l
    <3>1. \A j \in 1..l : (x[j] \in new) \in BOOLEAN
      OBVIOUS
    <3>2. y \in [1..l -> BOOLEAN]
      BY <2>1, <2>3, <3>1, Zenon
    <3> QED
      BY <2>3, <3>2
  <2>5. mempool'[i] = [mempool[i] EXCEPT !.confirmed_txs_to_remove = y]
    BY <1>3, <1>4, <1>7, <2>1, <2>2
  <2>6. mempool'[i] = [txs |-> x, confirmed_txs_to_remove |-> y]
    BY <2>1, <2>2, <2>5 DEF Chunk
  <2>7. \A j \in 1..l : y[j] <=> x[j] \in new
    BY <2>1, <2>3
  <2>8. \A j \in 1..l : x[j] \notin flagged
    <3>1. \A j \in 1..l : Has(mempool[i], x[j])
      BY <2>1, <2>3 DEF Has
    <3> QED
      BY <1>8, <2>2, <3>1 DEF Settled
  <2>9. Marked(mempool'[i], flagged')
    BY <1>10, <2>3, <2>4, <2>6, <2>7, <2>8 DEF Marked
  <2> QED
    BY <2>1, <2>2, <2>4, <2>6, <2>9 DEF Chunk
<1>12. ASSUME NEW i \in 1..n, i \notin P
       PROVE  mempool'[i] = mempool[i] /\ Settled(mempool'[i], flagged')
  <2>1. mempool'[i] = mempool[i]
    BY <1>3, <1>7, <1>12
  <2>2. ASSUME NEW t, Has(mempool[i], t) PROVE t \notin new
    <3>1. SUFFICES ASSUME t \in new PROVE FALSE
      OBVIOUS
    <3>2. PICK k \in P : Has(mempool[k], t)
      BY <1>9, <1>10, <3>1
    <3>3. i = k
      BY <1>7, <2>2, <3>2 DEF Content, OnePlace, Apart
    <3> QED
      BY <1>12, <3>3
  <2> QED
    BY <1>8, <1>10, <2>1, <2>2 DEF Settled
<1>13. \A i \in 1..n : mempool'[i] \in Chunk /\ mempool'[i].txs = mempool[i].txs
  BY <1>8, <1>11, <1>12
<1>14. mempool' \in Seq(Chunk) /\ Len(mempool') = n
  <2>1. DOMAIN mempool' = 1..n /\ mempool' = [i \in 1..n |-> mempool'[i]]
    BY <1>3, <1>7
  <2> QED
    BY <1>7, <1>13, <2>1
<1>15. \A i \in 1..n : \A t : Has(mempool'[i], t) <=> Has(mempool[i], t)
  BY <1>13 DEF Has
<1>16. \A t : t \in TxsIn(mempool') <=> t \in TxsIn(mempool)
  <2>1. \A t : t \in TxsIn(mempool) <=> \E i \in 1..n : Has(mempool[i], t)
    BY <1>7, TxsInAll
  <2>2. \A t : t \in TxsIn(mempool') <=> \E i \in 1..n : Has(mempool'[i], t)
    BY <1>14, TxsInAll
  <2> QED
    BY <1>15, <2>1, <2>2
<1>17. \A t : t \in new => t \in TxsIn(mempool)
  <2>1. \A t : t \in TxsIn(mempool) <=> \E i \in 1..n : Has(mempool[i], t)
    BY <1>7, TxsInAll
  <2> QED
    BY <1>7, <1>9, <1>10, <2>1
<1>18. PoolTyped'
  <2>1. seen \subseteq TxId
    <3>1. \A i \in P : mempool[i].txs \in Seq(TxId)
      BY <1>7, <1>8 DEF Chunk
    <3>2. \A i \in P : \A t : Has(mempool[i], t) => t \in TxId
      BY <3>1, ElementOfSeq DEF Has
    <3> QED
      BY <1>9, <3>2
  <2>2. selected' \subseteq TxId
    BY <1>3, <2>1
  <2> QED
    BY <1>5, <1>14, <2>2 DEF Content, PoolTyped
<1>19. Counted'
  <2>1. SizeOf(mempool') = SizeOf(mempool)
    <3>1. PICK a, b, x, y : a = mempool /\ b = mempool' /\ x = sizes(a) /\ y = sizes(b)
      OBVIOUS
    <3>2. /\ x[0] = 0 /\ \A k \in 1..n : x[k] = x[k - 1] + Len(a[k].txs)
      BY <1>7, <3>1, Sizes
    <3>3. /\ y[0] = 0 /\ \A k \in 1..n : y[k] = y[k - 1] + Len(a[k].txs)
      <4>1. \A k \in 1..n : b[k].txs = a[k].txs
        BY <1>13, <3>1
      <4>2. /\ y[0] = 0 /\ \A k \in 1..n : y[k] = y[k - 1] + Len(b[k].txs)
        BY <1>14, <3>1, Sizes
      <4> QED
        BY <4>1, <4>2
    <3> DEFINE G == {k \in 0..n : x[k] = y[k]}
    <3>4. 0 \in G
      BY <1>7, <3>2, <3>3
    <3>5. ASSUME NEW k \in 1..n, k - 1 \in G PROVE k \in G
      BY <1>7, <3>2, <3>3, <3>5
    <3> HIDE DEF G
    <3>6. \A k \in 0..n : k \in G
      BY <1>7, <3>4, <3>5, Reached
    <3>7. x[n] = y[n]
      BY <1>7, <3>6 DEF G
    <3> QED
      BY <1>7, <1>14, <3>1, <3>7 DEF SizeOf
  <2> QED
    BY <1>5, <2>1 DEF Content, Counted
<1>20. OnePlace'
  <2>1. Apart(mempool')
    BY <1>7, <1>14, <1>15 DEF Content, OnePlace, Apart
  <2>2. \A t : Arrived(t)' <=> Arrived(t)
    BY <1>5 DEF Arrived
  <2> QED
    BY <1>5, <1>10, <1>16, <1>17, <2>1, <2>2 DEF Content, OnePlace
<1>21. FlagsRight'
  <2>1. \A i \in 1..n : Settled(mempool'[i], flagged') \/ Marked(mempool'[i], flagged')
    BY <1>11, <1>12
  <2> QED
    BY <1>6, <1>14, <2>1 DEF FlagsRight
<1>22. NoneLost'
  <2>1. \A t : check_transaction(t)' <=> check_transaction(t)
    BY <1>5 DEF check_transaction
  <2>2. \A t : Arrived(t)' <=> Arrived(t)
    BY <1>5 DEF Arrived
  <2> QED
    BY <1>5, <1>10, <1>16, <2>1, <2>2 DEF Content, NoneLost
<1> QED
  BY <1>18, <1>19, <1>20, <1>21, <1>22 DEF Content

\* A block's sequence numbers are not below those committed before.
LEMMA NewLastGrows ==
  ASSUME last_committed \in [Account -> 0..MaxSeqNum], NEW ts \in SUBSET TxId, NEW a \in Account
  PROVE  NewLast(a, ts) \in 0..MaxSeqNum /\ NewLast(a, ts) >= last_committed[a]
<1> DEFINE ns == {SeqNum[t] : t \in {u \in ts : Source[u] = a}} \cup {last_committed[a]}
<1>1. NewLast(a, ts) = Max(ns)
  BY DEF NewLast
<1>2. MaxSeqNum \in Nat /\ \A t \in ts : SeqNum[t] \in 0..MaxSeqNum
  BY MempoolAssumption
<1>3. ns \in SUBSET (0..MaxSeqNum) /\ last_committed[a] \in ns
  BY <1>2
<1> HIDE DEF ns
<1>4. Max(ns) \in ns /\ \A x \in ns : x <= Max(ns)
  <2>1. ns # {}
    BY <1>3
  <2> QED
    BY <1>2, <1>3, <2>1, GreatestElement
<1>5. PICK k : k = Max(ns)
  OBVIOUS
<1>6. k \in 0..MaxSeqNum /\ last_committed[a] <= k
  BY <1>3, <1>4, <1>5
<1> QED
  BY <1>1, <1>2, <1>5, <1>6

LEMMA ContentVM ==
  ASSUME Content, Threads, VM
  PROVE  Content'
<1>1. CASE ProposeBegin
  <2>1. MarksPending => MarksPending'
    BY <1>1 DEF ProposeBegin, StopFilter, MarksPending
  <2> QED
    BY <1>1, <2>1, ContentKept DEF ProposeBegin, StopFilter, buffer, pool
<1>2. CASE ExecBegin
  <2>1. MarksPending => MarksPending'
    BY <1>2 DEF ExecBegin, StopFilter, MarksPending
  <2> QED
    BY <1>2, <2>1, ContentKept DEF ExecBegin, StopFilter, buffer, pool
<1>3. CASE ProposePush
  <2>1. ~MarksPending
    BY <1>3 DEF ProposePush, MarksPending
  <2> QED
    BY <1>3, <2>1, BufferPushed DEF ProposePush, chain
<1>4. CASE build_block
  BY <1>4, BlockBuilt
<1>5. CASE ProposeClean
  <2>1. MarksPending'
    BY <1>5 DEF ProposeClean, do_mempool_cleaning, MarksPending, Threads
  <2> QED
    BY <1>5, <2>1, ContentKept DEF ProposeClean, buffer, pool, chain
<1>6. CASE ProposeCommit
  <2>1. MarksPending => MarksPending'
    BY <1>6 DEF ProposeCommit, MarksPending, cleaner
  <2>2. /\ UNCHANGED <<mempool, buffered_mempool, mempool_size, buffer_size, arrived, flagged>>
        /\ last_committed' = [a \in Account |-> NewLast(a, selected)] /\ selected' = {}
    BY <1>6 DEF ProposeCommit, buffer, pool
  <2>3. \A a \in Account : NewLast(a, selected) \in 0..MaxSeqNum /\ NewLast(a, selected) >= last_committed[a]
    BY NewLastGrows DEF Content, PoolTyped
  <2>4. /\ last_committed' \in [Account -> 0..MaxSeqNum]
        /\ \A a \in Account : last_committed'[a] >= last_committed[a]
    BY <2>2, <2>3
  <2> QED
    BY <2>1, <2>2, <2>4, ContentCommitted
<1>7. CASE ProposeEnd
  <2>1. MarksPending => MarksPending'
    BY <1>7 DEF ProposeEnd, cleaning_done, MarksPending
  <2> QED
    BY <1>7, <2>1, ContentKept DEF ProposeEnd, buffer, pool, chain
<1>8. CASE ExecClean
  <2>1. MarksPending => MarksPending'
    BY <1>8 DEF ExecClean, MarksPending
  <2> QED
    BY <1>8, <2>1, ContentKept DEF ExecClean, buffer, pool, chain
<1>9. CASE ExecValidate
  <2>1. MarksPending => MarksPending'
    BY <1>9 DEF ExecValidate, MarksPending
  <2>2. UNCHANGED <<mempool, buffered_mempool, mempool_size, buffer_size, arrived, flagged, selected>>
    BY <1>9 DEF ExecValidate, buffer, pool
  <2>3. /\ last_committed' \in [Account -> 0..MaxSeqNum]
        /\ \A a \in Account : last_committed'[a] >= last_committed[a]
    BY <1>9 DEF ExecValidate
  <2>4. selected' \subseteq TxId
    BY <2>2 DEF Content, PoolTyped
  <2> QED
    BY <2>1, <2>2, <2>3, <2>4, ContentCommitted
<1>10. CASE ExecPush
  <2>1. ~MarksPending
    BY <1>10 DEF ExecPush, MarksPending
  <2> QED
    BY <1>10, <2>1, BufferPushed DEF ExecPush, chain
<1>11. CASE ExecEnd
  <2>1. MarksPending => MarksPending'
    BY <1>11 DEF ExecEnd, MarksPending
  <2> QED
    BY <1>11, <2>1, ContentKept DEF ExecEnd, buffer, pool, chain
<1> QED
  BY <1>1, <1>2, <1>3, <1>4, <1>5, <1>6, <1>7, <1>8, <1>9, <1>10, <1>11 DEF VM

LEMMA ContentFilter ==
  ASSUME Content, Threads, Filter
  PROVE  Content'
<1>1. CASE FilterChunk
  BY <1>1, FilterRemoves
<1>2. CASE FilterStart
  <2>1. MarksPending => MarksPending'
    BY <1>2 DEF FilterStart, MarksPending, cleaner
  <2> QED
    BY <1>2, <2>1, ContentKept DEF FilterStart, buffer, pool, chain
<1>3. CASE FilterSkip
  <2>1. MarksPending => MarksPending'
    BY <1>3 DEF FilterSkip, MarksPending, cleaner
  <2> QED
    BY <1>3, <2>1, ContentKept DEF FilterSkip, buffer, pool, chain
<1>4. CASE FilterEnd
  <2>1. MarksPending => MarksPending'
    BY <1>4 DEF FilterEnd, MarksPending, cleaner
  <2> QED
    BY <1>4, <2>1, ContentKept DEF FilterEnd, buffer, pool, chain
<1> QED
  BY <1>1, <1>2, <1>3, <1>4 DEF Filter

LEMMA MempoolInductive == MInv /\ [Next]_vars => MInv'
<1> SUFFICES ASSUME MInv, [Next]_vars PROVE MInv'
  OBVIOUS
<1>1. Content /\ Threads
  BY DEF MInv, Content
<1>2. CASE chunkify_and_add_to_mempool_buffer
  BY <1>1, <1>2, ThreadsPool, BatchArrives DEF MInv, Content
<1>3. CASE CleanerRemove
  BY <1>1, <1>3, ThreadsPool, CleanerRemoves DEF MInv, Content
<1>4. CASE CleanerJoin
  BY <1>1, <1>4, ThreadsPool, CleanerJoins DEF MInv, Content
<1>5. CASE Filter
  BY <1>1, <1>5, ThreadsFilter, ContentFilter DEF MInv, Content
<1>6. CASE VM
  BY <1>1, <1>6, ThreadsVM, ContentVM DEF MInv, Content
<1>7. CASE UNCHANGED vars
  <2>1. MarksPending => MarksPending'
    BY <1>7 DEF vars, cleaner, MarksPending
  <2>2. Content'
    BY <1>1, <1>7, <2>1, ContentKept DEF vars, buffer, pool, chain
  <2>3. Threads'
    BY <1>1, <1>7 DEF vars, cleaner, filter, pool, Threads
  <2> QED
    BY <2>2, <2>3 DEF MInv, Content
<1> QED
  BY <1>2, <1>3, <1>4, <1>5, <1>6, <1>7 DEF Next, Idle

-----------------------------------------------------------------------------
(* The theorems.                                                           *)

\* No transaction that arrived is lost to the reordering of its chunk, to a
\* join or to a cancelled filter, and none that block production has flagged
\* is offered to the next block.  Code: Mempool and the three threads.
THEOREM NoTxLostCorrect == Spec => []NoTxLost
<1>1. ASSUME MInv PROVE NoTxLost
  <2>1. ASSUME NEW b \in arrived, NEW t \in ToSet(b)
        PROVE  \/ t \in TxsIn(buffered_mempool) \cup TxsIn(mempool)
               \/ t \in flagged \/ check_transaction(t)
    <3>1. Arrived(t)
      BY DEF Arrived
    <3> QED
      BY <1>1, <3>1 DEF MInv, NoneLost
  <2>2. ASSUME vm_pc = "p_build", NEW t \in TxsIn(mempool) PROVE t \notin flagged
    <3>1. PICK i \in 1..Len(mempool) : Has(mempool[i], t)
      BY <1>1, <2>2, TxsInAll DEF MInv, PoolTyped
    <3>2. ~MarksPending
      BY <2>2 DEF MarksPending
    <3> QED
      BY <1>1, <3>1, <3>2 DEF MInv, FlagsRight, Settled
  <2> QED
    BY <2>1, <2>2 DEF NoTxLost
<1> QED
  BY <1>1, MempoolInit, MempoolInductive, PTL DEF Spec

\* The two counters that the overlay throttles on are exact between any two
\* critical sections.  Code: log_tx_removal and its callers.
THEOREM SizesExactCorrect == Spec => []SizesExact
<1>1. ASSUME MInv PROVE SizesExact
  <2>1. mempool \in Seq(Chunk) /\ buffered_mempool \in Seq(Chunk)
    BY <1>1 DEF MInv, PoolTyped
  <2>2. ASSUME NEW c \in ToSet(mempool) \cup ToSet(buffered_mempool) PROVE c \in Chunk
    BY <2>1, ElementOfSeq DEF ToSet
  <2>3. mempool_size \in Nat /\ buffer_size \in Nat
    BY <1>1, <2>1, SizeType DEF MInv, Counted
  <2>4. todo \subseteq DOMAIN mempool
    BY <1>1, <2>1 DEF MInv, Threads
  <2>5. TypeOK
    BY <1>1, <2>2, <2>3, <2>4 DEF TypeOK, Chunk, MInv, PoolTyped
  <2> QED
    BY <1>1, <2>5 DEF SizesExact, MInv, Counted
<1> QED
  BY <1>1, MempoolInit, MempoolInductive, PTL DEF Spec

\* The filter never runs while a block is produced or validated.
\* Code: stop_filter, start_filter and AsyncWorker's wait.
THEOREM FilterQuiescentCorrect == Spec => []FilterQuiescent
<1>1. ASSUME MInv PROVE FilterQuiescent
  BY <1>1 DEF MInv, Threads, FilterQuiescent
<1> QED
  BY <1>1, MempoolInit, MempoolInductive, PTL DEF Spec

-----------------------------------------------------------------------------
(* The overlay: batches forwarded from replica to replica.                 *)

Clients == [txs_to_forward : Seq(Nat), to_forward : Seq(Nat), foreign : Nat, local : Int,
            connected : BOOLEAN, repoll : BOOLEAN, pc : {"wait", "forward", "poll"}]
Loaded == [loaded : {TRUE}, number : Nat, data : BOOLEAN, finished : BOOLEAN]
Flooders == [buffer : {Empty} \cup Loaded, next : Nat, returned : BOOLEAN]

(***************************************************************************)
(* The inductive invariant.                                                *)
(***************************************************************************)
OverlayTyped ==
  /\ flooder \in [Replicas -> Flooders] /\ client \in [Pairs -> Clients]
  /\ max_seen \in [Replicas -> [Replicas -> Nat]] /\ pool_size \in [Replicas -> Nat]
  /\ received \in [Replicas -> SUBSET (Replicas \X Nat)] /\ faults \in Nat

\* A flooder sends its batches in order and leaves none out.
SentInOrder ==
  \A r \in Replicas :
    /\ Sent(r) \in Nat
    /\ IF Waiting(flooder[r])
       THEN flooder[r].buffer.number = Sent(r) + 1 /\ flooder[r].next = Sent(r) + 2
       ELSE flooder[r].next = Sent(r) + 1

\* Batch b is with the client p.
Queued(p, b) == Contains(client[p].txs_to_forward, b) \/ Contains(client[p].to_forward, b)

\* Nobody has seen, or is about to forward, a batch that was not sent.
OnlySentSeen ==
  /\ \A r, s \in Replicas : max_seen[r][s] <= Sent(s)
  /\ \A p \in Pairs : \A b \in Nat : Queued(p, b) => b <= Sent(p[1])

\* A client's thread forwards exactly while it has something to forward.
ClientsInStep == \A p \in Pairs : client[p].pc = "forward" <=> client[p].to_forward # <<>>

OverlayInv ==
  OverlayTyped /\ SentInOrder /\ OnlySentSeen /\ ClientsInStep /\ Lockstep /\ NoBatchLost

-----------------------------------------------------------------------------
(* Sequences.                                                              *)

\* What a queue contains after each of its operations.
LEMMA ContainsEmpty == \A b : ~ Contains(<<>>, b)
BY DEF Contains

LEMMA ContainsAppend ==
  ASSUME NEW s \in Seq(Nat), NEW e \in Nat, NEW b
  PROVE  Contains(Append(s, e), b) <=> Contains(s, b) \/ b = e
<1>1. /\ Len(Append(s, e)) = Len(s) + 1 /\ Len(s) \in Nat
      /\ \A i \in 1 .. Len(s) : Append(s, e)[i] = s[i]
      /\ Append(s, e)[Len(s) + 1] = e
  BY AppendProperties
<1> QED
  BY <1>1 DEF Contains

LEMMA ContainsConcat ==
  ASSUME NEW s \in Seq(Nat), NEW t \in Seq(Nat), NEW b
  PROVE  Contains(s \o t, b) <=> Contains(s, b) \/ Contains(t, b)
<1>1. /\ Len(s \o t) = Len(s) + Len(t) /\ Len(s) \in Nat /\ Len(t) \in Nat
      /\ \A i \in 1 .. Len(s) + Len(t) : (s \o t)[i] = IF i <= Len(s) THEN s[i] ELSE t[i - Len(s)]
  BY ConcatProperties
<1>2. ASSUME Contains(s \o t, b) PROVE Contains(s, b) \/ Contains(t, b)
  <2>1. PICK i \in 1 .. Len(s) + Len(t) : (s \o t)[i] = b
    BY <1>1, <1>2 DEF Contains
  <2>2. CASE i <= Len(s)
    BY <1>1, <2>1, <2>2 DEF Contains
  <2>3. CASE ~(i <= Len(s))
    <3>1. i - Len(s) \in 1 .. Len(t) /\ t[i - Len(s)] = b
      BY <1>1, <2>1, <2>3
    <3> QED
      BY <3>1 DEF Contains
  <2> QED
    BY <2>2, <2>3
<1>3. ASSUME Contains(s, b) PROVE Contains(s \o t, b)
  <2>1. PICK i \in 1 .. Len(s) : s[i] = b
    BY <1>3 DEF Contains
  <2>2. i \in 1 .. Len(s \o t) /\ (s \o t)[i] = b
    BY <1>1, <2>1
  <2> QED
    BY <2>2 DEF Contains
<1>4. ASSUME Contains(t, b) PROVE Contains(s \o t, b)
  <2>1. PICK i \in 1 .. Len(t) : t[i] = b
    BY <1>4 DEF Contains
  <2>2. Len(s) + i \in 1 .. Len(s \o t) /\ (s \o t)[Len(s) + i] = b
    BY <1>1, <2>1
  <2> QED
    BY <2>2 DEF Contains
<1> QED
  BY <1>2, <1>3, <1>4

LEMMA ContainsTail ==
  ASSUME NEW s \in Seq(Nat), s # <<>>, NEW b
  PROVE  /\ Contains(s, b) <=> Contains(Tail(s), b) \/ b = Head(s)
         /\ Head(s) \in Nat /\ Tail(s) \in Seq(Nat) /\ Contains(s, Head(s))
         /\ Tail(s) = <<>> <=> Len(s) = 1
<1>1. /\ Head(s) \in Nat /\ Tail(s) \in Seq(Nat) /\ Len(Tail(s)) = Len(s) - 1
      /\ \A i \in 1 .. Len(Tail(s)) : Tail(s)[i] = s[i + 1]
  BY HeadTailProperties
<1>2. Head(s) = s[1] /\ Len(s) \in Nat /\ Len(s) >= 1
  OBVIOUS
<1>3. ASSUME Contains(s, b) PROVE Contains(Tail(s), b) \/ b = Head(s)
  <2>1. PICK i \in 1 .. Len(s) : s[i] = b
    BY <1>3 DEF Contains
  <2>2. CASE i = 1
    BY <1>2, <2>1, <2>2
  <2>3. CASE i # 1
    <3>1. i - 1 \in 1 .. Len(Tail(s)) /\ Tail(s)[i - 1] = b
      BY <1>1, <1>2, <2>1, <2>3
    <3> QED
      BY <3>1 DEF Contains
  <2> QED
    BY <2>2, <2>3
<1>4. ASSUME Contains(Tail(s), b) PROVE Contains(s, b)
  <2>1. PICK i \in 1 .. Len(Tail(s)) : Tail(s)[i] = b
    BY <1>4 DEF Contains
  <2>2. i + 1 \in 1 .. Len(s) /\ s[i + 1] = b
    BY <1>1, <1>2, <2>1
  <2> QED
    BY <2>2 DEF Contains
<1>5. Contains(s, Head(s))
  <2>1. 1 \in 1 .. Len(s) /\ s[1] = Head(s)
    BY <1>2
  <2> QED
    BY <2>1 DEF Contains
<1>6. Tail(s) = <<>> <=> Len(s) = 1
  <2>1. Tail(s) = <<>> <=> Len(Tail(s)) = 0
    BY <1>1, EmptySeq
  <2> QED
    BY <1>1, <1>2, <2>1
<1> QED
  BY <1>1, <1>3, <1>4, <1>5, <1>6

-----------------------------------------------------------------------------
(* The steps.                                                              *)

\* The pairs of replicas.
LEMMA PairParts == \A p \in Pairs : p[1] \in Replicas /\ p[2] \in Replicas /\ p[1] # p[2]
BY DEF Pairs

\* The invariant holds at the start.
LEMMA OverlayStart == overlay_Init => OverlayInv
<1> SUFFICES ASSUME overlay_Init PROVE OverlayInv
  OBVIOUS
<1> USE DEF overlay_Init
<1>1. OverlayTyped
  <2>1. flooder \in [Replicas -> Flooders]
    BY DEF Flooders
  <2>2. client \in [Pairs -> Clients]
    BY DEF Clients
  <2> QED
    BY <2>1, <2>2 DEF OverlayTyped
<1>2. \A r \in Replicas : Sent(r) = 0 /\ flooder[r].next = 1 /\ ~flooder[r].buffer.loaded
  BY DEF Sent, Waiting, Empty
<1>3. SentInOrder
  BY <1>2 DEF SentInOrder, Waiting
<1>4. \A p \in Pairs : client[p].txs_to_forward = <<>> /\ client[p].to_forward = <<>> /\ client[p].pc = "wait"
  OBVIOUS
<1>5. OnlySentSeen
  BY <1>2, <1>4, ContainsEmpty DEF OnlySentSeen, Queued
<1>6. ClientsInStep
  BY <1>4 DEF ClientsInStep
<1>7. Lockstep
  BY <1>2 DEF Lockstep
<1>8. NoBatchLost
  BY <1>2, PairParts DEF NoBatchLost
<1> QED
  BY <1>1, <1>3, <1>5, <1>6, <1>7, <1>8 DEF OverlayInv

\* The batches that were sent are numbered from 1.
LEMMA SentNumbers ==
  ASSUME SentInOrder
  PROVE  \A r \in Replicas : Sent(r) \in Nat
BY DEF SentInOrder

\* A step that sends nothing, and after which every batch that was with a
\* client is still there or has arrived.
LEMMA QuietStep ==
  ASSUME OverlayInv, OverlayTyped', SentInOrder', ClientsInStep',
         \A r \in Replicas : Sent(r)' = Sent(r),
         \A r, s \in Replicas : max_seen'[r][s] <= Sent(s),
         \A r \in Replicas : received[r] \subseteq received'[r],
         \A p \in Pairs : \A b \in Nat : Queued(p, b)' => Queued(p, b),
         \A p \in Pairs : \A b \in Nat :
           Queued(p, b) => \/ Queued(p, b)' \/ <<p[1], b>> \in received'[p[2]]
                           \/ <<p[1], b>> \in Garbled
  PROVE  OverlayInv'
<1>1. OnlySentSeen'
  BY PairParts DEF OverlayInv, OnlySentSeen
<1>2. Lockstep'
  BY DEF OverlayInv, Lockstep
<1>3. NoBatchLost'
  <2> SUFFICES ASSUME NEW p \in Pairs, NEW b \in 1 .. Sent(p[1])'
               PROVE  <<p[1], b>> \in Garbled \/ <<p[1], b>> \in received'[p[2]] \/ Queued(p, b)'
    BY DEF NoBatchLost, Queued
  <2>1. b \in 1 .. Sent(p[1]) /\ b \in Nat
    BY PairParts, SentNumbers DEF OverlayInv
  <2>2. <<p[1], b>> \in Garbled \/ <<p[1], b>> \in received[p[2]] \/ Queued(p, b)
    BY <2>1 DEF OverlayInv, NoBatchLost, Queued
  <2> QED
    BY <2>1, <2>2, PairParts
<1> QED
  BY <1>1, <1>2, <1>3 DEF OverlayInv

\* A flooder's step that sends nothing.
LEMMA FlooderQuiet ==
  ASSUME OverlayInv, flooder' \in [Replicas -> Flooders], SentInOrder',
         \A r \in Replicas : Sent(r)' = Sent(r),
         UNCHANGED <<client, max_seen, pool_size, received, faults>>
  PROVE  OverlayInv'
<1>1. OverlayTyped' /\ ClientsInStep'
  BY DEF OverlayInv, OverlayTyped, ClientsInStep
<1>2. \A p \in Pairs : \A b \in Nat : Queued(p, b)' <=> Queued(p, b)
  BY DEF Queued
<1>3. \A r, s \in Replicas : max_seen'[r][s] <= Sent(s)
  BY DEF OverlayInv, OnlySentSeen
<1> QED
  BY <1>1, <1>2, <1>3, QuietStep

\* load_txs_unparsed.
LEMMA LoadTxsStep ==
  ASSUME OverlayInv, NEW r \in Replicas, LoadTxs(r)
  PROVE  OverlayInv'
<1>1. PICK n : n = flooder[r].next
  OBVIOUS
<1>2. PICK more \in BOOLEAN : more = (n <= NumBatches[r])
  <2>1. (n <= NumBatches[r]) \in BOOLEAN
    OBVIOUS
  <2> QED
    BY <2>1, Zenon
<1>3. PICK next : next = IF more THEN n + 1 ELSE n
  OBVIOUS
<1>4. PICK b : b = [loaded |-> TRUE, number |-> n, data |-> more, finished |-> ~more]
  OBVIOUS
<1>5. /\ flooder' = [flooder EXCEPT ![r].buffer = b, ![r].next = next]
      /\ ~flooder[r].buffer.loaded /\ UNCHANGED <<client, max_seen, pool_size, received, faults>>
  BY <1>1, <1>2, <1>3, <1>4 DEF LoadTxs
<1>6. flooder \in [Replicas -> Flooders] /\ n \in Nat
  BY <1>1 DEF OverlayInv, OverlayTyped, Flooders
<1>7. b \in Loaded /\ b.loaded /\ b.number = n /\ b.data = more /\ next \in Nat
  BY <1>3, <1>4, <1>6 DEF Loaded
<1>8. /\ flooder' \in [Replicas -> Flooders]
      /\ flooder'[r].buffer = b /\ flooder'[r].next = next
      /\ \A s \in Replicas : s # r => flooder'[s] = flooder[s]
  BY <1>5, <1>6, <1>7 DEF Flooders
<1>9. n = Sent(r) + 1 /\ Sent(r) \in Nat
  BY <1>1, <1>5, SentNumbers DEF OverlayInv, SentInOrder, Waiting
<1>10. IF Waiting(flooder'[r])
       THEN flooder'[r].buffer.number = Sent(r) + 1 /\ flooder'[r].next = Sent(r) + 2
       ELSE flooder'[r].next = Sent(r) + 1
  BY <1>3, <1>7, <1>8, <1>9 DEF Waiting
<1>11. \A s \in Replicas : Sent(s)' = Sent(s)
  <2>1. Sent(r)' = Sent(r)
    BY <1>9, <1>10 DEF Sent
  <2>2. \A s \in Replicas : s # r => Sent(s)' = Sent(s)
    BY <1>8 DEF Sent
  <2> QED
    BY <2>1, <2>2
<1>12. SentInOrder'
  BY <1>8, <1>9, <1>10, <1>11 DEF OverlayInv, SentInOrder
<1> QED
  BY <1>5, <1>8, <1>11, <1>12, FlooderQuiet

\* The flooder returns at the end of the stream.
LEMMA StopFloodingStep ==
  ASSUME OverlayInv, NEW r \in Replicas, StopFlooding(r)
  PROVE  OverlayInv'
<1>1. /\ flooder' = [flooder EXCEPT ![r].returned = TRUE]
      /\ UNCHANGED <<client, max_seen, pool_size, received, faults>>
  BY DEF StopFlooding
<1>2. flooder \in [Replicas -> Flooders]
  BY DEF OverlayInv, OverlayTyped
<1>3. /\ flooder' \in [Replicas -> Flooders]
      /\ \A s \in Replicas : flooder'[s].buffer = flooder[s].buffer /\ flooder'[s].next = flooder[s].next
  BY <1>1, <1>2 DEF Flooders
<1>4. \A s \in Replicas : Sent(s)' = Sent(s)
  BY <1>3 DEF Sent, Waiting
<1>5. SentInOrder'
  BY <1>3, <1>4 DEF OverlayInv, SentInOrder, Waiting
<1> QED
  BY <1>1, <1>3, <1>4, <1>5, FlooderQuiet

\* A step that touches only the clients, the sizes and the faults, and moves no
\* batch out of a client.
LEMMA ClientQuiet ==
  ASSUME OverlayInv, client' \in [Pairs -> Clients], pool_size' \in [Replicas -> Nat],
         faults' \in Nat, UNCHANGED <<flooder, max_seen, received>>, ClientsInStep',
         \A p \in Pairs : \A b \in Nat : Queued(p, b)' <=> Queued(p, b)
  PROVE  OverlayInv'
<1>1. OverlayTyped'
  BY DEF OverlayInv, OverlayTyped
<1>2. \A r \in Replicas : Sent(r)' = Sent(r)
  BY DEF Sent
<1>3. SentInOrder'
  BY <1>2 DEF OverlayInv, SentInOrder
<1>4. \A r, s \in Replicas : max_seen'[r][s] <= Sent(s)
  BY DEF OverlayInv, OnlySentSeen
<1> QED
  BY <1>1, <1>2, <1>3, <1>4, QuietStep

\* The mempool loses transactions; the background thread asks for new sizes.
LEMMA DrainStep ==
  ASSUME OverlayInv, NEW r \in Replicas, Drain(r)
  PROVE  OverlayInv'
<1>1. UNCHANGED <<flooder, client, max_seen, received, faults>>
  BY DEF Drain
<1>2. pool_size' \in [Replicas -> Nat]
  <2>1. PICK left \in 0 .. pool_size[r] : pool_size' = [pool_size EXCEPT ![r] = left]
    BY DEF Drain
  <2>2. pool_size \in [Replicas -> Nat]
    BY DEF OverlayInv, OverlayTyped
  <2> QED
    BY <2>1, <2>2
<1>3. ClientsInStep' /\ \A p \in Pairs : \A b \in Nat : Queued(p, b)' <=> Queued(p, b)
  BY <1>1 DEF OverlayInv, ClientsInStep, Queued
<1> QED
  BY <1>1, <1>2, <1>3, ClientQuiet DEF OverlayInv, OverlayTyped

LEMMA PollAllStep ==
  ASSUME OverlayInv, NEW r \in Replicas, PollAll(r)
  PROVE  OverlayInv'
<1>1. /\ client' = [p \in Pairs |-> IF p[1] = r THEN [client[p] EXCEPT !.repoll = TRUE] ELSE client[p]]
      /\ UNCHANGED <<flooder, max_seen, pool_size, received, faults>>
  BY DEF PollAll
<1>2. client \in [Pairs -> Clients]
  BY DEF OverlayInv, OverlayTyped
<1>3. \A p \in Pairs : /\ client'[p] \in Clients /\ client'[p].pc = client[p].pc
                       /\ client'[p].txs_to_forward = client[p].txs_to_forward
                       /\ client'[p].to_forward = client[p].to_forward
  BY <1>1, <1>2 DEF Clients
<1>4. client' \in [Pairs -> Clients]
  BY <1>1, <1>3
<1>5. ClientsInStep' /\ \A p \in Pairs : \A b \in Nat : Queued(p, b)' <=> Queued(p, b)
  BY <1>3 DEF OverlayInv, ClientsInStep, Queued
<1> QED
  BY <1>1, <1>4, <1>5, ClientQuiet DEF OverlayInv, OverlayTyped

\* The client's thread takes all that is queued.
LEMMA TakeBatchesStep ==
  ASSUME OverlayInv, NEW q \in Pairs, TakeBatches(q)
  PROVE  OverlayInv'
<1>1. PICK batches : batches = client[q].txs_to_forward
  OBVIOUS
<1>2. PICK pc : pc = IF batches = <<>> THEN "poll" ELSE "forward"
  OBVIOUS
<1>3. /\ client[q].pc = "wait" /\ UNCHANGED <<flooder, max_seen, pool_size, received, faults>>
      /\ client' = [client EXCEPT ![q].to_forward = batches, ![q].txs_to_forward = <<>>, ![q].pc = pc]
  BY <1>1, <1>2 DEF TakeBatches
<1>4. client \in [Pairs -> Clients] /\ batches \in Seq(Nat)
  BY <1>1 DEF OverlayInv, OverlayTyped, Clients
<1>5. <<>> \in Seq(Nat)
  OBVIOUS
<1>6. /\ pc \in {"forward", "poll"} /\ (pc = "forward" <=> batches # <<>>)
  BY <1>2
<1>7. /\ client' \in [Pairs -> Clients]
      /\ client'[q].to_forward = batches /\ client'[q].txs_to_forward = <<>> /\ client'[q].pc = pc
      /\ \A p \in Pairs : p # q => client'[p] = client[p]
  <2>1. PICK c : c = [client[q] EXCEPT !.to_forward = batches, !.txs_to_forward = <<>>, !.pc = pc]
    OBVIOUS
  <2>2. client[q] \in Clients
    BY <1>4
  <2>3. c \in Clients /\ c.to_forward = batches /\ c.txs_to_forward = <<>> /\ c.pc = pc
    BY <1>4, <1>5, <1>6, <2>1, <2>2 DEF Clients
  <2>4. client' = [client EXCEPT ![q] = c]
    BY <1>3, <1>4, <2>1
  <2> QED
    BY <1>4, <2>3, <2>4
<1>8. ClientsInStep'
  BY <1>6, <1>7 DEF OverlayInv, ClientsInStep
<1>9. \A p \in Pairs : \A b \in Nat : Queued(p, b)' <=> Queued(p, b)
  <2>1. client[q].to_forward = <<>>
    BY <1>3 DEF OverlayInv, ClientsInStep
  <2>2. \A b \in Nat : Queued(q, b)' <=> Queued(q, b)
    BY <1>1, <1>7, <2>1, ContainsEmpty DEF Queued
  <2> QED
    BY <1>7, <2>2 DEF Queued
<1> QED
  BY <1>3, <1>7, <1>8, <1>9, ClientQuiet DEF OverlayInv, OverlayTyped

\* The sizes of the other mempools do not matter for what is with the clients.
LEMMA PollSizeStep ==
  ASSUME OverlayInv, NEW q \in Pairs, PollSize(q)
  PROVE  OverlayInv'
<1>1. client[q].pc = "poll" /\ UNCHANGED <<flooder, max_seen, pool_size, received>>
  BY DEF PollSize
<1>2. /\ client \in [Pairs -> Clients] /\ faults \in Nat /\ pool_size \in [Replicas -> Nat]
      /\ pool_size[q[2]] \in Nat
  BY PairParts DEF OverlayInv, OverlayTyped
<1>3. faults' \in Nat
  BY <1>2 DEF PollSize
<1>4. /\ client' \in [Pairs -> Clients]
      /\ client'[q].to_forward = client[q].to_forward
      /\ client'[q].txs_to_forward = client[q].txs_to_forward /\ client'[q].pc = "wait"
      /\ \A p \in Pairs : p # q => client'[p] = client[p]
  <2>1. CASE client' = [client EXCEPT ![q].foreign = pool_size[q[2]], ![q].connected = TRUE,
                                      ![q].pc = "wait"]
    <3>1. PICK c : c = [client[q] EXCEPT !.foreign = pool_size[q[2]], !.connected = TRUE, !.pc = "wait"]
      OBVIOUS
    <3>2. c \in Clients /\ c.pc = "wait" /\ c.to_forward = client[q].to_forward
          /\ c.txs_to_forward = client[q].txs_to_forward
      BY <1>2, <3>1 DEF Clients
    <3>3. client' = [client EXCEPT ![q] = c]
      BY <1>2, <2>1, <3>1
    <3> QED
      BY <1>2, <3>2, <3>3
  <2>2. CASE client' = [client EXCEPT ![q].connected = TRUE, ![q].pc = "wait"]
    <3>1. PICK c : c = [client[q] EXCEPT !.connected = TRUE, !.pc = "wait"]
      OBVIOUS
    <3>2. c \in Clients /\ c.pc = "wait" /\ c.to_forward = client[q].to_forward
          /\ c.txs_to_forward = client[q].txs_to_forward
      BY <1>2, <3>1 DEF Clients
    <3>3. client' = [client EXCEPT ![q] = c]
      BY <1>2, <2>2, <3>1
    <3> QED
      BY <1>2, <3>2, <3>3
  <2> QED
    BY <2>1, <2>2 DEF PollSize
<1>5. ClientsInStep'
  BY <1>1, <1>4 DEF OverlayInv, ClientsInStep
<1>6. \A p \in Pairs : \A b \in Nat : Queued(p, b)' <=> Queued(p, b)
  BY <1>4 DEF Queued
<1> QED
  BY <1>1, <1>2, <1>3, <1>4, <1>5, <1>6, ClientQuiet

\* log_batch_receipt: the highest number seen, and what came in.
LEMMA ReceiveEffect ==
  ASSUME OverlayInv, NEW r \in Replicas, NEW s \in Replicas, NEW b \in Nat, Receive(r, s, b)
  PROVE  /\ max_seen' \in [Replicas -> [Replicas -> Nat]]
         /\ max_seen'[r][s] \in {max_seen[r][s], Larger(max_seen[r][s], b)}
         /\ \A u, v \in Replicas : u # r \/ v # s => max_seen'[u][v] = max_seen[u][v]
         /\ received' \in [Replicas -> SUBSET (Replicas \X Nat)]
         /\ <<s, b>> \in received'[r] \/ <<s, b>> \in Garbled
         /\ \A u \in Replicas : received[u] \subseteq received'[u]
         /\ pool_size' \in [Replicas -> Nat]
<1>1. /\ max_seen \in [Replicas -> [Replicas -> Nat]] /\ pool_size \in [Replicas -> Nat]
      /\ received \in [Replicas -> SUBSET (Replicas \X Nat)]
  BY DEF OverlayInv, OverlayTyped
<1>2. PICK n \in Nat : n = Larger(max_seen[r][s], b)
  BY <1>1 DEF Larger
<1>3. max_seen' = max_seen \/ max_seen' = [max_seen EXCEPT ![r][s] = n]
  BY <1>2 DEF Receive
<1>4. /\ max_seen' \in [Replicas -> [Replicas -> Nat]] /\ max_seen'[r][s] \in {max_seen[r][s], n}
      /\ \A u, v \in Replicas : u # r \/ v # s => max_seen'[u][v] = max_seen[u][v]
  BY <1>1, <1>3
<1>5. CASE <<s, b>> \in Garbled
  <2>1. UNCHANGED <<received, pool_size>>
    BY <1>5 DEF Receive
  <2> QED
    BY <1>1, <1>2, <1>4, <1>5, <2>1
<1>6. CASE <<s, b>> \notin Garbled
  <2>1. PICK in : in = received[r] \cup {<<s, b>>}
    OBVIOUS
  <2>2. in \in SUBSET (Replicas \X Nat) /\ received' = [received EXCEPT ![r] = in]
    BY <1>1, <1>6, <2>1 DEF Receive
  <2>3. /\ received' \in [Replicas -> SUBSET (Replicas \X Nat)]
        /\ <<s, b>> \in received'[r] /\ \A u \in Replicas : received[u] \subseteq received'[u]
    BY <1>1, <2>1, <2>2
  <2>4. pool_size' \in [Replicas -> Nat]
    BY <1>1, <1>6 DEF Receive
  <2> QED
    BY <1>2, <1>4, <2>3, <2>4
<1> QED
  BY <1>5, <1>6

\* A call of the client q that delivers the first batch to the other replica,
\* or not, and after which what is left is still with the client.
LEMMA ForwardEffect ==
  ASSUME OverlayInv, NEW q \in Pairs, NEW b \in Nat, Queued(q, b),
         Receive(q[2], q[1], b) \/ UNCHANGED <<max_seen, received, pool_size>>,
         flooder' = flooder, faults' \in Nat,
         client' \in [Pairs -> Clients], ClientsInStep',
         \A p \in Pairs : p # q => client'[p] = client[p],
         \A a \in Nat : Queued(q, a)' => Queued(q, a),
         \A a \in Nat : Queued(q, a) => Queued(q, a)' \/ (a = b /\ Receive(q[2], q[1], b))
  PROVE  OverlayInv'
<1>1. q[1] \in Replicas /\ q[2] \in Replicas /\ q[1] # q[2]
  BY PairParts
<1>2. /\ max_seen \in [Replicas -> [Replicas -> Nat]] /\ \A r \in Replicas : Sent(r) \in Nat
      /\ flooder \in [Replicas -> Flooders]
  BY SentNumbers DEF OverlayInv, OverlayTyped
<1>3. /\ max_seen' \in [Replicas -> [Replicas -> Nat]] /\ pool_size' \in [Replicas -> Nat]
      /\ received' \in [Replicas -> SUBSET (Replicas \X Nat)]
      /\ \A u, v \in Replicas : u # q[2] \/ v # q[1] => max_seen'[u][v] = max_seen[u][v]
      /\ max_seen'[q[2]][q[1]] \in {max_seen[q[2]][q[1]], b}
      /\ \A u \in Replicas : received[u] \subseteq received'[u]
      /\ Receive(q[2], q[1], b) => <<q[1], b>> \in received'[q[2]] \/ <<q[1], b>> \in Garbled
  <2>1. CASE Receive(q[2], q[1], b)
    BY <1>1, <1>2, <2>1, ReceiveEffect DEF Larger
  <2>2. CASE UNCHANGED <<max_seen, received, pool_size>> /\ ~Receive(q[2], q[1], b)
    BY <2>2 DEF OverlayInv, OverlayTyped
  <2> QED
    BY <2>1, <2>2
<1>4. OverlayTyped'
  BY <1>2, <1>3 DEF OverlayTyped
<1>5. \A r \in Replicas : Sent(r)' = Sent(r)
  BY DEF Sent
<1>6. SentInOrder'
  BY <1>5 DEF OverlayInv, SentInOrder
<1>7. \A r, s \in Replicas : max_seen'[r][s] <= Sent(s)
  <2>1. b <= Sent(q[1]) /\ \A r, s \in Replicas : max_seen[r][s] <= Sent(s)
    BY DEF OverlayInv, OnlySentSeen
  <2> QED
    BY <1>3, <2>1
<1>8. \A p \in Pairs : \A a \in Nat : Queued(p, a)' => Queued(p, a)
  BY DEF Queued
<1>9. \A p \in Pairs : \A a \in Nat :
        Queued(p, a) => Queued(p, a)' \/ <<p[1], a>> \in received'[p[2]] \/ <<p[1], a>> \in Garbled
  <2>1. \A p \in Pairs : \A a \in Nat : p # q => (Queued(p, a) => Queued(p, a)')
    BY DEF Queued
  <2> QED
    BY <1>3, <2>1
<1> QED
  BY <1>3, <1>4, <1>5, <1>6, <1>7, <1>8, <1>9, QuietStep

\* The first batch of a client that forwards.
LEMMA FirstBatch ==
  ASSUME OverlayInv, NEW q \in Pairs, client[q].pc = "forward"
  PROVE  /\ client[q] \in Clients /\ client[q].to_forward \in Seq(Nat) /\ client[q].to_forward # <<>>
         /\ Head(client[q].to_forward) \in Nat /\ Queued(q, Head(client[q].to_forward))
<1>1. client[q] \in Clients /\ client[q].to_forward \in Seq(Nat)
  BY DEF OverlayInv, OverlayTyped, Clients
<1>2. client[q].to_forward # <<>>
  BY DEF OverlayInv, ClientsInStep
<1> QED
  BY <1>1, <1>2, ContainsTail DEF Queued

\* A call that succeeds.
LEMMA ForwardTxsStep ==
  ASSUME OverlayInv, NEW q \in Pairs, ForwardTxs(q)
  PROVE  OverlayInv'
<1>1. PICK c : c = client[q]
  OBVIOUS
<1>2. PICK b : b = Head(c.to_forward)
  OBVIOUS
<1>3. /\ c.pc = "forward" /\ Receive(q[2], q[1], b) /\ UNCHANGED <<flooder, faults>>
      /\ client' = [client EXCEPT ![q] = Delivered(c)]
  BY <1>1, <1>2 DEF ForwardTxs
<1>4. c \in Clients /\ c.to_forward \in Seq(Nat) /\ c.to_forward # <<>> /\ b \in Nat /\ Queued(q, b)
  BY <1>1, <1>2, <1>3, FirstBatch
<1>5. /\ Tail(c.to_forward) \in Seq(Nat) /\ (Tail(c.to_forward) = <<>> <=> Len(c.to_forward) = 1)
      /\ \A a : Contains(c.to_forward, a) <=> Contains(Tail(c.to_forward), a) \/ a = b
  BY <1>2, <1>4, ContainsTail
<1>6. PICK pc \in {"poll", "forward"} : pc = IF Len(c.to_forward) = 1 THEN "poll" ELSE "forward"
  OBVIOUS
<1>7. PICK rest \in Seq(Nat) : rest = Tail(c.to_forward)
  BY <1>5
<1>8. PICK d : d = Delivered(c)
  OBVIOUS
<1>9. d = [c EXCEPT !.to_forward = rest, !.local = c.local - 1, !.foreign = c.foreign + 1,
                    !.connected = TRUE, !.pc = pc]
  BY <1>6, <1>7, <1>8 DEF Delivered
<1>10. c.local - 1 \in Int /\ c.foreign + 1 \in Nat
  BY <1>4 DEF Clients
<1>11. d \in Clients /\ d.to_forward = rest /\ d.txs_to_forward = c.txs_to_forward /\ d.pc = pc
  BY <1>4, <1>6, <1>9, <1>10 DEF Clients
<1>12. /\ client' \in [Pairs -> Clients] /\ client'[q] = d
       /\ \A p \in Pairs : p # q => client'[p] = client[p]
  BY <1>3, <1>8, <1>11 DEF OverlayInv, OverlayTyped
<1>13. ClientsInStep'
  <2>1. pc = "forward" <=> rest # <<>>
    BY <1>5, <1>6, <1>7
  <2> QED
    BY <1>11, <1>12, <2>1 DEF OverlayInv, ClientsInStep
<1>14. \A a \in Nat : Queued(q, a) <=> Queued(q, a)' \/ a = b
  <2>1. \A a : Queued(q, a)' <=> Contains(c.txs_to_forward, a) \/ Contains(rest, a)
    BY <1>11, <1>12 DEF Queued
  <2>2. \A a : Queued(q, a) <=> Contains(c.txs_to_forward, a) \/ Contains(c.to_forward, a)
    BY <1>1 DEF Queued
  <2> QED
    BY <1>5, <1>7, <2>1, <2>2
<1>15. faults' \in Nat
  BY <1>3 DEF OverlayInv, OverlayTyped
<1> QED
  BY <1>3, <1>4, <1>12, <1>13, <1>14, <1>15, ForwardEffect

\* A call that fails, before or after it was delivered.
LEMMA ForwardFailsStep ==
  ASSUME OverlayInv, NEW q \in Pairs, ForwardFails(q)
  PROVE  OverlayInv'
<1>1. PICK c : c = client[q]
  OBVIOUS
<1>2. PICK b : b = Head(c.to_forward)
  OBVIOUS
<1>3. /\ c.pc = "forward" /\ flooder' = flooder /\ faults' = faults + 1
      /\ Receive(q[2], q[1], b) \/ UNCHANGED <<max_seen, received, pool_size>>
      /\ client' = [client EXCEPT ![q] = Requeued(c)]
  BY <1>1, <1>2 DEF ForwardFails
<1>4. c \in Clients /\ c.to_forward \in Seq(Nat) /\ c.to_forward # <<>> /\ b \in Nat /\ Queued(q, b)
  BY <1>1, <1>2, <1>3, FirstBatch
<1>5. c.txs_to_forward \in Seq(Nat)
  BY <1>4 DEF Clients
<1>6. PICK all : all = c.txs_to_forward \o c.to_forward
  OBVIOUS
<1>7. /\ all \in Seq(Nat)
      /\ \A a : Contains(all, a) <=> Contains(c.txs_to_forward, a) \/ Contains(c.to_forward, a)
  BY <1>4, <1>5, <1>6, ContainsConcat, ConcatProperties
<1>8. PICK d : d = Requeued(c)
  OBVIOUS
<1>9. d = [c EXCEPT !.txs_to_forward = all, !.to_forward = <<>>, !.connected = TRUE, !.pc = "poll"]
  BY <1>6, <1>8 DEF Requeued
<1>10. <<>> \in Seq(Nat)
  OBVIOUS
<1>11. d \in Clients /\ d.to_forward = <<>> /\ d.txs_to_forward = all /\ d.pc = "poll"
  BY <1>4, <1>7, <1>9, <1>10 DEF Clients
<1>12. /\ client' \in [Pairs -> Clients] /\ client'[q] = d
       /\ \A p \in Pairs : p # q => client'[p] = client[p]
  BY <1>3, <1>8, <1>11 DEF OverlayInv, OverlayTyped
<1>13. ClientsInStep'
  BY <1>11, <1>12 DEF OverlayInv, ClientsInStep
<1>14. \A a \in Nat : Queued(q, a)' <=> Queued(q, a)
  <2>1. \A a : Queued(q, a)' <=> Contains(all, a) \/ Contains(<<>>, a)
    BY <1>11, <1>12 DEF Queued
  <2>2. \A a : Queued(q, a) <=> Contains(c.txs_to_forward, a) \/ Contains(c.to_forward, a)
    BY <1>1 DEF Queued
  <2> QED
    BY <1>7, <2>1, <2>2, ContainsEmpty
<1>15. faults' \in Nat
  BY <1>3 DEF OverlayInv, OverlayTyped
<1> QED
  BY <1>3, <1>4, <1>12, <1>13, <1>14, <1>15, ForwardEffect

\* A batch within the limit: its number is one more than what every replica was
\* seen to send, and one more than the last of this one.
LEMMA SendTxsStep ==
  ASSUME OverlayInv, NEW r \in Replicas, SendTxs(r)
  PROVE  OverlayInv'
<1>1. PICK buf : buf = flooder[r].buffer
  OBVIOUS
<1>2. PICK b : b = buf.number
  OBVIOUS
<1>3. /\ buf.loaded /\ b <= tx_batch_limit(r) /\ faults' = faults
      /\ flooder' = [flooder EXCEPT ![r].buffer = Empty, ![r].returned = buf.finished]
  BY <1>1, <1>2 DEF SendTxs
<1>4. /\ flooder \in [Replicas -> Flooders] /\ client \in [Pairs -> Clients]
      /\ max_seen \in [Replicas -> [Replicas -> Nat]] /\ \A s \in Replicas : Sent(s) \in Nat
  BY SentNumbers DEF OverlayInv, OverlayTyped
<1>5. buf \in Loaded /\ b \in Nat /\ buf.finished \in BOOLEAN /\ buf.data \in BOOLEAN
  <2>1. buf \in {Empty} \cup Loaded /\ Empty.loaded = FALSE
    BY <1>1, <1>4 DEF Flooders, Empty
  <2>2. buf \in Loaded
    BY <1>3, <2>1
  <2> QED
    BY <1>2, <2>2 DEF Loaded
<1>6. /\ flooder' \in [Replicas -> Flooders] /\ flooder'[r].buffer = Empty
      /\ flooder'[r].next = flooder[r].next
      /\ \A s \in Replicas : s # r => flooder'[s] = flooder[s]
  BY <1>3, <1>4, <1>5 DEF Flooders
<1>7. ~Empty.loaded
  BY DEF Empty
<1>8. CASE ~buf.data
  <2>1. UNCHANGED <<max_seen, received, pool_size, client>>
    BY <1>1, <1>8 DEF SendTxs
  <2>2. \A s \in Replicas : Sent(s)' = Sent(s)
    <3>1. ~Waiting(flooder[r]) /\ ~Waiting(flooder'[r])
      BY <1>1, <1>6, <1>7, <1>8 DEF Waiting
    <3> QED
      BY <1>6, <3>1 DEF Sent
  <2>3. flooder[r].next = Sent(r) + 1
    BY <1>1, <1>8 DEF OverlayInv, SentInOrder, Waiting
  <2>4. SentInOrder'
    BY <1>6, <1>7, <2>2, <2>3 DEF OverlayInv, SentInOrder, Waiting
  <2> QED
    BY <1>3, <1>6, <2>1, <2>2, <2>4, FlooderQuiet
<1>9. CASE buf.data
  <2>1. /\ Receive(r, r, b)
        /\ client' = [p \in Pairs |->
             IF p[1] # r THEN client[p]
             ELSE [client[p] EXCEPT !.txs_to_forward = Append(client[p].txs_to_forward, b),
                                    !.local = client[p].local + 1]]
    BY <1>1, <1>2, <1>9 DEF SendTxs
  <2>2. b = Sent(r) + 1 /\ flooder[r].next = Sent(r) + 2
    BY <1>1, <1>2, <1>3, <1>9 DEF OverlayInv, SentInOrder, Waiting
  <2>3. \A s \in Replicas : b <= Sent(s) + 1
    <3>1. PICK S : S = {max_seen[r][s] : s \in Replicas}
      OBVIOUS
    <3>2. S \subseteq Nat /\ max_seen[r][r] \in S
      BY <1>4, <3>1
    <3>3. Min(S) \in Nat /\ \A x \in S : Min(S) <= x
      BY <3>2, LeastElement
    <3>4. b <= Min(S) + 1
      BY <1>3, <3>1 DEF tx_batch_limit
    <3>5. \A s \in Replicas : max_seen[r][s] \in S /\ max_seen[r][s] <= Sent(s)
      BY <3>1 DEF OverlayInv, OnlySentSeen
    <3>6. ASSUME NEW s \in Replicas PROVE b <= Sent(s) + 1
      <4>1. max_seen[r][s] \in S /\ max_seen[r][s] <= Sent(s) /\ max_seen[r][s] \in Nat /\ Sent(s) \in Nat
        BY <1>4, <3>5
      <4>2. Min(S) <= max_seen[r][s]
        BY <3>3, <4>1
      <4> QED
        BY <1>5, <3>3, <3>4, <4>1, <4>2
    <3> QED
      BY <3>6
  <2>4. /\ max_seen' \in [Replicas -> [Replicas -> Nat]] /\ pool_size' \in [Replicas -> Nat]
        /\ received' \in [Replicas -> SUBSET (Replicas \X Nat)]
        /\ \A u \in Replicas : received[u] \subseteq received'[u]
        /\ max_seen'[r][r] <= b
        /\ \A u, v \in Replicas : u # r \/ v # r => max_seen'[u][v] = max_seen[u][v]
    <3>1. max_seen[r][r] <= b /\ Larger(max_seen[r][r], b) = b
      <4>1. max_seen[r][r] <= Sent(r) /\ max_seen[r][r] \in Nat /\ Sent(r) \in Nat
        BY <1>4 DEF OverlayInv, OnlySentSeen
      <4> QED
        BY <2>2, <4>1 DEF Larger
    <3>2. PICK m : m = max_seen'[r][r]
      OBVIOUS
    <3>3. /\ max_seen' \in [Replicas -> [Replicas -> Nat]] /\ pool_size' \in [Replicas -> Nat]
          /\ received' \in [Replicas -> SUBSET (Replicas \X Nat)]
          /\ \A u \in Replicas : received[u] \subseteq received'[u]
          /\ m \in {max_seen[r][r], Larger(max_seen[r][r], b)}
          /\ \A u, v \in Replicas : u # r \/ v # r => max_seen'[u][v] = max_seen[u][v]
      BY <1>5, <2>1, <3>2, ReceiveEffect
    <3>4. m <= b
      BY <1>5, <3>1, <3>3
    <3> QED
      BY <3>2, <3>3, <3>4
  <2>5. \A p \in Pairs : p[1] # r => client'[p] = client[p]
    BY <2>1
  <2>6. ASSUME NEW p \in Pairs, p[1] = r
        PROVE  /\ client'[p] \in Clients /\ client'[p].pc = client[p].pc
               /\ client'[p].to_forward = client[p].to_forward
               /\ client'[p].txs_to_forward = Append(client[p].txs_to_forward, b)
    <3>1. PICK q : q = Append(client[p].txs_to_forward, b)
      OBVIOUS
    <3>2. client[p] \in Clients /\ q \in Seq(Nat) /\ client[p].local + 1 \in Int
      BY <1>4, <1>5, <3>1 DEF Clients
    <3>3. client'[p] = [client[p] EXCEPT !.txs_to_forward = q, !.local = client[p].local + 1]
      BY <2>1, <2>6, <3>1
    <3> QED
      BY <3>1, <3>2, <3>3 DEF Clients
  <2>7. client' \in [Pairs -> Clients]
    <3>1. \A p \in Pairs : client'[p] \in Clients
      BY <1>4, <2>5, <2>6
    <3>2. DOMAIN client' = Pairs /\ client' = [p \in Pairs |-> client'[p]]
      BY <2>1
    <3> QED
      BY <3>1, <3>2
  <2>8. ASSUME NEW p \in Pairs, NEW a \in Nat
        PROVE  Queued(p, a)' <=> Queued(p, a) \/ (p[1] = r /\ a = b)
    <3>1. CASE p[1] # r
      BY <2>5, <3>1 DEF Queued
    <3>2. CASE p[1] = r
      <4>1. Contains(Append(client[p].txs_to_forward, b), a)
              <=> Contains(client[p].txs_to_forward, a) \/ a = b
        <5>1. client[p].txs_to_forward \in Seq(Nat)
          BY <1>4 DEF Clients
        <5> QED
          BY <1>5, <5>1, ContainsAppend
      <4> QED
        BY <2>6, <3>2, <4>1 DEF Queued
    <3> QED
      BY <3>1, <3>2
  <2>9. Sent(r)' = b /\ \A s \in Replicas : s # r => Sent(s)' = Sent(s)
    <3>1. ~Waiting(flooder'[r]) /\ flooder'[r].next = b + 1
      BY <1>4, <1>6, <1>7, <2>2 DEF Waiting
    <3> QED
      BY <1>5, <1>6, <3>1 DEF Sent
  <2>10. OverlayTyped'
    BY <1>3, <1>6, <2>4, <2>7 DEF OverlayInv, OverlayTyped
  <2>11. SentInOrder'
    <3>1. ~Waiting(flooder'[r]) /\ flooder'[r].next = b + 1
      BY <1>4, <1>6, <1>7, <2>2 DEF Waiting
    <3> QED
      BY <1>5, <1>6, <2>9, <3>1 DEF OverlayInv, SentInOrder
  <2>12. ClientsInStep'
    <3>1. \A p \in Pairs : client'[p].pc = client[p].pc /\ client'[p].to_forward = client[p].to_forward
      BY <2>5, <2>6
    <3> QED
      BY <3>1 DEF OverlayInv, ClientsInStep
  <2>13. \A s \in Replicas : Sent(s)' \in Nat /\ Sent(s) <= Sent(s)'
    BY <1>4, <1>5, <2>2, <2>9
  <2>14. OnlySentSeen'
    <3>1. \A u, v \in Replicas : max_seen'[u][v] <= Sent(v)'
      <4>1. \A u, v \in Replicas : max_seen[u][v] \in Nat /\ max_seen[u][v] <= Sent(v)
        BY <1>4 DEF OverlayInv, OnlySentSeen
      <4>2. \A u, v \in Replicas : u # r \/ v # r => max_seen'[u][v] <= Sent(v)'
        BY <1>4, <2>4, <2>13, <4>1
      <4>3. max_seen'[r][r] <= Sent(r)'
        BY <1>5, <2>4, <2>9
      <4> QED
        BY <4>2, <4>3
    <3>2. \A p \in Pairs : \A a \in Nat : Queued(p, a)' => a <= Sent(p[1])'
      <4>1. \A p \in Pairs : \A a \in Nat : Queued(p, a) => a <= Sent(p[1])
        BY DEF OverlayInv, OnlySentSeen
      <4>2. ASSUME NEW p \in Pairs, NEW a \in Nat, Queued(p, a)' PROVE a <= Sent(p[1])'
        <5>1. p[1] \in Replicas
          BY PairParts
        <5>2. CASE Queued(p, a)
          BY <1>4, <2>13, <4>1, <5>1, <5>2
        <5>3. CASE p[1] = r /\ a = b
          BY <1>5, <2>9, <5>3
        <5> QED
          BY <2>8, <4>2, <5>2, <5>3
      <4> QED
        BY <4>2
    <3> QED
      BY <3>1, <3>2 DEF OnlySentSeen
  <2>15. Lockstep'
    <3> SUFFICES ASSUME NEW u \in Replicas, NEW v \in Replicas PROVE Sent(u)' <= Sent(v)' + 1
      BY DEF Lockstep
    <3>1. Sent(u) <= Sent(v) + 1
      BY DEF OverlayInv, Lockstep
    <3>2. CASE u = r
      BY <1>4, <1>5, <2>3, <2>9, <2>13, <3>2
    <3>3. CASE u # r
      BY <1>4, <2>9, <2>13, <3>1, <3>3
    <3> QED
      BY <3>2, <3>3
  <2>16. NoBatchLost'
    <3> SUFFICES ASSUME NEW p \in Pairs, NEW a \in 1 .. Sent(p[1])'
                 PROVE  <<p[1], a>> \in Garbled \/ <<p[1], a>> \in received'[p[2]] \/ Queued(p, a)'
      BY DEF NoBatchLost, Queued
    <3>1. p[1] \in Replicas /\ p[2] \in Replicas /\ a \in Nat
      BY <2>13, PairParts
    <3>2. CASE p[1] = r /\ a = b
      BY <2>8, <3>1, <3>2
    <3>3. CASE ~(p[1] = r /\ a = b)
      <4>1. Sent(p[1]) \in Nat /\ a \in Nat /\ 1 <= a /\ a <= Sent(p[1])'
        BY <1>4, <2>13, <3>1
      <4>2. a <= Sent(p[1])
        <5>1. CASE p[1] # r
          BY <2>9, <3>1, <4>1, <5>1
        <5>2. CASE p[1] = r
          <6>1. a <= b /\ a # b /\ Sent(p[1]) = Sent(r)
            BY <2>9, <3>3, <4>1, <5>2
          <6> QED
            BY <1>5, <2>2, <4>1, <6>1
        <5> QED
          BY <5>1, <5>2
      <4>3. a \in 1 .. Sent(p[1])
        BY <4>1, <4>2
      <4>4. <<p[1], a>> \in Garbled \/ <<p[1], a>> \in received[p[2]] \/ Queued(p, a)
        BY <4>3 DEF OverlayInv, NoBatchLost, Queued
      <4> QED
        BY <2>4, <2>8, <3>1, <4>4
    <3> QED
      BY <3>2, <3>3
  <2> QED
    BY <2>10, <2>11, <2>12, <2>14, <2>15, <2>16 DEF OverlayInv
<1> QED
  BY <1>8, <1>9

-----------------------------------------------------------------------------
(* The theorems.                                                           *)

\* No step breaks the invariant.
LEMMA OverlayInductive == OverlayInv /\ [overlay_Next]_overlay_vars => OverlayInv'
<1> SUFFICES ASSUME OverlayInv, [overlay_Next]_overlay_vars PROVE OverlayInv'
  OBVIOUS
<1>1. ASSUME NEW r \in Replicas, FlooderThread(r) \/ PollAll(r) \/ Drain(r) PROVE OverlayInv'
  BY <1>1, LoadTxsStep, SendTxsStep, StopFloodingStep, PollAllStep, DrainStep DEF FlooderThread
<1>2. ASSUME NEW p \in Pairs, ClientThread(p) PROVE OverlayInv'
  BY <1>2, TakeBatchesStep, ForwardTxsStep, ForwardFailsStep, PollSizeStep DEF ClientThread
<1>3. CASE UNCHANGED overlay_vars
  <2>1. UNCHANGED <<flooder, client, max_seen, pool_size, received, faults>>
    BY <1>3 DEF overlay_vars
  <2>2. \A r \in Replicas : Sent(r)' = Sent(r)
    BY <2>1 DEF Sent
  <2>3. SentInOrder' /\ flooder' \in [Replicas -> Flooders]
    BY <2>1, <2>2 DEF OverlayInv, OverlayTyped, SentInOrder
  <2> QED
    BY <2>1, <2>2, <2>3, FlooderQuiet
<1> QED
  BY <1>1, <1>2, <1>3 DEF overlay_Next

\* No replica is ever more than one batch ahead of another, whatever calls fail
\* and in whatever order batches arrive (tx_batch_limit, log_batch_receipt).
THEOREM LockstepCorrect == overlay_Spec => []Lockstep
<1>1. overlay_Init => OverlayInv
  BY OverlayStart
<1>2. OverlayInv /\ [overlay_Next]_overlay_vars => OverlayInv'
  BY OverlayInductive
<1>3. OverlayInv => Lockstep
  BY DEF OverlayInv
<1> QED
  BY <1>1, <1>2, <1>3, PTL DEF overlay_Spec

\* No failing call loses a batch: it has arrived or is with the client that is
\* to forward it (OverlayClient::run).
THEOREM NoBatchLostCorrect == overlay_Spec => []NoBatchLost
<1>1. overlay_Init => OverlayInv
  BY OverlayStart
<1>2. OverlayInv /\ [overlay_Next]_overlay_vars => OverlayInv'
  BY OverlayInductive
<1>3. OverlayInv => NoBatchLost
  BY DEF OverlayInv
<1> QED
  BY <1>1, <1>2, <1>3, PTL DEF overlay_Spec
=============================================================================
