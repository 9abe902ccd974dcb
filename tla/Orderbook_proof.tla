-------------------------- MODULE Orderbook_proof --------------------------
(***************************************************************************)
(* Proofs about Orderbook, for any number of keys and blocks and any       *)
(* amount, without the delicate inputs: Allow = {}.  The ledger is the     *)
(* reference: memory, thunks and disk are compared with it.                *)
(***************************************************************************)
EXTENDS Orderbook, Counting_proof, SequenceTheorems

Entry == [book : Book, born : SUBSET Key]

\* An offer has a key of its own: it is born once, and then only loses.
Shrinks(L) ==
  /\ \A i \in 1..Len(L), k \in Key : L[i].book[k] # 0 => k \in L[i].born
  /\ \A i, j \in 1..Len(L), k \in Key :
       i <= j /\ k \in L[i].born => k \in L[j].born /\ L[j].book[k] <= L[i].book[k]

\* The offer at k after the transactions of thunk t, on a book b.
Met(b, t, k) ==
  IF k \in t.uncommitted_offers_vec THEN Amount
  ELSE IF t.deleted_keys[k] # 0 THEN 0 ELSE b[k]

\* The thunk t was opened on the book of entry e.
Opened(e, t) ==
  /\ t.uncommitted_offers_vec \cap e.born = {}
  /\ \A k \in Key : t.deleted_keys[k] # 0 => t.deleted_keys[k] = e.book[k]
Unset(t) == t.exists_partial_exec = "unset" /\ t.cleared_offers = EmptyBook

\* It was closed by a clearing that made the book c of b.
Closed(b, t, c) ==
  /\ t.exists_partial_exec \in {"no", "yes"}
  /\ Partial(t) => /\ t.partial_exec_key \in Key
                   /\ t.preexecute = Met(b, t, t.partial_exec_key) /\ t.preexecute # 0
                   /\ t.partial_exec_amount <= t.preexecute
  /\ ~Partial(t) => t.partial_exec_key = Top
  /\ \A k \in Key :
       /\ t.cleared_offers[k] = IF k < t.partial_exec_key THEN Met(b, t, k) ELSE 0
       /\ c[k] = IF k < t.partial_exec_key THEN 0
                 ELSE IF k = t.partial_exec_key THEN Met(b, t, k) - t.partial_exec_amount
                 ELSE Met(b, t, k)

\* The thunks of finished blocks say what those did, and the ledger changes
\* nowhere else.
Recorded(L, t) ==
  /\ Opened(L[t.block], t)
  /\ t.uncommitted_offers_vec \subseteq L[t.block + 1].born
  /\ Closed(L[t.block].book, t, L[t.block + 1].book)
Untouched(ts, k, lo, hi) ==
  \A i \in 1..Len(ts) : ts[i].block \in (lo + 1)..hi => k \notin Touched(ts[i])
Complete(L, ts, lo, hi) ==
  \A m, n \in lo..hi, k \in Key :
    m <= n /\ Untouched(ts, k, m, n) => L[m + 1].book[k] = L[n + 1].book[k]
ThunksExact ==
  /\ \A i \in 1..Len(thunks) : thunks[i].block <= proposal_base => Recorded(ledger, thunks[i])
  /\ Complete(ledger, thunks, persisted, proposal_base)

\* Of the offers of one thunk, only the lowest is cancelled while the thunk is
\* in memory.
Lowest(k, t) == k \in t.uncommitted_offers_vec => \A x \in t.uncommitted_offers_vec : x >= k
LowestDeleted(ts) ==
  \A i, j \in 1..Len(ts), k \in Key :
    i < j /\ ts[j].deleted_keys[k] # 0 => Lowest(k, ts[i])
CancelsLowest ==
  /\ LowestDeleted(thunks)
  /\ \A k \in marked, i \in 1..Len(thunks) : Lowest(k, thunks[i])

\* The block in progress, at each of its steps: before and after its thunk is
\* there.
Booked == pc \in {"clear", "vclear", "decide", "fail"}
Inserted == IF pc \in {"commit", "clear"} THEN blk.new ELSE {k \in blk.new : k >= blk.key}
Opening ==
  /\ committed_offers = Lead.book
  /\ pc = "idle" => marked = {} /\ uncommitted_offers = {} /\ rollback_marks = {} /\ blk = NoBlock
  /\ pc # "idle" => marked = blk.cancels /\ uncommitted_offers = Inserted
  /\ pc = "commit" => rollback_marks = {}
  /\ pc = "vcommit" => rollback_marks = Inserted
Running ==
  /\ marked = {} /\ uncommitted_offers = {}
  /\ TopThunk.block = proposal_base + 1 /\ TopThunk.uncommitted_offers_vec = Inserted
  /\ \A k \in Key : TopThunk.deleted_keys[k] = IF k \in blk.cancels THEN Lead.book[k] ELSE 0
  /\ rollback_marks \subseteq Inserted
  /\ pc = "clear" => rollback_marks = {}
  /\ pc = "vclear" => rollback_marks = Inserted
  /\ pc = "decide" =>
       /\ blk.key \notin rollback_marks
       /\ Closed(Lead.book, TopThunk, committed_offers)
       /\ TopThunk.partial_exec_key = blk.key
       /\ Partial(TopThunk) => TopThunk.partial_exec_amount = blk.sell
  /\ pc # "decide" =>
       /\ Unset(TopThunk)
       /\ \A k \in Key : committed_offers[k] = Met(Lead.book, TopThunk, k)
BlockInStep ==
  /\ blk.new \cap Lead.born = {} /\ \A k \in blk.cancels : Lead.book[k] # 0
  /\ pc # "idle" => proposal_base < MaxBlock
  /\ pc \in {"vcommit", "vclear", "decide", "fail"} => last_committed = proposal_base
  /\ pc \in {"commit", "clear"} => blk.key = Top /\ blk.sell = 0
  /\ IF Booked THEN Running ELSE Opening

OInv ==
  /\ ThunksOrdered /\ PersistExact /\ ~junk
  /\ Shrinks(ledger) /\ ThunksExact /\ CancelsLowest /\ BlockInStep

-----------------------------------------------------------------------------
(* Books and thunks, key by key.                                           *)

LEMMA Numbers ==
  /\ K \in Nat /\ K # 0 /\ Amount \in Nat /\ Amount # 0 /\ MaxBlock \in Nat
  /\ Top \in Nat /\ Key \subseteq Nat /\ 0 \in 0..Amount /\ Amount \in 0..Amount
  /\ \A k \in Key : k \in Nat /\ 1 <= k /\ k <= K /\ k < Top
BY OrderbookAssumption DEF Key, Top

LEMMA ThunkFields ==
  ASSUME NEW t \in Thunk
  PROVE  /\ t.block \in 1..MaxBlock /\ t.block \in Nat /\ t.uncommitted_offers_vec \subseteq Key
         /\ t.deleted_keys \in Book /\ t.cleared_offers \in Book
         /\ t.partial_exec_key \in 1..Top /\ t.partial_exec_key \in Nat
         /\ t.partial_exec_amount \in Nat /\ t.preexecute \in 0..Amount
         /\ t.exists_partial_exec \in {"unset", "no", "yes"}
BY Numbers DEF Thunk

LEMMA BookValues ==
  ASSUME NEW b \in Book, NEW k \in Key
  PROVE  b[k] \in 0..Amount /\ b[k] \in Nat /\ b[k] <= Amount
BY Numbers DEF Book

\* Two books with the same offers are one.
LEMMA SameBook ==
  ASSUME NEW b, NEW c, b = [k \in Key |-> b[k]], c = [k \in Key |-> c[k]],
         \A k \in Key : b[k] = c[k]
  PROVE  b = c
OBVIOUS

LEMMA UndoValue ==
  ASSUME NEW b \in Book, NEW t \in Thunk
  PROVE  /\ undo_thunk(b, t) \in Book
         /\ \A k \in Key :
              undo_thunk(b, t)[k] =
                IF Partial(t) /\ k = t.partial_exec_key THEN t.preexecute
                ELSE IF k \in t.uncommitted_offers_vec THEN 0
                ELSE IF t.cleared_offers[k] # 0 THEN t.cleared_offers[k]
                ELSE IF t.deleted_keys[k] # 0 THEN t.deleted_keys[k] ELSE b[k]
<1>1. PICK p : p = t.preexecute
  OBVIOUS
<1>2. PICK r : r = [k \in Key |-> IF k \in t.uncommitted_offers_vec THEN 0
                                  ELSE IF t.cleared_offers[k] # 0 THEN t.cleared_offers[k]
                                  ELSE IF t.deleted_keys[k] # 0 THEN t.deleted_keys[k] ELSE b[k]]
  OBVIOUS
<1>3. Without(merge_in(merge_in(b, t.deleted_keys), t.cleared_offers), t.uncommitted_offers_vec) = r
  <2>1. \A k \in Key : k \in Key \ t.uncommitted_offers_vec <=> k \notin t.uncommitted_offers_vec
    OBVIOUS
  <2> QED
    BY <1>2, <2>1 DEF Without, Only, merge_in
<1>4. undo_thunk(b, t) = IF Partial(t) THEN [r EXCEPT ![t.partial_exec_key] = p] ELSE r
  BY <1>1, <1>3 DEF undo_thunk
<1>5. r \in Book /\ p \in 0..Amount
  BY <1>1, <1>2, Numbers, ThunkFields DEF Book
<1>6. undo_thunk(b, t) \in Book
  BY <1>4, <1>5 DEF Book
<1>7. \A k \in Key : undo_thunk(b, t)[k] = IF Partial(t) /\ k = t.partial_exec_key THEN p ELSE r[k]
  BY <1>4, <1>5 DEF Book
<1> QED
  BY <1>1, <1>2, <1>6, <1>7

-----------------------------------------------------------------------------
(* What is computed thunk by thunk.                                        *)

IntBook == [Key -> Int]

\* Phase 4 goes through the thunks.
LEMMA PartialExecs ==
  ASSUME NEW d, NEW ts \in Seq(Thunk), phase3(d, ts) \in IntBook
  PROVE  /\ partial_execs(d, ts)[0] = phase3(d, ts)
         /\ \A i \in 1..Len(ts) :
              partial_execs(d, ts)[i] = partial_exec(partial_execs(d, ts)[i - 1], ts[i])
<1> DEFINE n == Len(ts)
           start == phase3(d, ts)
           Run(f) == f = [i \in 0..n |-> IF i = 0 THEN start ELSE partial_exec(f[i - 1], ts[i])]
<1>1. PICK g : g = [x \in IntBook \X (1..n) |-> partial_exec(x[1], ts[x[2]])]
  OBVIOUS
<1>2. g \in [IntBook \X (1..n) -> IntBook]
  <2>1. ASSUME NEW x \in IntBook, NEW i \in 1..n PROVE partial_exec(x, ts[i]) \in IntBook
    <3>1. ts[i] \in Thunk
      BY ElementOfSeq
    <3> QED
      BY <3>1 DEF partial_exec, Sell, IntBook, Thunk
  <2> QED
    BY <1>1, <2>1
<1>3. n \in Nat /\ start \in IntBook
  OBVIOUS
<1> HIDE DEF n, start
<1>4. PICK f : f \in [0..n -> IntBook] /\ Steps(f, start, n, g)
  BY <1>2, <1>3, Iterated
<1>5. \A i \in 1..n : f[i - 1] \in IntBook /\ g[<<f[i - 1], i>>] = partial_exec(f[i - 1], ts[i])
  <2>1. \A i \in 1..n : i - 1 \in 0..n
    BY <1>3
  <2> QED
    BY <1>1, <1>4, <2>1
<1>6. Run(f)
  <2>1. \A i \in 0..n : f[i] = IF i = 0 THEN start ELSE partial_exec(f[i - 1], ts[i])
    <3>1. \A i \in 0..n : i = 0 \/ i \in 1..n
      BY <1>3
    <3>2. \A i \in 1..n : f[i] = partial_exec(f[i - 1], ts[i])
      BY <1>4, <1>5, Zenon DEF Steps
    <3>3. \A i \in 1..n : i # 0
      BY <1>3
    <3> QED
      BY <1>4, <3>1, <3>2, <3>3, Zenon DEF Steps
  <2> QED
    BY <1>4, <2>1
<1>7. partial_execs(d, ts) = CHOOSE h : Run(h)
  BY DEF partial_execs, n, start
<1>8. Run(partial_execs(d, ts))
  BY <1>6, <1>7
<1>9. PICK e : e = partial_execs(d, ts)
  OBVIOUS
<1>10. e[0] = start /\ \A i \in 1..n : e[i] = partial_exec(e[i - 1], ts[i])
  <2>1. 0 \in 0..n /\ \A i \in 1..n : i \in 0..n /\ i # 0
    BY <1>3
  <2> QED
    BY <1>8, <1>9, <2>1
<1> QED
  BY <1>9, <1>10 DEF n, start

\* So does rollback_thunks.
LEMMA RollbackThunks ==
  ASSUME NEW b \in Book, NEW ts \in Seq(Thunk)
  PROVE  /\ rollback_thunks(b, ts)[0] = b
         /\ \A i \in 1..Len(ts) :
              rollback_thunks(b, ts)[i] = undo_thunk(rollback_thunks(b, ts)[i - 1], ts[i])
<1> DEFINE n == Len(ts)
           Run(f) == f = [i \in 0..n |-> IF i = 0 THEN b ELSE undo_thunk(f[i - 1], ts[i])]
<1>1. PICK g : g = [x \in Book \X (1..n) |-> undo_thunk(x[1], ts[x[2]])]
  OBVIOUS
<1>2. g \in [Book \X (1..n) -> Book]
  <2>1. ASSUME NEW x \in Book, NEW i \in 1..n PROVE undo_thunk(x, ts[i]) \in Book
    <3>1. ts[i] \in Thunk
      BY ElementOfSeq
    <3> QED
      BY <3>1, UndoValue
  <2> QED
    BY <1>1, <2>1
<1>3. n \in Nat
  OBVIOUS
<1> HIDE DEF n
<1>4. PICK f : f \in [0..n -> Book] /\ Steps(f, b, n, g)
  BY <1>2, <1>3, Iterated
<1>5. \A i \in 1..n : f[i - 1] \in Book /\ g[<<f[i - 1], i>>] = undo_thunk(f[i - 1], ts[i])
  <2>1. \A i \in 1..n : i - 1 \in 0..n
    BY <1>3
  <2> QED
    BY <1>1, <1>4, <2>1
<1>6. Run(f)
  <2>1. \A i \in 0..n : f[i] = IF i = 0 THEN b ELSE undo_thunk(f[i - 1], ts[i])
    <3>1. \A i \in 0..n : i = 0 \/ i \in 1..n
      BY <1>3
    <3>2. \A i \in 1..n : f[i] = undo_thunk(f[i - 1], ts[i])
      BY <1>4, <1>5, Zenon DEF Steps
    <3>3. \A i \in 1..n : i # 0
      BY <1>3
    <3> QED
      BY <1>4, <3>1, <3>2, <3>3, Zenon DEF Steps
  <2> QED
    BY <1>4, <2>1
<1>7. rollback_thunks(b, ts) = CHOOSE h : Run(h)
  BY DEF rollback_thunks, n
<1>8. Run(rollback_thunks(b, ts))
  BY <1>6, <1>7
<1>9. PICK e : e = rollback_thunks(b, ts)
  OBVIOUS
<1>10. e[0] = b /\ \A i \in 1..n : e[i] = undo_thunk(e[i - 1], ts[i])
  <2>1. 0 \in 0..n /\ \A i \in 1..n : i \in 0..n /\ i # 0
    BY <1>3
  <2> QED
    BY <1>8, <1>9, <2>1
<1> QED
  BY <1>9, <1>10 DEF n

-----------------------------------------------------------------------------
(* One thunk.                                                              *)
Sound(e) == e \in Entry /\ \A k \in Key : e.book[k] # 0 => k \in e.born

LEMMA MetValue ==
  ASSUME NEW e, Sound(e), NEW t \in Thunk, Opened(e, t), NEW k \in Key
  PROVE  /\ e.book[k] \in 0..Amount /\ e.book[k] \in Nat
         /\ Met(e.book, t, k) \in 0..Amount /\ Met(e.book, t, k) \in Nat
         /\ t.deleted_keys[k] \in Nat /\ t.cleared_offers[k] \in Nat
         /\ k \in t.uncommitted_offers_vec =>
              e.book[k] = 0 /\ t.deleted_keys[k] = 0 /\ Met(e.book, t, k) = Amount
         /\ t.deleted_keys[k] # 0 =>
              k \notin t.uncommitted_offers_vec /\ Met(e.book, t, k) = 0
              /\ e.book[k] = t.deleted_keys[k] /\ k \in e.born
         /\ k \notin t.uncommitted_offers_vec /\ t.deleted_keys[k] = 0 => Met(e.book, t, k) = e.book[k]
<1>1. e.book \in Book /\ e.born \subseteq Key
  BY DEF Sound, Entry
<1>2. e.book[k] \in 0..Amount /\ e.book[k] \in Nat
  BY <1>1, BookValues
<1>3. /\ t.deleted_keys \in Book /\ t.cleared_offers \in Book
  BY ThunkFields
<1>4. t.deleted_keys[k] \in Nat /\ t.cleared_offers[k] \in Nat
  BY <1>3, BookValues
<1>5. t.deleted_keys[k] # 0 => t.deleted_keys[k] = e.book[k]
  BY DEF Opened
<1>6. k \in t.uncommitted_offers_vec => k \notin e.born
  BY DEF Opened
<1>7. e.book[k] # 0 => k \in e.born
  BY DEF Sound
<1> QED
  BY <1>2, <1>4, <1>5, <1>6, <1>7, Numbers DEF Met

LEMMA TouchedKeys ==
  ASSUME NEW t \in Thunk, NEW k \in Key
  PROVE  k \in Touched(t) <=> \/ k \in t.uncommitted_offers_vec
                              \/ t.deleted_keys[k] # 0 \/ t.cleared_offers[k] # 0
                              \/ Partial(t) /\ k = t.partial_exec_key
BY DEF Touched, Offers

\* What a thunk does not touch stays, in its block and when it is undone.
LEMMA UntouchedStays ==
  ASSUME NEW e, Sound(e), NEW t \in Thunk, NEW c, Opened(e, t), Closed(e.book, t, c),
         NEW k \in Key, k \notin Touched(t)
  PROVE  c[k] = e.book[k] /\ \A x \in Book : undo_thunk(x, t)[k] = x[k]
<1>1. /\ k \notin t.uncommitted_offers_vec /\ t.deleted_keys[k] = 0 /\ t.cleared_offers[k] = 0
      /\ ~(Partial(t) /\ k = t.partial_exec_key)
  BY TouchedKeys
<1>2. Met(e.book, t, k) = e.book[k]
  BY <1>1, MetValue
<1>3. k < Top /\ t.partial_exec_key \in Nat /\ k \in Nat
  BY Numbers, ThunkFields
<1>4. k # t.partial_exec_key
  BY <1>1, <1>3 DEF Closed
<1>5. /\ t.cleared_offers[k] = IF k < t.partial_exec_key THEN Met(e.book, t, k) ELSE 0
      /\ c[k] = IF k < t.partial_exec_key THEN 0
                ELSE IF k = t.partial_exec_key THEN Met(e.book, t, k) - t.partial_exec_amount
                ELSE Met(e.book, t, k)
  BY DEF Closed
<1>6. c[k] = e.book[k]
  BY <1>1, <1>2, <1>4, <1>5
<1> QED
  BY <1>1, <1>6, UndoValue

\* What it does touch is as before when it is undone, whatever was there.
LEMMA TouchedReturns ==
  ASSUME NEW e, Sound(e), NEW t \in Thunk, NEW c, Opened(e, t), Closed(e.book, t, c),
         ~ExecutesItsOwn(t), NEW k \in Key, k \in Touched(t), NEW x \in Book
  PROVE  undo_thunk(x, t)[k] = e.book[k]
<1>1. undo_thunk(x, t)[k] =
        IF Partial(t) /\ k = t.partial_exec_key THEN t.preexecute
        ELSE IF k \in t.uncommitted_offers_vec THEN 0
        ELSE IF t.cleared_offers[k] # 0 THEN t.cleared_offers[k]
        ELSE IF t.deleted_keys[k] # 0 THEN t.deleted_keys[k] ELSE x[k]
  BY UndoValue
<1>2. \/ k \in t.uncommitted_offers_vec
      \/ t.deleted_keys[k] # 0 \/ t.cleared_offers[k] # 0
      \/ Partial(t) /\ k = t.partial_exec_key
  BY TouchedKeys
<1>3. t.cleared_offers[k] = IF k < t.partial_exec_key THEN Met(e.book, t, k) ELSE 0
  BY DEF Closed
<1>4. CASE Partial(t) /\ k = t.partial_exec_key
  <2>1. t.preexecute = Met(e.book, t, k) /\ Met(e.book, t, k) # 0
    BY <1>4 DEF Closed
  <2>2. k \notin t.uncommitted_offers_vec
    BY <1>4 DEF ExecutesItsOwn
  <2> QED
    BY <1>1, <1>4, <2>1, <2>2, MetValue
<1>5. CASE ~(Partial(t) /\ k = t.partial_exec_key)
  BY <1>1, <1>2, <1>3, <1>5, MetValue
<1> QED
  BY <1>4, <1>5

\* A thunk that is not closed yet: undoing it without its new offers.
LEMMA UnsetReturns ==
  ASSUME NEW e, Sound(e), NEW t \in Thunk, Opened(e, t), Unset(t), NEW k \in Key, NEW x \in Book,
         k \notin t.uncommitted_offers_vec, t.deleted_keys[k] = 0 => x[k] = e.book[k]
  PROVE  undo_thunk(x, t)[k] = e.book[k]
<1>1. ~Partial(t) /\ t.cleared_offers[k] = 0
  BY DEF Unset, Partial, EmptyBook
<1> QED
  BY <1>1, UndoValue, MetValue

-----------------------------------------------------------------------------
(* A log: the thunks ts lead the ledger L from block lo to block hi.       *)
Log(L, ts, lo, hi) ==
  /\ L \in Seq(Entry) /\ lo \in Nat /\ hi \in Nat /\ lo <= hi /\ hi + 1 <= Len(L) /\ Shrinks(L)
  /\ ts \in Seq(Thunk)
  /\ \A i \in 1..Len(ts) : ts[i].block \in (lo + 1)..hi /\ Recorded(L, ts[i])
  /\ \A i, j \in 1..Len(ts) : i < j => ts[i].block < ts[j].block
  /\ Complete(L, ts, lo, hi)

LEMMA LogEntry ==
  ASSUME NEW L \in Seq(Entry), Shrinks(L), NEW i \in 1..Len(L)
  PROVE  /\ Sound(L[i]) /\ L[i].book \in Book /\ L[i].born \subseteq Key
         /\ \A k \in Key : L[i].book[k] \in Nat
<1>1. L[i] \in Entry
  BY ElementOfSeq
<1>2. L[i].book \in Book /\ L[i].born \subseteq Key
  BY <1>1 DEF Entry
<1> QED
  BY <1>1, <1>2, BookValues DEF Sound, Shrinks

LEMMA LogThunk ==
  ASSUME NEW L, NEW ts, NEW lo, NEW hi, Log(L, ts, lo, hi), NEW i \in 1..Len(ts)
  PROVE  /\ ts[i] \in Thunk /\ ts[i].block \in Nat /\ ts[i].block \in (lo + 1)..hi
         /\ ts[i].block \in 1..Len(L) /\ ts[i].block + 1 \in 1..Len(L)
         /\ Sound(L[ts[i].block]) /\ Sound(L[ts[i].block + 1])
         /\ Opened(L[ts[i].block], ts[i])
         /\ Closed(L[ts[i].block].book, ts[i], L[ts[i].block + 1].book)
         /\ ts[i].uncommitted_offers_vec \subseteq L[ts[i].block + 1].born
<1>1. ts[i] \in Thunk
  BY ElementOfSeq DEF Log
<1>2. ts[i].block \in Nat
  BY <1>1, ThunkFields
<1>3. ts[i].block \in (lo + 1)..hi /\ Recorded(L, ts[i]) /\ L \in Seq(Entry) /\ Shrinks(L)
  BY DEF Log
<1>4. ts[i].block \in 1..Len(L) /\ ts[i].block + 1 \in 1..Len(L)
  BY <1>2, <1>3 DEF Log
<1> QED
  BY <1>1, <1>2, <1>3, <1>4, LogEntry DEF Recorded

\* Undoing the thunks, the oldest first, if no two of them touch one key.
Undoable(ts) ==
  /\ \A i \in 1..Len(ts) : ~ExecutesItsOwn(ts[i])
  /\ \A i, j \in 1..Len(ts) : i # j => Touched(ts[i]) \cap Touched(ts[j]) = {}
LEMMA Rewound ==
  ASSUME NEW L, NEW ts, NEW lo, NEW hi, Log(L, ts, lo, hi), Undoable(ts)
  PROVE  rollback_thunks(L[hi + 1].book, ts)[Len(ts)] = L[lo + 1].book
<1>1. PICK u : u = rollback_thunks(L[hi + 1].book, ts)
  OBVIOUS
<1>2. PICK n \in Nat : n = Len(ts)
  BY DEF Log
<1>3. /\ L \in Seq(Entry) /\ Shrinks(L) /\ lo + 1 \in 1..Len(L) /\ hi + 1 \in 1..Len(L)
      /\ lo \in Nat /\ hi \in Nat /\ lo <= hi /\ ts \in Seq(Thunk)
  BY DEF Log
<1>4. PICK old \in Book : old = L[lo + 1].book
  BY <1>3, LogEntry
<1>5. PICK new \in Book : new = L[hi + 1].book
  BY <1>3, LogEntry
<1>6. u[0] = new /\ \A i \in 1..n : u[i] = undo_thunk(u[i - 1], ts[i])
  BY <1>1, <1>2, <1>3, <1>5, RollbackThunks
<1> DEFINE Undone(i, k) == \E j \in 1..i : k \in Touched(ts[j])
           Good(i) == /\ u[i] \in Book
                      /\ \A k \in Key : u[i][k] = IF Undone(i, k) THEN old[k] ELSE new[k]
<1>7. Good(0)
  BY <1>6
<1>8. ASSUME NEW i \in 1..n, Good(i - 1) PROVE Good(i)
  <2>1. PICK b : b = ts[i].block
    OBVIOUS
  <2>2. /\ i \in 1..Len(ts) /\ ts[i] \in Thunk /\ b \in Nat /\ b \in (lo + 1)..hi
        /\ Sound(L[b]) /\ Opened(L[b], ts[i]) /\ Closed(L[b].book, ts[i], L[b + 1].book)
    BY <1>2, <2>1, LogThunk
  <2>3. u[i - 1] \in Book /\ u[i] = undo_thunk(u[i - 1], ts[i])
    BY <1>6, <1>8
  <2>7. PICK t \in Thunk, x \in Book : t = ts[i] /\ x = u[i - 1]
    BY <2>2, <2>3
  <2>8. PICK e, c : e = L[b] /\ c = L[b + 1].book
    OBVIOUS
  <2>9. Sound(e) /\ Opened(e, t) /\ Closed(e.book, t, c) /\ ~ExecutesItsOwn(t)
    BY <2>2, <2>7, <2>8 DEF Undoable
  <2>4. u[i] \in Book
    BY <2>2, <2>3, UndoValue
  <2>5. ASSUME NEW k \in Key, k \in Touched(ts[i]) PROVE u[i][k] = old[k] /\ Undone(i, k)
    <3>1. u[i][k] = L[b].book[k]
      <4>2. k \in Touched(t)
        BY <2>5, <2>7
      <4>1. undo_thunk(x, t)[k] = e.book[k]
        BY <2>9, <4>2, TouchedReturns
      <4> QED
        BY <2>3, <2>7, <2>8, <4>1
    <3>2. Untouched(ts, k, lo, b - 1)
      <4>1. \A j \in 1..Len(ts) : ts[j].block \in (lo + 1)..(b - 1) => j # i
        BY <1>3, <2>1, <2>2
      <4> QED
        BY <2>2, <2>5, <4>1 DEF Untouched, Undoable
    <3>3. lo \in lo..hi /\ b - 1 \in lo..hi /\ lo <= b - 1 /\ (b - 1) + 1 = b
      BY <1>3, <2>2
    <3>4. L[lo + 1].book[k] = L[(b - 1) + 1].book[k]
      BY <3>2, <3>3 DEF Log, Complete
    <3> QED
      BY <1>4, <2>5, <3>1, <3>3, <3>4
  <2>6. ASSUME NEW k \in Key, k \notin Touched(ts[i])
        PROVE  u[i][k] = u[i - 1][k] /\ (Undone(i, k) <=> Undone(i - 1, k))
    <3>1. u[i][k] = u[i - 1][k]
      <4>1. undo_thunk(x, t)[k] = x[k]
        BY <2>6, <2>7, <2>9, UntouchedStays
      <4> QED
        BY <2>3, <2>7, <4>1
    <3>2. \A j \in 1..i : j = i \/ j \in 1..(i - 1)
      OBVIOUS
    <3>3. \A j \in 1..(i - 1) : j \in 1..i
      OBVIOUS
    <3> QED
      BY <2>6, <3>1, <3>2, <3>3
  <2> QED
    BY <1>8, <2>4, <2>5, <2>6
<1>9. Good(n)
  <2> DEFINE G == {i \in 0..n : Good(i)}
  <2>1. 0 \in G
    BY <1>7
  <2>2. \A i \in 1..n : i - 1 \in G => i \in G
    BY <1>8
  <2> HIDE DEF G
  <2>3. \A i \in 0..n : i \in G
    BY <2>1, <2>2, Reached
  <2> QED
    BY <2>3 DEF G
<1>10. ASSUME NEW k \in Key PROVE u[n][k] = old[k]
  <2>1. CASE Undone(n, k)
    BY <1>9, <2>1
  <2>2. CASE ~Undone(n, k)
    <3>1. Untouched(ts, k, lo, hi)
      BY <1>2, <2>2 DEF Untouched
    <3>2. lo \in lo..hi /\ hi \in lo..hi
      BY <1>3
    <3>3. L[lo + 1].book[k] = L[hi + 1].book[k]
      BY <1>3, <3>1, <3>2 DEF Log, Complete
    <3> QED
      BY <1>4, <1>5, <1>9, <2>2, <3>3
  <2> QED
    BY <2>1, <2>2
<1>11. u[n] = old
  BY <1>9, <1>10 DEF Book
<1> QED
  BY <1>1, <1>2, <1>4, <1>11

-----------------------------------------------------------------------------
(* write_thunks.                                                           *)

\* The greatest keys.
LEMMA RollingKeys ==
  ASSUME NEW ts \in Seq(Thunk), NEW i \in 1..Len(ts)
  PROVE  /\ RollingKey(ts, i) \in Nat
         /\ \A j \in i..Len(ts) : ts[j].partial_exec_key <= RollingKey(ts, i)
         /\ \E j \in i..Len(ts) : ts[j].partial_exec_key = RollingKey(ts, i)
<1> DEFINE S == {ts[j].partial_exec_key : j \in i..Len(ts)}
<1>1. \A j \in i..Len(ts) : ts[j].partial_exec_key \in 0..Top
  <2>1. \A j \in i..Len(ts) : j \in 1..Len(ts)
    OBVIOUS
  <2>2. \A j \in 1..Len(ts) : ts[j] \in Thunk
    BY ElementOfSeq
  <2>3. \A t \in Thunk : t.partial_exec_key \in 0..Top
    BY ThunkFields, Numbers
  <2> QED
    BY <2>1, <2>2, <2>3
<1>2. S \in SUBSET (0..Top) /\ ts[i].partial_exec_key \in S
  <2>1. i \in i..Len(ts)
    OBVIOUS
  <2> QED
    BY <1>1, <2>1
<1>3. Max(S) \in S /\ (\A x \in S : x <= Max(S))
  BY <1>2, GreatestElement, Numbers
<1>4. RollingKey(ts, i) = Max(S)
  BY DEF RollingKey
<1>5. PICK j \in i..Len(ts) : ts[j].partial_exec_key = Max(S)
  BY <1>3
<1>6. Max(S) \in Nat
  BY <1>2, <1>3
<1>7. \A x \in i..Len(ts) : ts[x].partial_exec_key \in S
  OBVIOUS
<1> QED
  BY <1>3, <1>4, <1>5, <1>6, <1>7

LEMMA MaxPartials ==
  ASSUME NEW ts \in Seq(Thunk), SomePartial(ts)
  PROVE  /\ MaxPartial(ts) \in Nat
         /\ \A j \in 1..Len(ts) : Partial(ts[j]) => ts[j].partial_exec_key <= MaxPartial(ts)
         /\ \E j \in 1..Len(ts) : Partial(ts[j]) /\ ts[j].partial_exec_key = MaxPartial(ts)
<1> DEFINE P == {j \in DOMAIN ts : Partial(ts[j])}
           S == {ts[j].partial_exec_key : j \in P}
<1>1. DOMAIN ts = 1..Len(ts)
  OBVIOUS
<1>2. \A j \in P : ts[j].partial_exec_key \in 0..Top
  <2>1. \A j \in P : ts[j] \in Thunk
    BY <1>1, ElementOfSeq
  <2> QED
    BY <2>1, ThunkFields, Numbers
<1>3. P # {}
  BY DEF SomePartial
<1>4. S \in SUBSET (0..Top) /\ S # {}
  BY <1>2, <1>3
<1>5. Max(S) \in S /\ (\A x \in S : x <= Max(S))
  BY <1>4, GreatestElement, Numbers
<1>6. MaxPartial(ts) = Max(S)
  BY DEF MaxPartial
<1>7. PICK j \in P : ts[j].partial_exec_key = Max(S)
  BY <1>5
<1>8. Max(S) \in Nat
  BY <1>4, <1>5
<1>9. j \in 1..Len(ts) /\ Partial(ts[j])
  BY <1>1
<1>10. \A x \in 1..Len(ts) : Partial(ts[x]) => ts[x].partial_exec_key \in S
  BY <1>1
<1> QED
  BY <1>5, <1>6, <1>7, <1>8, <1>9, <1>10

\* Later in the ledger.
LEMMA LaterValue ==
  ASSUME NEW L, NEW ts, NEW lo, NEW hi, Log(L, ts, lo, hi), NEW k \in Key,
         NEW m \in 1..Len(L), m <= hi + 1, k \in L[m].born, L[m].book[k] = 0
  PROVE  L[hi + 1].book[k] = 0
<1>1. hi + 1 \in 1..Len(L) /\ L \in Seq(Entry) /\ Shrinks(L)
  BY DEF Log
<1>2. L[hi + 1].book[k] <= L[m].book[k]
  BY <1>1 DEF Shrinks
<1>3. L[hi + 1].book[k] \in Nat
  BY <1>1, LogEntry
<1> QED
  BY <1>2, <1>3

\* An offer that is cleared is gone for good.
LEMMA ClearedGone ==
  ASSUME NEW L, NEW ts, NEW lo, NEW hi, Log(L, ts, lo, hi), NEW k \in Key,
         NEW j \in 1..Len(ts), k < ts[j].partial_exec_key, k \in L[ts[j].block + 1].born
  PROVE  L[hi + 1].book[k] = 0
<1>1. PICK m : m = ts[j].block + 1
  OBVIOUS
<1>2. /\ ts[j].block \in Nat /\ ts[j].block \in (lo + 1)..hi /\ ts[j].block + 1 \in 1..Len(L)
      /\ Closed(L[ts[j].block].book, ts[j], L[ts[j].block + 1].book)
  BY LogThunk
<1>3. L[ts[j].block + 1].book[k] = 0
  BY <1>2 DEF Closed
<1>4. m \in 1..Len(L) /\ m <= hi + 1 /\ k \in L[m].born /\ L[m].book[k] = 0
  BY <1>1, <1>2, <1>3 DEF Log
<1> QED
  BY <1>4, LaterValue

\* So is one that is cancelled.
LEMMA DeletedGone ==
  ASSUME NEW L, NEW ts, NEW lo, NEW hi, Log(L, ts, lo, hi), NEW k \in Key,
         NEW j \in 1..Len(ts), ts[j].deleted_keys[k] # 0
  PROVE  L[hi + 1].book[k] = 0 /\ k \in L[ts[j].block].born
<1>1. PICK m : m = ts[j].block
  OBVIOUS
<1>2. /\ ts[j] \in Thunk /\ m \in Nat /\ m \in (lo + 1)..hi /\ m + 1 \in 1..Len(L) /\ m \in 1..Len(L)
      /\ Sound(L[m]) /\ Opened(L[m], ts[j]) /\ Closed(L[m].book, ts[j], L[m + 1].book)
  BY <1>1, LogThunk
<1>3. Met(L[m].book, ts[j], k) = 0 /\ k \in L[m].born
  BY <1>2, MetValue
<1>4. L[m + 1].book[k] = 0
  <2>1. /\ L[m + 1].book[k] = IF k < ts[j].partial_exec_key THEN 0
                              ELSE IF k = ts[j].partial_exec_key
                              THEN Met(L[m].book, ts[j], k) - ts[j].partial_exec_amount
                              ELSE Met(L[m].book, ts[j], k)
        /\ Partial(ts[j]) => Met(L[m].book, ts[j], ts[j].partial_exec_key) # 0
        /\ ~Partial(ts[j]) => ts[j].partial_exec_key = Top
    BY <1>2 DEF Closed
  <2>2. k # ts[j].partial_exec_key
    BY <1>3, <2>1, Numbers
  <2> QED
    BY <1>3, <2>1, <2>2
<1>5. k \in L[m + 1].born
  <2>1. m <= m + 1 /\ Shrinks(L)
    BY <1>2 DEF Log
  <2> QED
    BY <1>2, <1>3, <2>1 DEF Shrinks
<1>6. m + 1 <= hi + 1
  BY <1>2 DEF Log
<1> QED
  BY <1>1, <1>2, <1>3, <1>4, <1>5, <1>6, LaterValue

\* An offer that executes partially is there, or new.
LEMMA PartialThere ==
  ASSUME NEW L, NEW ts, NEW lo, NEW hi, Log(L, ts, lo, hi), NEW k \in Key,
         NEW j \in 1..Len(ts), Partial(ts[j]), k = ts[j].partial_exec_key
  PROVE  /\ k \in L[ts[j].block + 1].born
         /\ k \in ts[j].uncommitted_offers_vec \/ k \in L[ts[j].block].born
<1>1. PICK m : m = ts[j].block
  OBVIOUS
<1>2. /\ ts[j] \in Thunk /\ m \in Nat /\ m \in 1..Len(L) /\ m + 1 \in 1..Len(L)
      /\ Sound(L[m]) /\ Opened(L[m], ts[j]) /\ Closed(L[m].book, ts[j], L[m + 1].book)
      /\ ts[j].uncommitted_offers_vec \subseteq L[m + 1].born
  BY <1>1, LogThunk
<1>3. Met(L[m].book, ts[j], k) # 0
  BY <1>2 DEF Closed
<1>4. k \in ts[j].uncommitted_offers_vec \/ L[m].book[k] # 0
  BY <1>2, <1>3, MetValue
<1>5. L[m].book[k] # 0 => k \in L[m].born
  BY <1>2 DEF Sound
<1>6. k \in L[m].born => k \in L[m + 1].born
  <2>1. m <= m + 1 /\ Shrinks(L)
    BY <1>2 DEF Log
  <2> QED
    BY <1>2, <2>1 DEF Shrinks
<1> QED
  BY <1>1, <1>2, <1>4, <1>5, <1>6

\* Between two thunks the ledger stays.  The block of the i-th thunk, 0 for
\* the beginning.
BlockAt(ts, lo, i) == IF i = 0 THEN lo ELSE ts[i].block
LEMMA Between ==
  ASSUME NEW L, NEW ts, NEW lo, NEW hi, Log(L, ts, lo, hi), NEW k \in Key, NEW i \in 0..Len(ts),
         NEW m, m = IF i = Len(ts) THEN hi ELSE ts[i + 1].block - 1
  PROVE  /\ BlockAt(ts, lo, i) \in lo..hi /\ m \in lo..hi
         /\ L[BlockAt(ts, lo, i) + 1].book[k] = L[m + 1].book[k]
<1>1. lo \in Nat /\ hi \in Nat /\ lo <= hi /\ Len(ts) \in Nat
  BY DEF Log
<1>2. \A j \in 1..Len(ts) : ts[j].block \in Nat /\ ts[j].block \in (lo + 1)..hi
  BY LogThunk
<1>3. \A x, y \in 1..Len(ts) : x < y => ts[x].block < ts[y].block
  BY DEF Log
<1>4. PICK b : b = BlockAt(ts, lo, i)
  OBVIOUS
<1>5. b \in lo..hi /\ b \in Nat
  <2>1. i # 0 => i \in 1..Len(ts)
    OBVIOUS
  <2> QED
    BY <1>1, <1>2, <1>4, <2>1 DEF BlockAt
<1>6. m \in lo..hi /\ m \in Nat /\ b <= m
  <2>1. CASE i = Len(ts)
    BY <1>1, <1>5, <2>1
  <2>2. CASE i # Len(ts)
    <3>1. i + 1 \in 1..Len(ts) /\ m = ts[i + 1].block - 1
      BY <1>1, <2>2
    <3>2. i # 0 => i \in 1..Len(ts) /\ i < i + 1
      BY <1>1
    <3>3. b < ts[i + 1].block
      BY <1>1, <1>2, <1>3, <1>4, <3>1, <3>2 DEF BlockAt
    <3> QED
      BY <1>1, <1>2, <1>5, <3>1, <3>3
  <2> QED
    BY <2>1, <2>2
<1>7. Untouched(ts, k, b, m)
  <2>1. ASSUME NEW j \in 1..Len(ts), ts[j].block \in (b + 1)..m PROVE FALSE
    <3>1. ts[j].block \in Nat /\ b < ts[j].block /\ ts[j].block <= m
      BY <1>2, <1>5, <1>6, <2>1
    <3>2. CASE j <= i
      <4>1. i # 0 /\ i \in 1..Len(ts)
        BY <1>1, <3>2
      <4>2. b = ts[i].block
        BY <1>4, <4>1 DEF BlockAt
      <4>3. j = i \/ ts[j].block < ts[i].block
        BY <1>1, <1>3, <3>2, <4>1
      <4> QED
        BY <1>5, <3>1, <4>2, <4>3
    <3>3. CASE ~(j <= i)
      <4>1. i # Len(ts) /\ i + 1 \in 1..Len(ts)
        BY <1>1, <3>3
      <4>2. j = i + 1 \/ ts[i + 1].block < ts[j].block
        BY <1>1, <1>3, <3>3, <4>1
      <4>3. m = ts[i + 1].block - 1 /\ ts[i + 1].block \in Nat
        BY <1>2, <4>1
      <4> QED
        BY <1>6, <3>1, <4>2, <4>3
    <3> QED
      BY <3>2, <3>3
  <2> QED
    BY <2>1 DEF Untouched
<1>8. L[b + 1].book[k] = L[m + 1].book[k]
  BY <1>5, <1>6, <1>7 DEF Log, Complete
<1> QED
  BY <1>4, <1>5, <1>6, <1>8

\* An offer that appears is a new one of some thunk.
LEMMA OfferAppears ==
  ASSUME NEW L, NEW ts, NEW lo, NEW hi, Log(L, ts, lo, hi), NEW k \in Key,
         L[lo + 1].book[k] = 0, L[hi + 1].book[k] # 0
  PROVE  \E i \in 1..Len(ts) : k \in ts[i].uncommitted_offers_vec
<1> DEFINE X == {m \in lo..hi : L[m + 1].book[k] # 0}
<1>1. lo \in Nat /\ hi \in Nat /\ lo <= hi
  BY DEF Log
<1>2. lo \notin X /\ hi \in X
  BY <1>1
<1>3. PICK m \in (lo + 1)..hi : m \in X /\ m - 1 \notin X
  <2> HIDE DEF X
  <2> QED
    BY <1>1, <1>2, FirstInside
<1>4. /\ m \in Nat /\ m \in lo..hi /\ m - 1 \in lo..hi /\ (m - 1) + 1 = m /\ m - 1 <= m
  BY <1>1
<1>5. L[m + 1].book[k] # 0 /\ L[m].book[k] = 0
  <2>1. L[m + 1].book[k] # 0
    BY <1>3
  <2>2. ~(L[(m - 1) + 1].book[k] # 0)
    BY <1>3, <1>4
  <2> QED
    BY <1>4, <2>1, <2>2
<1>6. ~Untouched(ts, k, m - 1, m)
  <2>1. Untouched(ts, k, m - 1, m) => L[(m - 1) + 1].book[k] = L[m + 1].book[k]
    BY <1>4 DEF Log, Complete
  <2> QED
    BY <1>4, <1>5, <2>1
<1>7. PICK i \in 1..Len(ts) : ts[i].block \in ((m - 1) + 1)..m
  BY <1>6 DEF Untouched
<1>8. ts[i].block = m
  BY <1>4, <1>7
<1>9. /\ ts[i] \in Thunk /\ Sound(L[m]) /\ Opened(L[m], ts[i])
      /\ Closed(L[m].book, ts[i], L[m + 1].book)
  BY <1>8, LogThunk
<1>10. /\ L[m + 1].book[k] = IF k < ts[i].partial_exec_key THEN 0
                             ELSE IF k = ts[i].partial_exec_key
                             THEN Met(L[m].book, ts[i], k) - ts[i].partial_exec_amount
                             ELSE Met(L[m].book, ts[i], k)
       /\ Partial(ts[i]) => Met(L[m].book, ts[i], ts[i].partial_exec_key) # 0
       /\ ~Partial(ts[i]) => ts[i].partial_exec_key = Top
  BY <1>9 DEF Closed
<1>11. Met(L[m].book, ts[i], k) # 0
  BY <1>5, <1>10, Numbers
<1>12. k \in ts[i].uncommitted_offers_vec
  BY <1>5, <1>9, <1>11, MetValue
<1> QED
  BY <1>12

\* Phase 3, key by key.
Dropped(ts, k) ==
  k \in AllDeleted(ts) \/ (SomePartial(ts) => k < MaxPartial(ts))
LEMMA Phase3Values ==
  ASSUME NEW d \in Book, NEW ts \in Seq(Thunk)
  PROVE  /\ phase3(d, ts) \in Book /\ phase3(d, ts) \in IntBook
         /\ \A k \in Key : phase3(d, ts)[k] =
              IF \E i \in 1..Len(ts) : k \in Written(d, ts, i) THEN Amount
              ELSE IF Dropped(ts, k) THEN 0 ELSE d[k]
<1>1. PICK W : W = UNION {Written(d, ts, i) : i \in DOMAIN ts}
  OBVIOUS
<1>2. PICK G : G = AllDeleted(ts) \cup (IF SomePartial(ts) THEN Below(MaxPartial(ts)) ELSE Key)
  OBVIOUS
<1>3. phase3(d, ts) = merge_in(Without(d, G), Fresh(W))
  BY <1>1, <1>2 DEF phase3, phase2
<1>4. \A k \in Key : k \in W <=> \E i \in 1..Len(ts) : k \in Written(d, ts, i)
  BY <1>1
<1>5. \A k \in Key : k \in G <=> Dropped(ts, k)
  BY <1>2 DEF Dropped, Below
<1>6. phase3(d, ts) = [k \in Key |-> IF k \in W THEN Amount ELSE IF k \in G THEN 0 ELSE d[k]]
  <2>1. \A k \in Key : k \in Key \ G <=> k \notin G
    OBVIOUS
  <2> QED
    BY <1>3, <2>1, Numbers DEF merge_in, Without, Only, Fresh
<1>7. phase3(d, ts) \in Book
  BY <1>6, Numbers DEF Book
<1>8. phase3(d, ts) \in IntBook
  BY <1>7, Numbers DEF Book, IntBook
<1>9. \A k \in Key : phase3(d, ts)[k] = IF k \in W THEN Amount ELSE IF k \in G THEN 0 ELSE d[k]
  BY <1>6
<1> QED
  BY <1>4, <1>5, <1>7, <1>8, <1>9

\* Phase 4, key by key.
LEMMA ExecValues ==
  ASSUME NEW d \in Book, NEW ts \in Seq(Thunk)
  PROVE  /\ partial_execs(d, ts)[0] = phase3(d, ts)
         /\ \A i \in 0..Len(ts) : partial_execs(d, ts)[i] \in IntBook
         /\ \A i \in 1..Len(ts), k \in Key :
              partial_execs(d, ts)[i][k] =
                IF Partial(ts[i]) /\ k = ts[i].partial_exec_key /\ partial_execs(d, ts)[i - 1][k] # 0
                THEN partial_execs(d, ts)[i - 1][k] - ts[i].partial_exec_amount
                ELSE partial_execs(d, ts)[i - 1][k]
<1>1. PICK x : x = partial_execs(d, ts)
  OBVIOUS
<1>2. PICK n \in Nat : n = Len(ts)
  OBVIOUS
<1>3. x[0] = phase3(d, ts) /\ \A i \in 1..n : x[i] = partial_exec(x[i - 1], ts[i])
  BY <1>1, <1>2, Phase3Values, PartialExecs
<1>4. ASSUME NEW i \in 1..n, x[i - 1] \in IntBook
      PROVE  /\ x[i] \in IntBook
             /\ \A k \in Key : x[i][k] = IF Partial(ts[i]) /\ k = ts[i].partial_exec_key /\ x[i - 1][k] # 0
                                         THEN x[i - 1][k] - ts[i].partial_exec_amount ELSE x[i - 1][k]
  <2>1. PICK t \in Thunk : t = ts[i]
    BY <1>2, ElementOfSeq
  <2>2. PICK b \in IntBook : b = x[i - 1]
    BY <1>4
  <2>3. t.partial_exec_amount \in Nat
    BY ThunkFields
  <2>4. x[i] = partial_exec(b, t)
    BY <1>3, <2>1, <2>2
  <2>5. /\ partial_exec(b, t) \in IntBook
        /\ \A k \in Key : partial_exec(b, t)[k] =
             IF Partial(t) /\ k = t.partial_exec_key /\ b[k] # 0 THEN b[k] - t.partial_exec_amount ELSE b[k]
    BY <2>3 DEF partial_exec, Sell, IntBook
  <2> QED
    BY <2>1, <2>2, <2>4, <2>5
<1>5. \A i \in 0..n : x[i] \in IntBook
  <2> DEFINE G == {i \in 0..n : x[i] \in IntBook}
  <2>1. 0 \in G
    BY <1>3, Phase3Values
  <2>2. \A i \in 1..n : i - 1 \in G => i \in G
    BY <1>4
  <2> HIDE DEF G
  <2>3. \A i \in 0..n : i \in G
    BY <2>1, <2>2, Reached
  <2> QED
    BY <2>3 DEF G
<1>6. \A i \in 1..n, k \in Key : x[i][k] = IF Partial(ts[i]) /\ k = ts[i].partial_exec_key /\ x[i - 1][k] # 0
                                           THEN x[i - 1][k] - ts[i].partial_exec_amount ELSE x[i - 1][k]
  <2>1. \A i \in 1..n : i - 1 \in 0..n
    OBVIOUS
  <2> QED
    BY <1>4, <1>5, <2>1
<1> QED
  BY <1>1, <1>2, <1>3, <1>5, <1>6

\* Nothing there, nothing executed.
LEMMA TraceZero ==
  ASSUME NEW d \in Book, NEW ts \in Seq(Thunk), NEW k \in Key, phase3(d, ts)[k] = 0
  PROVE  phase4(d, ts)[k] = 0
<1>1. PICK x : x = partial_execs(d, ts)
  OBVIOUS
<1>2. PICK n \in Nat : n = Len(ts)
  OBVIOUS
<1>3. x[0][k] = 0
  BY <1>1, ExecValues
<1>4. \A i \in 1..n : x[i - 1][k] = 0 => x[i][k] = 0
  BY <1>1, <1>2, ExecValues
<1>5. x[n][k] = 0
  <2> DEFINE G == {i \in 0..n : x[i][k] = 0}
  <2>1. 0 \in G
    BY <1>3
  <2>2. \A i \in 1..n : i - 1 \in G => i \in G
    BY <1>4
  <2> HIDE DEF G
  <2>3. \A i \in 0..n : i \in G
    BY <2>1, <2>2, Reached
  <2> QED
    BY <2>3 DEF G
<1> QED
  BY <1>1, <1>2, <1>5 DEF phase4

\* How one thunk changes the ledger.
LEMMA ThunkStep ==
  ASSUME NEW L, NEW ts, NEW lo, NEW hi, Log(L, ts, lo, hi), NEW k \in Key, NEW i \in 1..Len(ts),
         NEW m, m = Met(L[BlockAt(ts, lo, i - 1) + 1].book, ts[i], k)
  PROVE  /\ m \in Nat
         /\ L[BlockAt(ts, lo, i) + 1].book[k] =
              IF k < ts[i].partial_exec_key THEN 0
              ELSE IF k = ts[i].partial_exec_key THEN m - ts[i].partial_exec_amount ELSE m
         /\ ts[i].cleared_offers[k] = IF k < ts[i].partial_exec_key THEN m ELSE 0
         /\ Partial(ts[i]) /\ k = ts[i].partial_exec_key => m # 0
         /\ ~Partial(ts[i]) => k < ts[i].partial_exec_key
<1>1. PICK b : b = ts[i].block
  OBVIOUS
<1>2. /\ ts[i] \in Thunk /\ b \in Nat /\ Sound(L[b]) /\ Opened(L[b], ts[i])
      /\ Closed(L[b].book, ts[i], L[b + 1].book)
  BY <1>1, LogThunk
<1>3. L[BlockAt(ts, lo, i - 1) + 1].book[k] = L[b].book[k]
  <2>1. i - 1 \in 0..Len(ts) /\ i - 1 # Len(ts) /\ (i - 1) + 1 = i /\ (b - 1) + 1 = b
    BY <1>2
  <2>2. L[BlockAt(ts, lo, i - 1) + 1].book[k] = L[(b - 1) + 1].book[k]
    BY <1>1, <2>1, Between
  <2> QED
    BY <2>1, <2>2
<1>4. m = Met(L[b].book, ts[i], k)
  BY <1>3 DEF Met
<1>5. m \in Nat
  BY <1>2, <1>4, MetValue
<1>6. BlockAt(ts, lo, i) = b
  BY <1>1 DEF BlockAt
<1>7. k < Top
  BY Numbers
<1>8. PICK t \in Thunk : t = ts[i]
  BY <1>2
<1>9. PICK e, c : e = L[b].book /\ c = L[b + 1].book
  OBVIOUS
<1>10. /\ Partial(t) => t.preexecute = Met(e, t, t.partial_exec_key) /\ t.preexecute # 0
       /\ ~Partial(t) => t.partial_exec_key = Top
       /\ t.cleared_offers[k] = IF k < t.partial_exec_key THEN Met(e, t, k) ELSE 0
       /\ c[k] = IF k < t.partial_exec_key THEN 0
                 ELSE IF k = t.partial_exec_key THEN Met(e, t, k) - t.partial_exec_amount
                 ELSE Met(e, t, k)
  <2>1. Closed(e, t, c)
    BY <1>2, <1>8, <1>9
  <2> QED
    BY <2>1 DEF Closed
<1> QED
  BY <1>4, <1>5, <1>6, <1>7, <1>8, <1>9, <1>10

\* From thunk s on, the executions of an offer that no later thunk cancels or
\* clears follow the ledger.
LEMMA TraceFrom ==
  ASSUME NEW L, NEW ts, NEW lo, NEW hi, Log(L, ts, lo, hi), NEW d \in Book, NEW k \in Key,
         NEW s \in 0..Len(ts),
         partial_execs(d, ts)[s][k] = L[BlockAt(ts, lo, s) + 1].book[k],
         \A i \in (s + 1)..Len(ts) :
           /\ k \notin ts[i].uncommitted_offers_vec /\ ts[i].deleted_keys[k] = 0
           /\ Partial(ts[i]) => ts[i].partial_exec_key <= k
           /\ ~Partial(ts[i]) => ts[i].cleared_offers[k] = 0
  PROVE  phase4(d, ts)[k] = L[hi + 1].book[k]
<1>1. PICK x : x = partial_execs(d, ts)
  OBVIOUS
<1>2. PICK n \in Nat : n = Len(ts)
  BY DEF Log
<1>3. ts \in Seq(Thunk)
  BY DEF Log
<1> DEFINE E(i) == L[BlockAt(ts, lo, i) + 1].book[k]
<1>4. ASSUME NEW i \in (s + 1)..n, x[i - 1][k] = E(i - 1) PROVE x[i][k] = E(i)
  <2>1. i \in 1..n /\ ts[i] \in Thunk /\ i \in 1..Len(ts)
    BY <1>2, <1>3, ElementOfSeq
  <2>2. PICK m : m = Met(L[BlockAt(ts, lo, i - 1) + 1].book, ts[i], k)
    OBVIOUS
  <2>3. m = E(i - 1)
    BY <1>2, <2>2 DEF Met
  <2>4. /\ m \in Nat
        /\ E(i) = IF k < ts[i].partial_exec_key THEN 0
                  ELSE IF k = ts[i].partial_exec_key THEN m - ts[i].partial_exec_amount ELSE m
        /\ ts[i].cleared_offers[k] = IF k < ts[i].partial_exec_key THEN m ELSE 0
        /\ Partial(ts[i]) /\ k = ts[i].partial_exec_key => m # 0
        /\ ~Partial(ts[i]) => k < ts[i].partial_exec_key
    BY <2>1, <2>2, ThunkStep
  <2>5. x[i][k] = IF Partial(ts[i]) /\ k = ts[i].partial_exec_key /\ x[i - 1][k] # 0
                  THEN x[i - 1][k] - ts[i].partial_exec_amount ELSE x[i - 1][k]
    BY <1>1, <1>3, <2>1, ExecValues
  <2>6. ts[i].partial_exec_key \in Nat /\ k \in Nat
    BY <2>1, ThunkFields, Numbers
  <2>7. (Partial(ts[i]) => ts[i].partial_exec_key <= k) /\ (~Partial(ts[i]) => ts[i].cleared_offers[k] = 0)
    BY <1>2
  <2> HIDE DEF E
  <2> QED
    BY <1>4, <2>3, <2>4, <2>5, <2>6, <2>7
<1>5. x[n][k] = E(n)
  <2> DEFINE G == {i \in 0..n : i < s \/ x[i][k] = E(i)}
  <2>1. x[s][k] = E(s)
    BY <1>1
  <2> HIDE DEF E
  <2>2. 0 \in G
    BY <1>2, <2>1
  <2>3. ASSUME NEW i \in 1..n, i - 1 \in G PROVE i \in G
    <3>1. CASE i < s
      BY <3>1
    <3>2. CASE i = s
      BY <2>1, <3>2
    <3>3. CASE i > s
      <4>1. i \in (s + 1)..n /\ x[i - 1][k] = E(i - 1)
        BY <1>2, <2>3, <3>3
      <4> QED
        BY <1>4, <4>1
    <3> QED
      BY <1>2, <3>1, <3>2, <3>3
  <2> HIDE DEF G
  <2>4. \A i \in 0..n : i \in G
    BY <2>2, <2>3, Reached
  <2>5. n \in G
    BY <2>4
  <2> QED
    BY <1>2, <2>5 DEF G
<1>6. E(n) = L[hi + 1].book[k]
  <2>1. PICK m : m = IF n = Len(ts) THEN hi ELSE ts[n + 1].block - 1
    OBVIOUS
  <2>2. n \in 0..Len(ts) /\ m = hi
    BY <1>2, <2>1
  <2>3. L[BlockAt(ts, lo, n) + 1].book[k] = L[m + 1].book[k]
    BY <2>1, <2>2, Between
  <2> QED
    BY <2>2, <2>3
<1> QED
  BY <1>1, <1>2, <1>5, <1>6 DEF phase4

\* A batch that write_thunks gets right.
Batch(L, ts, lo, hi) ==
  /\ Log(L, ts, lo, hi) /\ ts # <<>> /\ LowestDeleted(ts)
  /\ SomePartial(ts) =>
       \A i \in 1..Len(ts), k \in Key :
         ~Partial(ts[i]) /\ L[lo + 1].book[k] # 0 => ts[i].cleared_offers[k] = 0

LEMMA BornLater ==
  ASSUME NEW L, NEW ts, NEW lo, NEW hi, Log(L, ts, lo, hi), NEW k \in Key, NEW i \in 1..Len(ts)
  PROVE  /\ k \in L[lo + 1].born => k \in L[ts[i].block].born /\ k \in L[ts[i].block + 1].born
         /\ \A j \in i..Len(ts) : k \in L[ts[i].block + 1].born => k \in L[ts[j].block + 1].born
         /\ \A j \in (i + 1)..Len(ts) : k \in L[ts[i].block + 1].born => k \in L[ts[j].block].born
<1>1. /\ lo \in Nat /\ hi \in Nat /\ Len(L) \in Nat /\ lo + 1 \in 1..Len(L)
      /\ Len(ts) \in Nat
      /\ \A a, b \in 1..Len(L) : a <= b /\ k \in L[a].born => k \in L[b].born
      /\ \A x, y \in 1..Len(ts) : x < y => ts[x].block < ts[y].block
  BY DEF Log, Shrinks
<1>2. \A j \in 1..Len(ts) : /\ ts[j].block \in Nat /\ ts[j].block \in (lo + 1)..hi
                            /\ ts[j].block \in 1..Len(L) /\ ts[j].block + 1 \in 1..Len(L)
  BY LogThunk
<1>3. \A j \in 1..Len(ts) : lo + 1 <= ts[j].block /\ lo + 1 <= ts[j].block + 1
  BY <1>1, <1>2
<1>4. ASSUME NEW j \in i..Len(ts) PROVE j \in 1..Len(ts) /\ ts[i].block + 1 <= ts[j].block + 1
  <2>1. j \in 1..Len(ts) /\ (i = j \/ i < j)
    BY <1>1
  <2> QED
    BY <1>1, <1>2, <2>1
<1>5. ASSUME NEW j \in (i + 1)..Len(ts) PROVE j \in 1..Len(ts) /\ ts[i].block + 1 <= ts[j].block
  <2>1. j \in 1..Len(ts) /\ i < j
    BY <1>1
  <2> QED
    BY <1>1, <1>2, <2>1
<1> QED
  BY <1>1, <1>2, <1>3, <1>4, <1>5

LEMMA AllDeletedKeys ==
  ASSUME NEW ts \in Seq(Thunk), NEW k \in Key
  PROVE  k \in AllDeleted(ts) <=> \E j \in 1..Len(ts) : ts[j].deleted_keys[k] # 0
BY DEF AllDeleted, Offers

\* What is not on disk after phase 3 is not in the ledger either.
LEMMA NotWritten ==
  ASSUME NEW L, NEW ts, NEW lo, NEW hi, Batch(L, ts, lo, hi), NEW d, d = L[lo + 1].book,
         NEW k \in Key, phase3(d, ts)[k] = 0
  PROVE  L[hi + 1].book[k] = 0
<1>1. /\ Log(L, ts, lo, hi) /\ ts \in Seq(Thunk) /\ ts # <<>> /\ LowestDeleted(ts)
      /\ L \in Seq(Entry) /\ Shrinks(L) /\ lo + 1 \in 1..Len(L) /\ Len(ts) \in Nat
  BY DEF Batch, Log
<1>2. d \in Book /\ (d[k] # 0 => k \in L[lo + 1].born)
  BY <1>1, LogEntry DEF Sound
<1>3. /\ \A i \in 1..Len(ts) : k \notin Written(d, ts, i)
      /\ Dropped(ts, k) \/ d[k] = 0
  BY <1>1, <1>2, Phase3Values, Numbers
<1>4. CASE d[k] # 0
  <2>1. k \in L[lo + 1].born /\ Dropped(ts, k)
    BY <1>2, <1>3, <1>4
  <2>2. CASE k \in AllDeleted(ts)
    BY <1>1, <2>2, AllDeletedKeys, DeletedGone
  <2>3. CASE SomePartial(ts) /\ k < MaxPartial(ts)
    <3>1. PICK j \in 1..Len(ts) : ts[j].partial_exec_key = MaxPartial(ts)
      BY <1>1, <2>3, MaxPartials
    <3>2. k \in L[ts[j].block + 1].born
      BY <1>1, <2>1, BornLater
    <3> QED
      BY <1>1, <2>3, <3>1, <3>2, ClearedGone
  <2>4. CASE ~SomePartial(ts)
    <3>1. 1 \in 1..Len(ts)
      BY <1>1, EmptySeq
    <3>2. ~Partial(ts[1])
      BY <1>1, <2>4, <3>1 DEF SomePartial
    <3>3. k < ts[1].partial_exec_key
      BY <1>1, <3>1, <3>2, LogThunk, Numbers DEF Closed
    <3>4. k \in L[ts[1].block + 1].born
      BY <1>1, <2>1, <3>1, BornLater
    <3> QED
      BY <1>1, <3>1, <3>3, <3>4, ClearedGone
  <2> QED
    BY <2>1, <2>2, <2>3, <2>4 DEF Dropped
<1>5. CASE d[k] = 0
  <2> SUFFICES ASSUME L[hi + 1].book[k] # 0 PROVE FALSE
    OBVIOUS
  <2>1. PICK i \in 1..Len(ts) : k \in ts[i].uncommitted_offers_vec
    BY <1>1, <1>5, OfferAppears
  <2>2. /\ ts[i] \in Thunk /\ ts[i].uncommitted_offers_vec \subseteq L[ts[i].block + 1].born
        /\ Opened(L[ts[i].block], ts[i]) /\ ts[i].block \in Nat /\ ts[i].block \in 1..Len(L)
        /\ ts[i].uncommitted_offers_vec \subseteq Key
    BY <1>1, LogThunk, ThunkFields
  <2>3. PICK j \in ts[i].uncommitted_offers_vec :
          j >= k /\ (j < RollingKey(ts, i) \/ j \in AllDeleted(ts))
    <3>1. k \notin Written(d, ts, i)
      BY <1>3
    <3>2. RollingKey(ts, i) \in Nat
      BY <1>1, RollingKeys
    <3>3. \A j \in ts[i].uncommitted_offers_vec : j \in Nat
      BY <2>2, Numbers
    <3> QED
      BY <2>1, <3>1, <3>2, <3>3 DEF Written
  <2>4. j \in Key /\ j \in Nat /\ k \in Nat
    BY <2>2, Numbers
  <2>5. CASE j < RollingKey(ts, i)
    <3>1. PICK l \in i..Len(ts) : ts[l].partial_exec_key = RollingKey(ts, i)
      BY <1>1, RollingKeys
    <3>2. l \in 1..Len(ts) /\ ts[l].partial_exec_key \in Nat
      <4>1. l \in 1..Len(ts)
        BY <1>1
      <4> QED
        BY <1>1, <4>1, ElementOfSeq, ThunkFields
    <3>3. k < ts[l].partial_exec_key
      BY <2>3, <2>4, <2>5, <3>1, <3>2
    <3>4. k \in L[ts[l].block + 1].born
      BY <1>1, <2>1, <2>2, BornLater
    <3> QED
      BY <1>1, <3>2, <3>3, <3>4, ClearedGone
  <2>6. CASE j \in AllDeleted(ts)
    <3>1. PICK l \in 1..Len(ts) : ts[l].deleted_keys[j] # 0
      BY <1>1, <2>4, <2>6, AllDeletedKeys
    <3>2. j \in L[ts[l].block].born
      BY <1>1, <2>4, <3>1, DeletedGone
    <3>3. j \notin L[ts[i].block].born
      BY <2>2 DEF Opened
    <3>4. ts[l].block \in Nat /\ ts[l].block \in 1..Len(L)
      BY <1>1, LogThunk
    <3>5. ts[i].block < ts[l].block
      BY <1>1, <2>2, <2>4, <3>2, <3>3, <3>4 DEF Shrinks
    <3>6. i < l
      <4>1. \A x, y \in 1..Len(ts) : x < y => ts[x].block < ts[y].block
        BY <1>1 DEF Log
      <4>2. i = l \/ i < l \/ l < i
        OBVIOUS
      <4> QED
        BY <2>2, <3>4, <3>5, <4>1, <4>2
    <3>7. Lowest(j, ts[i])
      BY <1>1, <2>4, <3>1, <3>6 DEF LowestDeleted
    <3>8. k = j
      BY <2>1, <2>3, <2>4, <3>7 DEF Lowest
    <3> QED
      BY <1>1, <3>1, <3>8, DeletedGone
  <2> QED
    BY <2>3, <2>5, <2>6
<1> QED
  BY <1>4, <1>5

\* What is there is executed as in the ledger: an offer of the disk ...
LEMMA TraceDisk ==
  ASSUME NEW L, NEW ts, NEW lo, NEW hi, Batch(L, ts, lo, hi), NEW d, d = L[lo + 1].book,
         NEW k \in Key, d[k] # 0, phase3(d, ts)[k] # 0
  PROVE  phase4(d, ts)[k] = L[hi + 1].book[k]
<1>1. /\ Log(L, ts, lo, hi) /\ ts \in Seq(Thunk)
      /\ L \in Seq(Entry) /\ Shrinks(L) /\ lo + 1 \in 1..Len(L) /\ Len(ts) \in Nat
  BY DEF Batch, Log
<1>2. d \in Book /\ k \in L[lo + 1].born
  BY <1>1, LogEntry DEF Sound
<1>3. \A i \in 1..Len(ts) : k \notin ts[i].uncommitted_offers_vec
  <2>1. ASSUME NEW i \in 1..Len(ts) PROVE k \notin ts[i].uncommitted_offers_vec
    <3>1. Opened(L[ts[i].block], ts[i])
      BY <1>1, LogThunk
    <3>2. k \in L[ts[i].block].born
      BY <1>1, <1>2, BornLater
    <3> QED
      BY <3>1, <3>2 DEF Opened
  <2> QED
    BY <2>1
<1>4. \A i \in 1..Len(ts) : k \notin Written(d, ts, i)
  BY <1>3 DEF Written
<1>5. phase3(d, ts)[k] = d[k] /\ ~Dropped(ts, k)
  BY <1>1, <1>2, <1>4, Phase3Values
<1>6. k \notin AllDeleted(ts) /\ SomePartial(ts) /\ ~(k < MaxPartial(ts))
  BY <1>5 DEF Dropped
<1>7. ASSUME NEW i \in (0 + 1)..Len(ts)
      PROVE  /\ k \notin ts[i].uncommitted_offers_vec /\ ts[i].deleted_keys[k] = 0
             /\ Partial(ts[i]) => ts[i].partial_exec_key <= k
             /\ ~Partial(ts[i]) => ts[i].cleared_offers[k] = 0
  <2>1. i \in 1..Len(ts) /\ ts[i] \in Thunk
    BY <1>1, ElementOfSeq
  <2>2. ts[i].deleted_keys[k] = 0
    BY <1>1, <1>6, <2>1, AllDeletedKeys
  <2>3. Partial(ts[i]) => ts[i].partial_exec_key <= k
    <3>1. MaxPartial(ts) \in Nat /\ (Partial(ts[i]) => ts[i].partial_exec_key <= MaxPartial(ts))
      BY <1>1, <1>6, <2>1, MaxPartials
    <3>2. ts[i].partial_exec_key \in Nat /\ k \in Nat
      BY <2>1, ThunkFields, Numbers
    <3> QED
      BY <1>6, <3>1, <3>2
  <2>4. ~Partial(ts[i]) => ts[i].cleared_offers[k] = 0
    BY <1>6, <2>1 DEF Batch
  <2> QED
    BY <1>3, <2>1, <2>2, <2>3, <2>4
<1>8. partial_execs(d, ts)[0][k] = L[BlockAt(ts, lo, 0) + 1].book[k]
  BY <1>1, <1>2, <1>5, ExecValues DEF BlockAt
<1>9. 0 \in 0..Len(ts)
  BY <1>1
<1> QED
  BY <1>1, <1>2, <1>7, <1>8, <1>9, TraceFrom

\* ... and a new one.
LEMMA TraceNew ==
  ASSUME NEW L, NEW ts, NEW lo, NEW hi, Batch(L, ts, lo, hi), NEW d, d = L[lo + 1].book,
         NEW k \in Key, d[k] = 0, phase3(d, ts)[k] # 0
  PROVE  phase4(d, ts)[k] = L[hi + 1].book[k]
<1>1. /\ Log(L, ts, lo, hi) /\ ts \in Seq(Thunk)
      /\ L \in Seq(Entry) /\ Shrinks(L) /\ lo + 1 \in 1..Len(L) /\ Len(ts) \in Nat
  BY DEF Batch, Log
<1>2. d \in Book /\ k \in Nat
  BY <1>1, LogEntry, Numbers
<1>3. PICK s \in 1..Len(ts) : k \in Written(d, ts, s)
  BY <1>1, <1>2, Phase3Values
<1>4. phase3(d, ts)[k] = Amount
  BY <1>1, <1>2, <1>3, Phase3Values
<1>5. /\ k \in ts[s].uncommitted_offers_vec /\ k >= RollingKey(ts, s) /\ k \notin AllDeleted(ts)
  <2>1. k >= k
    BY <1>2
  <2> QED
    BY <1>3, <2>1 DEF Written
<1>6. /\ ts[s] \in Thunk /\ Sound(L[ts[s].block]) /\ Opened(L[ts[s].block], ts[s])
      /\ k \in L[ts[s].block + 1].born /\ k \notin L[ts[s].block].born
  BY <1>1, <1>5, LogThunk DEF Opened
<1>7. PICK x : x = partial_execs(d, ts)
  OBVIOUS
<1>8. PICK n \in Nat : n = s - 1
  OBVIOUS
<1>9. \A i \in 1..n : i \in 1..Len(ts) /\ ~(Partial(ts[i]) /\ k = ts[i].partial_exec_key)
  <2>1. ASSUME NEW i \in 1..n PROVE i \in 1..Len(ts) /\ s \in (i + 1)..Len(ts)
    BY <1>1, <1>8
  <2>2. ASSUME NEW i \in 1..n, Partial(ts[i]), k = ts[i].partial_exec_key PROVE FALSE
    <3>1. k \in L[ts[i].block + 1].born
      BY <1>1, <2>1, <2>2, PartialThere
    <3>2. k \in L[ts[s].block].born
      BY <1>1, <2>1, <3>1, BornLater
    <3> QED
      BY <1>6, <3>2
  <2> QED
    BY <2>1, <2>2
<1>10. x[n][k] = Amount
  <2> DEFINE G == {i \in 0..n : x[i][k] = Amount}
  <2>1. 0 \in G
    BY <1>1, <1>2, <1>4, <1>7, ExecValues
  <2>2. \A i \in 1..n : i - 1 \in G => i \in G
    <3>1. \A i \in 1..n : x[i][k] = x[i - 1][k]
      BY <1>1, <1>2, <1>7, <1>9, ExecValues
    <3> QED
      BY <3>1
  <2> HIDE DEF G
  <2>3. \A i \in 0..n : i \in G
    BY <2>1, <2>2, Reached
  <2> QED
    BY <2>3 DEF G
<1>11. \A i \in s..Len(ts) : /\ i \in 1..Len(ts) /\ Partial(ts[i]) /\ ts[i].partial_exec_key \in Nat
                             /\ ts[i].partial_exec_key <= k /\ ts[i].deleted_keys[k] = 0
  <2>1. ASSUME NEW i \in s..Len(ts)
        PROVE  /\ i \in 1..Len(ts) /\ Partial(ts[i]) /\ ts[i].partial_exec_key \in Nat
               /\ ts[i].partial_exec_key <= k /\ ts[i].deleted_keys[k] = 0
    <3>1. i \in 1..Len(ts)
      BY <1>1
    <3>2. ts[i] \in Thunk /\ ts[i].partial_exec_key \in Nat
      BY <1>1, <3>1, ElementOfSeq, ThunkFields
    <3>3. RollingKey(ts, s) \in Nat /\ ts[i].partial_exec_key <= RollingKey(ts, s)
      BY <1>1, RollingKeys
    <3>4. ts[i].partial_exec_key <= k
      BY <1>2, <1>5, <3>2, <3>3
    <3>5. ~Partial(ts[i]) => ts[i].partial_exec_key = Top
      BY <1>1, <3>1, LogThunk DEF Closed
    <3>6. ts[i].deleted_keys[k] = 0
      BY <1>1, <1>5, <3>1, AllDeletedKeys
    <3> QED
      BY <3>1, <3>2, <3>4, <3>5, <3>6, Numbers
  <2> QED
    BY <2>1
<1>12. x[s][k] = L[BlockAt(ts, lo, s) + 1].book[k]
  <2>1. PICK m : m = Met(L[BlockAt(ts, lo, s - 1) + 1].book, ts[s], k)
    OBVIOUS
  <2>2. m = Amount
    BY <1>5, <2>1 DEF Met
  <2>3. L[BlockAt(ts, lo, s) + 1].book[k] =
          IF k < ts[s].partial_exec_key THEN 0
          ELSE IF k = ts[s].partial_exec_key THEN m - ts[s].partial_exec_amount ELSE m
    BY <1>1, <2>1, ThunkStep
  <2>4. x[s][k] = IF Partial(ts[s]) /\ k = ts[s].partial_exec_key /\ x[n][k] # 0
                  THEN x[n][k] - ts[s].partial_exec_amount ELSE x[n][k]
    BY <1>1, <1>2, <1>7, <1>8, ExecValues
  <2>5. s \in s..Len(ts)
    BY <1>1
  <2>6. Partial(ts[s]) /\ ts[s].partial_exec_key \in Nat /\ ts[s].partial_exec_key <= k
    BY <1>11, <2>5
  <2> QED
    BY <1>2, <1>10, <2>2, <2>3, <2>4, <2>6, Numbers
<1>13. ASSUME NEW i \in (s + 1)..Len(ts)
       PROVE  /\ k \notin ts[i].uncommitted_offers_vec /\ ts[i].deleted_keys[k] = 0
              /\ Partial(ts[i]) => ts[i].partial_exec_key <= k
              /\ ~Partial(ts[i]) => ts[i].cleared_offers[k] = 0
  <2>1. i \in s..Len(ts) /\ i \in 1..Len(ts)
    BY <1>1
  <2>2. k \in L[ts[i].block].born
    BY <1>1, <1>6, BornLater
  <2>3. Opened(L[ts[i].block], ts[i])
    BY <1>1, <2>1, LogThunk
  <2>4. k \notin ts[i].uncommitted_offers_vec
    BY <2>2, <2>3 DEF Opened
  <2> QED
    BY <1>11, <2>1, <2>4
<1>14. s \in 0..Len(ts)
  BY <1>1
<1> QED
  BY <1>1, <1>2, <1>7, <1>12, <1>13, <1>14, TraceFrom

\* The batch leads the disk from one book of the ledger to another.
LEMMA WriteExact ==
  ASSUME NEW L, NEW ts, NEW lo, NEW hi, Batch(L, ts, lo, hi)
  PROVE  write_thunks(L[lo + 1].book, ts) = L[hi + 1].book
<1>1. PICK d : d = L[lo + 1].book
  OBVIOUS
<1>2. /\ Log(L, ts, lo, hi) /\ ts \in Seq(Thunk) /\ L \in Seq(Entry) /\ Shrinks(L)
      /\ lo + 1 \in 1..Len(L) /\ hi + 1 \in 1..Len(L) /\ Len(ts) \in Nat
  BY DEF Batch, Log
<1>3. d \in Book /\ L[hi + 1].book \in Book
  BY <1>1, <1>2, LogEntry
<1>4. ASSUME NEW k \in Key PROVE phase4(d, ts)[k] = L[hi + 1].book[k]
  <2>1. CASE phase3(d, ts)[k] = 0
    BY <1>1, <1>2, <1>3, <2>1, NotWritten, TraceZero
  <2>2. CASE phase3(d, ts)[k] # 0
    BY <1>1, <2>2, TraceDisk, TraceNew
  <2> QED
    BY <2>1, <2>2
<1>5. PICK R : R = {ts[i].partial_exec_key : i \in
                      {i \in DOMAIN ts : /\ Partial(ts[i])
                                         /\ \E j \in (i+1)..Len(ts) :
                                              ts[i].partial_exec_key < ts[j].partial_exec_key}}
  OBVIOUS
<1>6. ASSUME NEW k \in Key, k \in R PROVE L[hi + 1].book[k] = 0
  <2>1. PICK i \in 1..Len(ts) : /\ Partial(ts[i]) /\ k = ts[i].partial_exec_key
                                /\ \E j \in (i+1)..Len(ts) : k < ts[j].partial_exec_key
    BY <1>2, <1>5, <1>6
  <2>2. PICK j \in (i+1)..Len(ts) : k < ts[j].partial_exec_key
    BY <2>1
  <2>3. j \in 1..Len(ts) /\ j \in i..Len(ts)
    BY <1>2
  <2>4. k \in L[ts[i].block + 1].born
    BY <1>2, <2>1, PartialThere
  <2>5. k \in L[ts[j].block + 1].born
    BY <1>2, <2>3, <2>4, BornLater
  <2> QED
    BY <1>2, <2>2, <2>3, <2>5, ClearedGone
<1>7. write_thunks(d, ts) = [k \in Key |-> IF k \in Key \ R THEN phase4(d, ts)[k] ELSE 0]
  BY <1>5 DEF write_thunks, Without, Only
<1>8. \A k \in Key : write_thunks(d, ts)[k] = L[hi + 1].book[k]
  BY <1>4, <1>6, <1>7
<1>9. write_thunks(d, ts) = [k \in Key |-> write_thunks(d, ts)[k]]
  BY <1>7
<1>10. L[hi + 1].book = [k \in Key |-> L[hi + 1].book[k]]
  BY <1>3 DEF Book
<1> QED
  BY <1>1, <1>8, <1>9, <1>10, SameBook

-----------------------------------------------------------------------------
(* The thunks that are written and those that are left.                    *)
Ordered(ts) == \A i, j \in 1..Len(ts) : i < j => ts[i].block < ts[j].block

AreSelected(s, ts, I) ==
  /\ s \in Seq(Thunk) /\ Ordered(s) /\ LowestDeleted(s)
  /\ \A x \in 1..Len(s) : \E i \in I : s[x] = ts[i]
  /\ \A i \in I : \E x \in 1..Len(s) : s[x] = ts[i]
  /\ Len(ts) \in I => s # <<>> /\ s[Len(s)] = ts[Len(ts)]
LEMMA SelectedThunks ==
  ASSUME NEW ts \in Seq(Thunk), Ordered(ts), LowestDeleted(ts), NEW I \in SUBSET (1..Len(ts))
  PROVE  AreSelected(Selected(ts, I), ts, I)
<1>0. PICK s : s = Selected(ts, I)
  OBVIOUS
<1>1. PICK n \in Nat : n = Cardinality(I)
  BY SelectedElements
<1>2. s \in Seq(Thunk) /\ Len(s) = n
  BY <1>0, <1>1, SelectedElements
<1>3. PICK e : Picks(e, I) /\ \A x \in 1..n : s[x] = ts[e[x]]
  BY <1>0, <1>1, SelectedElements
<1>4. /\ e \in [1..n -> I]
      /\ \A x, y \in 1..n : x < y => e[x] < e[y]
      /\ \A i \in I : \E x \in 1..n : e[x] = i
  BY <1>1, <1>3 DEF Picks
<1>5. \A x \in 1..n : e[x] \in I /\ e[x] \in 1..Len(ts) /\ s[x] = ts[e[x]]
  BY <1>3, <1>4
<1>6. Ordered(s)
  BY <1>2, <1>4, <1>5, SMTT(30) DEF Ordered
<1>7. LowestDeleted(s)
  <2> SUFFICES ASSUME NEW x \in 1..n, NEW y \in 1..n, NEW k \in Key, x < y, s[y].deleted_keys[k] # 0
               PROVE  Lowest(k, s[x])
    BY <1>2 DEF LowestDeleted
  <2>1. e[x] < e[y] /\ ts[e[y]].deleted_keys[k] # 0
    BY <1>4, <1>5
  <2>2. Lowest(k, ts[e[x]])
    BY <1>5, <2>1 DEF LowestDeleted
  <2> QED
    BY <1>5, <2>2
<1>8. ASSUME Len(ts) \in I PROVE s # <<>> /\ s[Len(s)] = ts[Len(ts)]
  <2>1. PICK x \in 1..n : e[x] = Len(ts)
    BY <1>4, <1>8
  <2>2. n \in 1..n
    BY <1>1
  <2>3. x = n
    <3>1. ASSUME x # n PROVE FALSE
      <4>1. x < n
        BY <3>1
      <4>2. e[x] < e[n]
        BY <1>4, <2>2, <4>1
      <4>3. e[n] <= Len(ts) /\ e[n] \in Nat /\ Len(ts) \in Nat
        BY <1>5, <2>2
      <4> QED
        BY <2>1, <4>2, <4>3
    <3> QED
      BY <3>1
  <2> QED
    BY <1>2, <1>5, <2>1, <2>2, <2>3
<1>9. \A i \in I : \E x \in 1..n : s[x] = ts[i]
  BY <1>3, <1>4
<1> QED
  BY <1>0, <1>2, <1>5, <1>6, <1>7, <1>8, <1>9 DEF AreSelected

\* A part of a log is complete for the part of the ledger it is about.
LEMMA SelectedComplete ==
  ASSUME NEW L, NEW ts, NEW s, NEW a \in Nat, NEW b \in Nat, NEW lo \in a..b, NEW hi \in lo..b,
         Complete(L, ts, a, b),
         \A i \in 1..Len(ts) : ts[i].block \in (lo + 1)..hi => \E x \in 1..Len(s) : s[x] = ts[i]
  PROVE  Complete(L, s, lo, hi)
<1> SUFFICES ASSUME NEW m \in lo..hi, NEW n \in lo..hi, NEW k \in Key, m <= n, Untouched(s, k, m, n)
             PROVE  L[m + 1].book[k] = L[n + 1].book[k]
  BY DEF Complete
<1>1. m \in a..b /\ n \in a..b
  OBVIOUS
<1>2. Untouched(ts, k, m, n)
  <2>1. ASSUME NEW i \in 1..Len(ts), ts[i].block \in (m + 1)..n PROVE k \notin Touched(ts[i])
    <3>1. ts[i].block \in (lo + 1)..hi
      BY <2>1
    <3>2. PICK x \in 1..Len(s) : s[x] = ts[i]
      BY <3>1
    <3>3. k \notin Touched(s[x])
      BY <2>1, <3>2 DEF Untouched
    <3> QED
      BY <3>2, <3>3
  <2> QED
    BY <2>1 DEF Untouched
<1> QED
  BY <1>1, <1>2 DEF Complete

-----------------------------------------------------------------------------
(* The state.                                                              *)
LEMMA StateFacts ==
  ASSUME OInv
  PROVE  /\ proposal_base \in Nat /\ last_committed \in Nat /\ persisted \in Nat
         /\ persisted <= last_committed /\ last_committed <= proposal_base
         /\ proposal_base <= MaxBlock /\ Len(ledger) = proposal_base + 1
         /\ ledger \in Seq(Entry) /\ Shrinks(ledger)
         /\ thunks \in Seq(Thunk) /\ Len(thunks) \in Nat /\ Ordered(thunks) /\ LowestDeleted(thunks)
         /\ \A i \in 1..Len(thunks) : thunks[i] \in Thunk /\ thunks[i].block \in Nat
         /\ proposal_base + 1 \in 1..Len(ledger) /\ Sound(Lead) /\ Lead.book \in Book /\ Lead.born \subseteq Key
         /\ committed_offers \in Book /\ blk.cancels \subseteq Key /\ blk.new \subseteq Key
         /\ blk.key \in 1..Top /\ blk.key \in Nat /\ blk.sell \in Nat
<1>1. TypeOK /\ Shrinks(ledger) /\ LowestDeleted(thunks)
  BY DEF OInv, ThunksOrdered, CancelsLowest
<1>2. /\ proposal_base \in Nat /\ last_committed \in Nat /\ persisted \in Nat
      /\ persisted <= last_committed /\ last_committed <= proposal_base
      /\ proposal_base <= MaxBlock /\ Len(ledger) = proposal_base + 1
  BY <1>1, Numbers DEF TypeOK
<1>3. ledger \in Seq(Entry) /\ thunks \in Seq(Thunk) /\ Len(thunks) \in Nat /\ committed_offers \in Book
  BY <1>1 DEF TypeOK, Entry
<1>4. Ordered(thunks)
  BY <1>3 DEF OInv, ThunksOrdered, Ordered
<1>5. proposal_base + 1 \in 1..Len(ledger)
  BY <1>2
<1>6. Sound(Lead) /\ Lead.book \in Book /\ Lead.born \subseteq Key
  BY <1>1, <1>3, <1>5, LogEntry DEF Lead
<1>7. \A i \in 1..Len(thunks) : thunks[i] \in Thunk /\ thunks[i].block \in Nat
  BY <1>3, ElementOfSeq, ThunkFields
<1>8. /\ blk.cancels \subseteq Key /\ blk.new \subseteq Key /\ blk.key \in 1..Top
      /\ blk.key \in Nat /\ blk.sell \in Nat
  BY <1>1, Numbers DEF TypeOK
<1> QED
  BY <1>1, <1>2, <1>3, <1>4, <1>5, <1>6, <1>7, <1>8

LEMMA TopFacts ==
  ASSUME OInv, Booked
  PROVE  /\ Len(thunks) \in 1..Len(thunks) /\ TopThunk \in Thunk /\ TopThunk.block > proposal_base
         /\ \A i \in 1..Len(thunks) : i # Len(thunks) => thunks[i].block <= proposal_base
<1>1. /\ thunks \in Seq(Thunk) /\ thunks # <<>> /\ proposal_base \in Nat
      /\ \A i \in 1..Len(thunks) : thunks[i] \in Thunk /\ thunks[i].block \in Nat
  BY StateFacts DEF OInv, ThunksOrdered, Booked
<1>2. Len(thunks) \in 1..Len(thunks)
  BY <1>1, EmptySeq
<1>3. \A i \in 1..Len(thunks) : thunks[i].block > proposal_base <=> i = Len(thunks)
  BY <1>1 DEF OInv, ThunksOrdered, Booked
<1> QED
  BY <1>1, <1>2, <1>3 DEF TopThunk

\* What is written when blocks up to n are.
LEMMA UpToBatch ==
  ASSUME OInv, NEW n \in persisted..last_committed, Allow = {}, BatchAllowed(UpTo(n))
  PROVE  /\ Log(ledger, UpTo(n), persisted, n)
         /\ (IF UpTo(n) = <<>> THEN disk ELSE write_thunks(disk, UpTo(n))) = ledger[n + 1].book
<1>1. /\ proposal_base \in Nat /\ last_committed \in Nat /\ persisted \in Nat /\ n \in Nat
      /\ persisted <= n /\ n <= last_committed /\ last_committed <= proposal_base
      /\ n <= proposal_base /\ Len(ledger) = proposal_base + 1
      /\ ledger \in Seq(Entry) /\ Shrinks(ledger)
      /\ thunks \in Seq(Thunk) /\ Ordered(thunks) /\ LowestDeleted(thunks) /\ Len(thunks) \in Nat
      /\ \A i \in 1..Len(thunks) : thunks[i] \in Thunk /\ thunks[i].block \in Nat
  BY StateFacts
<1>2. PICK I : I = {i \in 1..Len(thunks) : thunks[i].block <= n}
  OBVIOUS
<1>3. PICK s : s = UpTo(n)
  OBVIOUS
<1>4. s = Selected(thunks, I)
  <2>1. DOMAIN thunks = 1..Len(thunks)
    BY <1>1
  <2> QED
    BY <1>2, <1>3, <2>1 DEF UpTo
<1>5. /\ s \in Seq(Thunk) /\ Ordered(s) /\ LowestDeleted(s)
      /\ \A x \in 1..Len(s) : \E i \in I : s[x] = thunks[i]
      /\ \A i \in I : \E x \in 1..Len(s) : s[x] = thunks[i]
  <2>1. I \in SUBSET (1..Len(thunks))
    BY <1>2
  <2>2. AreSelected(Selected(thunks, I), thunks, I)
    BY <1>1, <2>1, SelectedThunks
  <2> QED
    BY <1>4, <2>2 DEF AreSelected
<1>6. \A i \in 1..Len(thunks) : i \in I <=> thunks[i].block \in (persisted + 1)..n
  <2>1. \A i \in 1..Len(thunks) : persisted < thunks[i].block
    BY <1>1 DEF OInv, ThunksOrdered
  <2>2. \A i \in 1..Len(thunks) : i \in I <=> thunks[i].block <= n
    BY <1>1, <1>2
  <2> QED
    BY <1>1, <2>1, <2>2
<1>7. \A i \in I : thunks[i].block \in (persisted + 1)..n /\ Recorded(ledger, thunks[i])
  <2>1. \A i \in I : i \in 1..Len(thunks)
    BY <1>2
  <2>2. \A i \in I : thunks[i].block \in (persisted + 1)..n /\ thunks[i].block <= proposal_base
    BY <1>1, <1>6, <2>1
  <2> QED
    BY <2>1, <2>2 DEF OInv, ThunksExact
<1>8. Complete(ledger, s, persisted, n)
  <2>1. persisted \in persisted..proposal_base /\ n \in persisted..proposal_base
    BY <1>1
  <2>2. Complete(ledger, thunks, persisted, proposal_base)
    BY DEF OInv, ThunksExact
  <2> QED
    BY <1>1, <1>5, <1>6, <2>1, <2>2, SelectedComplete
<1>9. Log(ledger, s, persisted, n)
  <2>1. \A x \in 1..Len(s) : s[x].block \in (persisted + 1)..n /\ Recorded(ledger, s[x])
    BY <1>5, <1>7
  <2>2. n + 1 <= Len(ledger)
    BY <1>1
  <2> QED
    BY <1>1, <1>5, <1>8, <2>1, <2>2 DEF Log, Ordered
<1>10. disk = ledger[persisted + 1].book
  BY DEF OInv, PersistExact
<1>11. CASE s = <<>>
  <2>1. \A k \in Key : Untouched(s, k, persisted, n)
    BY <1>11 DEF Untouched
  <2>2. persisted \in persisted..n /\ n \in persisted..n
    BY <1>1
  <2>3. \A k \in Key : ledger[persisted + 1].book[k] = ledger[n + 1].book[k]
    BY <1>1, <1>8, <2>1, <2>2 DEF Complete
  <2>4. persisted + 1 \in 1..Len(ledger) /\ n + 1 \in 1..Len(ledger)
    BY <1>1
  <2>5. ledger[persisted + 1].book \in Book /\ ledger[n + 1].book \in Book
    BY <1>1, <2>4, LogEntry
  <2>6. PICK b \in Book, c \in Book : b = ledger[persisted + 1].book /\ c = ledger[n + 1].book
    BY <2>5
  <2>7. b = c
    BY <2>3, <2>6 DEF Book
  <2> QED
    BY <1>3, <1>9, <1>10, <1>11, <2>6, <2>7
<1>12. CASE s # <<>>
  <2>1. \/ ~SomePartial(s)
        \/ \A i \in DOMAIN s : s[i].exists_partial_exec = "no" =>
             Offers(s[i].cleared_offers) \cap Offers(disk) = {}
    BY <1>3 DEF BatchAllowed
  <2>2. ASSUME SomePartial(s), NEW i \in 1..Len(s), NEW k \in Key, ~Partial(s[i]),
               ledger[persisted + 1].book[k] # 0
        PROVE  s[i].cleared_offers[k] = 0
    <3>1. s[i].exists_partial_exec = "no"
      BY <1>9, <2>2, LogThunk DEF Closed, Partial
    <3>2. Offers(s[i].cleared_offers) \cap Offers(disk) = {}
      BY <1>5, <2>1, <2>2, <3>1
    <3> QED
      BY <1>10, <2>2, <3>2 DEF Offers
  <2>3. Batch(ledger, s, persisted, n)
    BY <1>5, <1>9, <1>12, <2>2 DEF Batch
  <2> QED
    BY <1>3, <1>9, <1>10, <1>12, <2>3, WriteExact
<1> QED
  BY <1>11, <1>12

-----------------------------------------------------------------------------
(* Steps that touch no book: writing thunks and starting again.            *)

\* The memory that is left after blocks up to n are written.
LEMMA AfterFacts ==
  ASSUME OInv, NEW n \in persisted..last_committed
  PROVE  /\ After(n) \in Seq(Thunk) /\ Ordered(After(n)) /\ LowestDeleted(After(n))
         /\ \A x \in 1..Len(After(n)) :
              /\ After(n)[x].block > n
              /\ After(n)[x].block <= proposal_base => Recorded(ledger, After(n)[x])
              /\ After(n)[x].block > proposal_base <=> x = Len(After(n)) /\ Booked
              /\ \A k \in marked : Lowest(k, After(n)[x])
         /\ Booked => After(n) # <<>> /\ After(n)[Len(After(n))] = TopThunk
         /\ Complete(ledger, After(n), n, proposal_base)
<1>1. /\ proposal_base \in Nat /\ last_committed \in Nat /\ persisted \in Nat /\ n \in Nat
      /\ persisted <= n /\ n <= last_committed /\ n <= proposal_base
      /\ thunks \in Seq(Thunk) /\ Ordered(thunks) /\ LowestDeleted(thunks) /\ Len(thunks) \in Nat
      /\ \A i \in 1..Len(thunks) : thunks[i] \in Thunk /\ thunks[i].block \in Nat
  BY StateFacts
<1>2. PICK I : I = {i \in 1..Len(thunks) : thunks[i].block > n}
  OBVIOUS
<1>3. PICK s : s = After(n)
  OBVIOUS
<1>4. s = Selected(thunks, I)
  <2>1. DOMAIN thunks = 1..Len(thunks)
    BY <1>1
  <2> QED
    BY <1>2, <1>3, <2>1 DEF After
<1>5. AreSelected(s, thunks, I)
  <2>1. I \in SUBSET (1..Len(thunks))
    BY <1>2
  <2>2. AreSelected(Selected(thunks, I), thunks, I)
    BY <1>1, <2>1, SelectedThunks
  <2> QED
    BY <1>4, <2>2
<1>6. /\ s \in Seq(Thunk) /\ Ordered(s) /\ LowestDeleted(s)
      /\ \A x \in 1..Len(s) : \E i \in I : s[x] = thunks[i]
      /\ \A i \in I : \E x \in 1..Len(s) : s[x] = thunks[i]
      /\ Len(thunks) \in I => s # <<>> /\ s[Len(s)] = thunks[Len(thunks)]
  BY <1>5 DEF AreSelected
<1>7. \A i \in 1..Len(thunks) :
        /\ thunks[i].block <= proposal_base => Recorded(ledger, thunks[i])
        /\ \A k \in marked : Lowest(k, thunks[i])
        /\ thunks[i].block > proposal_base <=> i = Len(thunks) /\ Booked
  BY <1>1 DEF OInv, ThunksOrdered, ThunksExact, CancelsLowest, Booked
<1>8. ASSUME Booked PROVE s # <<>> /\ s[Len(s)] = TopThunk
  <2>1. Len(thunks) \in 1..Len(thunks) /\ TopThunk.block > proposal_base
    BY <1>8, TopFacts
  <2>2. Len(thunks) \in I
    BY <1>1, <1>2, <2>1 DEF TopThunk
  <2> QED
    BY <1>6, <2>2 DEF TopThunk
<1>9. ASSUME NEW x \in 1..Len(s)
      PROVE  /\ s[x].block > n
             /\ s[x].block <= proposal_base => Recorded(ledger, s[x])
             /\ s[x].block > proposal_base <=> x = Len(s) /\ Booked
             /\ \A k \in marked : Lowest(k, s[x])
  <2>1. PICK i \in I : s[x] = thunks[i]
    BY <1>6
  <2>2. i \in 1..Len(thunks) /\ thunks[i].block > n
    BY <1>2
  <2>3. ASSUME s[x].block > proposal_base PROVE x = Len(s) /\ Booked
    <3>1. i = Len(thunks) /\ Booked
      BY <1>7, <2>1, <2>2, <2>3
    <3>2. s[Len(s)] = s[x]
      BY <1>8, <2>1, <3>1 DEF TopThunk
    <3>3. x = Len(s) \/ s[x].block < s[Len(s)].block
      BY <1>6 DEF Ordered
    <3> QED
      BY <1>1, <2>1, <2>2, <3>1, <3>2, <3>3
  <2>4. ASSUME x = Len(s), Booked PROVE s[x].block > proposal_base
    BY <1>8, <2>4, TopFacts
  <2> QED
    BY <1>7, <2>1, <2>2, <2>3, <2>4
<1>10. Complete(ledger, s, n, proposal_base)
  <2>1. n \in persisted..proposal_base /\ proposal_base \in n..proposal_base
    BY <1>1
  <2>2. Complete(ledger, thunks, persisted, proposal_base)
    BY DEF OInv, ThunksExact
  <2>3. \A i \in 1..Len(thunks) : thunks[i].block \in (n + 1)..proposal_base =>
          \E x \in 1..Len(s) : s[x] = thunks[i]
    <3>1. \A i \in 1..Len(thunks) : thunks[i].block \in (n + 1)..proposal_base => i \in I
      BY <1>1, <1>2
    <3> QED
      BY <1>6, <3>1
  <2> QED
    BY <1>1, <2>1, <2>2, <2>3, SelectedComplete
<1> QED
  BY <1>3, <1>6, <1>8, <1>9, <1>10

\* The block in progress only sees these.
LEMMA BlockKept ==
  ASSUME BlockInStep, UNCHANGED <<book_vars, pc, blk, proposal_base, last_committed, ledger>>,
         Booked => TopThunk' = TopThunk
  PROVE  BlockInStep'
<1>1. /\ marked' = marked /\ uncommitted_offers' = uncommitted_offers /\ rollback_marks' = rollback_marks
      /\ committed_offers' = committed_offers /\ pc' = pc /\ blk' = blk
      /\ proposal_base' = proposal_base /\ last_committed' = last_committed /\ ledger' = ledger
  BY DEF book_vars
<1>2. Lead' = Lead /\ Inserted' = Inserted /\ (Booked' <=> Booked)
  BY <1>1 DEF Lead, Inserted, Booked
<1>3. CASE Booked
  <2>1. Running
    BY <1>3 DEF BlockInStep
  <2>2. Running'
    BY <1>1, <1>2, <1>3, <2>1 DEF Running
  <2> QED
    BY <1>1, <1>2, <1>3, <2>2 DEF BlockInStep
<1>4. CASE ~Booked
  <2>1. Opening
    BY <1>4 DEF BlockInStep
  <2>2. Opening'
    BY <1>1, <1>2, <2>1 DEF Opening
  <2> QED
    BY <1>1, <1>2, <1>4, <2>2 DEF BlockInStep
<1> QED
  BY <1>3, <1>4

LEMMA PersistStep ==
  ASSUME OInv, Allow = {}, NEW n, Persist(n)
  PROVE  OInv'
<1>1. /\ n \in (persisted + 1)..last_committed /\ BatchAllowed(UpTo(n))
      /\ disk' = IF UpTo(n) = <<>> THEN disk ELSE write_thunks(disk, UpTo(n))
      /\ thunks' = After(n) /\ persisted' = n
      /\ UNCHANGED <<book_vars, pc, blk, proposal_base, last_committed, ledger>>
  BY DEF Persist
<1>2. /\ committed_offers' = committed_offers /\ marked' = marked /\ pc' = pc /\ blk' = blk
      /\ proposal_base' = proposal_base /\ last_committed' = last_committed /\ ledger' = ledger
      /\ junk' = junk /\ rollback_marks' = rollback_marks /\ uncommitted_offers' = uncommitted_offers
  BY <1>1 DEF book_vars
<1>3. /\ proposal_base \in Nat /\ last_committed \in Nat /\ persisted \in Nat /\ n \in Nat
      /\ last_committed <= proposal_base /\ n <= last_committed /\ ledger \in Seq(Entry) /\ Shrinks(ledger)
      /\ Len(ledger) = proposal_base + 1
  BY <1>1, StateFacts
<1>4. n \in persisted..last_committed /\ n \in 0..last_committed /\ n + 1 \in 1..Len(ledger)
  BY <1>1, <1>3
<1>5. PICK s : s = After(n)
  OBVIOUS
<1>6. /\ s \in Seq(Thunk) /\ Ordered(s) /\ LowestDeleted(s)
      /\ \A x \in 1..Len(s) :
           /\ s[x].block > n
           /\ s[x].block <= proposal_base => Recorded(ledger, s[x])
           /\ s[x].block > proposal_base <=> x = Len(s) /\ Booked
           /\ \A k \in marked : Lowest(k, s[x])
      /\ Booked => s # <<>> /\ s[Len(s)] = TopThunk
      /\ Complete(ledger, s, n, proposal_base)
  BY <1>4, <1>5, AfterFacts
<1>7. disk' = ledger[n + 1].book
  BY <1>1, <1>4, UpToBatch
<1>8. disk' \in Book
  BY <1>3, <1>4, <1>7, LogEntry
<1>9. TypeOK'
  BY <1>1, <1>2, <1>4, <1>5, <1>6, <1>8 DEF OInv, ThunksOrdered, TypeOK
<1>10. ThunksOrdered'
  <2>1. DOMAIN s = 1..Len(s)
    BY <1>6
  <2>2. \A i \in DOMAIN s : n < s[i].block
    <3>1. \A i \in 1..Len(s) : s[i].block \in Nat
      BY <1>6, ElementOfSeq, ThunkFields
    <3> QED
      BY <1>3, <1>6, <2>1, <3>1
  <2>3. \A i, j \in DOMAIN s : i < j => s[i].block < s[j].block
    BY <1>6, <2>1 DEF Ordered
  <2>4. \A i \in DOMAIN s : s[i].block > proposal_base <=>
          i = Len(s) /\ pc \in {"clear", "vclear", "decide", "fail"}
    BY <1>6, <2>1 DEF Booked
  <2>5. pc \in {"clear", "vclear", "decide", "fail"} => s # <<>>
    BY <1>6 DEF Booked
  <2> QED
    BY <1>1, <1>2, <1>5, <1>9, <2>2, <2>3, <2>4, <2>5 DEF ThunksOrdered
<1>11. PersistExact' /\ ~junk' /\ Shrinks(ledger)'
  BY <1>1, <1>2, <1>3, <1>7 DEF OInv, PersistExact
<1>12. ThunksExact' /\ CancelsLowest'
  BY <1>1, <1>2, <1>5, <1>6 DEF ThunksExact, CancelsLowest
<1>13. BlockInStep'
  <2>1. Booked => TopThunk' = TopThunk
    BY <1>1, <1>5, <1>6 DEF TopThunk
  <2> QED
    BY <1>1, <2>1, BlockKept DEF OInv
<1> QED
  BY <1>10, <1>11, <1>12, <1>13 DEF OInv

BlockType == [new : SUBSET Key, cancels : SUBSET Key, key : 1..Top, sell : 0..Amount + 1]
LEMMA NoBlockType == NoBlock \in BlockType
<1>1. Top \in 1..Top /\ 0 \in 0..Amount + 1
  BY Numbers DEF Top
<1> QED
  BY <1>1 DEF NoBlock, BlockType

LEMMA InitInv ==
  ASSUME Init
  PROVE  OInv
<1>1. EmptyBook \in Book
  BY Numbers DEF EmptyBook, Book
<1>2. PICK e \in Entry : e = [book |-> EmptyBook, born |-> {}]
  BY <1>1 DEF Entry
<1>3. ledger = <<e>> /\ ledger \in Seq(Entry) /\ Len(ledger) = 1 /\ ledger[1] = e
  BY <1>2 DEF Init
<1>4. /\ thunks = <<>> /\ thunks \in Seq(Thunk) /\ Len(thunks) = 0 /\ DOMAIN thunks = {}
      /\ proposal_base = 0 /\ last_committed = 0 /\ persisted = 0 /\ pc = "idle" /\ blk = NoBlock
      /\ marked = {} /\ rollback_marks = {} /\ uncommitted_offers = {} /\ junk = FALSE
      /\ committed_offers = EmptyBook /\ disk = EmptyBook
  BY DEF Init
<1>5. Lead = e /\ e.book = EmptyBook /\ e.born = {}
  BY <1>2, <1>3, <1>4 DEF Lead
<1>6. 0 \in 0..MaxBlock /\ 0 \in 0..0 /\ Len(ledger) = proposal_base + 1
  BY <1>3, <1>4, Numbers
<1>7. TypeOK
  BY <1>1, <1>3, <1>4, <1>6, NoBlockType, Zenon DEF TypeOK, Entry, BlockType
<1>8. ThunksOrdered /\ PersistExact /\ ~junk
  BY <1>3, <1>4, <1>5, <1>7 DEF ThunksOrdered, PersistExact
<1>9. Shrinks(ledger)
  <2>1. \A i \in 1..Len(ledger), k \in Key : ledger[i].book[k] = 0 /\ ledger[i].born = {}
    BY <1>3, <1>5 DEF EmptyBook
  <2> QED
    BY <2>1 DEF Shrinks
<1>10. ThunksExact
  <2>1. Complete(ledger, thunks, persisted, proposal_base)
    BY <1>4 DEF Complete
  <2> QED
    BY <1>4, <2>1 DEF ThunksExact
<1>11. CancelsLowest
  BY <1>4 DEF CancelsLowest, LowestDeleted
<1>12. BlockInStep
  BY <1>4, <1>5 DEF BlockInStep, NoBlock, Booked, Opening
<1> QED
  BY <1>8, <1>9, <1>10, <1>11, <1>12 DEF OInv

\* Back at the book after block n.
LEMMA BackAt ==
  ASSUME OInv, NEW n \in 0..proposal_base,
         committed_offers' = ledger[n + 1].book, disk' = ledger[n + 1].book,
         marked' = {}, rollback_marks' = {}, uncommitted_offers' = {}, junk' = FALSE,
         thunks' = <<>>, pc' = "idle", blk' = NoBlock,
         proposal_base' = n, last_committed' = n, persisted' = n,
         ledger' = SubSeq(ledger, 1, n + 1)
  PROVE  OInv'
<1>1. /\ proposal_base \in Nat /\ n \in Nat /\ n <= proposal_base /\ Len(ledger) = proposal_base + 1
      /\ ledger \in Seq(Entry) /\ Shrinks(ledger) /\ proposal_base <= MaxBlock
  BY StateFacts
<1>2. PICK L : L = SubSeq(ledger, 1, n + 1)
  OBVIOUS
<1>3. L \in Seq(Entry) /\ Len(L) = n + 1 /\ \A i \in 1..(n + 1) : L[i] = ledger[i] /\ i \in 1..Len(ledger)
  <2>1. n + 1 \in 1..Len(ledger) /\ 1 \in 1..Len(ledger)
    BY <1>1
  <2>2. L \in Seq(Entry)
    BY <1>1, <1>2, <2>1, SubSeqProperties
  <2> QED
    BY <1>1, <1>2, <2>1, <2>2, SubSeqProperties
<1>4. n + 1 \in 1..(n + 1) /\ n + 1 \in 1..Len(ledger)
  BY <1>1
<1>5. PICK e : e = ledger[n + 1]
  OBVIOUS
<1>6. e \in Entry /\ e.book \in Book /\ Lead' = e
  BY <1>1, <1>2, <1>3, <1>4, <1>5, LogEntry DEF Lead, Sound
<1>7. <<>> \in Seq(Thunk) /\ Len(<<>>) = 0 /\ DOMAIN <<>> = {}
  OBVIOUS
<1>9. n \in 0..MaxBlock /\ n \in 0..n
  BY <1>1, Numbers
<1>10. TypeOK'
  BY <1>2, <1>3, <1>5, <1>6, <1>7, <1>9, NoBlockType, Zenon DEF TypeOK, Entry, BlockType
<1>11. ThunksOrdered' /\ PersistExact' /\ ~junk'
  BY <1>2, <1>3, <1>4, <1>7, <1>10 DEF ThunksOrdered, PersistExact
<1>12. Shrinks(ledger)'
  BY <1>1, <1>2, <1>3 DEF Shrinks
<1>13. ThunksExact'
  <2>1. Complete(ledger', thunks', n, n)
    BY <1>1 DEF Complete
  <2> QED
    BY <1>7, <2>1 DEF ThunksExact
<1>14. CancelsLowest'
  BY <1>7 DEF CancelsLowest, LowestDeleted
<1>15. BlockInStep'
  BY <1>5, <1>6 DEF BlockInStep, NoBlock, Booked, Opening
<1> QED
  BY <1>11, <1>12, <1>13, <1>14, <1>15 DEF OInv

LEMMA RewindStep ==
  ASSUME OInv, Allow = {}, Rewind
  PROVE  OInv'
<1>1. PICK n : n = last_committed
  OBVIOUS
<1>2. /\ pc = "idle" /\ n < proposal_base /\ BatchAllowed(UpTo(n)) /\ RewindAllowed(After(n))
      /\ disk' = IF UpTo(n) = <<>> THEN disk ELSE write_thunks(disk, UpTo(n))
      /\ persisted' = n
      /\ committed_offers' = rollback_thunks(committed_offers, After(n))[Len(After(n))]
      /\ thunks' = <<>> /\ proposal_base' = n /\ ledger' = SubSeq(ledger, 1, n + 1)
      /\ UNCHANGED <<marked, rollback_marks, uncommitted_offers, junk, pc, blk, last_committed>>
  BY <1>1 DEF Rewind
<1>3. /\ proposal_base \in Nat /\ persisted \in Nat /\ n \in Nat /\ persisted <= n
      /\ Len(ledger) = proposal_base + 1 /\ ledger \in Seq(Entry) /\ Shrinks(ledger)
  BY <1>1, StateFacts
<1>4. n \in persisted..last_committed /\ n \in 0..proposal_base /\ proposal_base + 1 <= Len(ledger)
  BY <1>1, <1>2, <1>3
<1>5. disk' = ledger[n + 1].book
  BY <1>2, <1>4, UpToBatch
<1>6. /\ ~Booked /\ committed_offers = ledger[proposal_base + 1].book /\ ~junk
      /\ marked = {} /\ uncommitted_offers = {} /\ rollback_marks = {} /\ blk = NoBlock
  BY <1>2 DEF OInv, BlockInStep, Booked, Opening, Lead
<1>7. PICK s : s = After(n)
  OBVIOUS
<1>8. /\ s \in Seq(Thunk) /\ Ordered(s)
      /\ \A x \in 1..Len(s) : s[x].block \in (n + 1)..proposal_base /\ Recorded(ledger, s[x])
      /\ Complete(ledger, s, n, proposal_base)
  <2>1. /\ s \in Seq(Thunk) /\ Ordered(s) /\ Complete(ledger, s, n, proposal_base)
        /\ \A x \in 1..Len(s) : /\ s[x].block > n
                                /\ s[x].block <= proposal_base => Recorded(ledger, s[x])
                                /\ s[x].block > proposal_base <=> x = Len(s) /\ Booked
    BY <1>4, <1>7, AfterFacts
  <2>2. \A x \in 1..Len(s) : s[x].block \in Nat
    BY <2>1, ElementOfSeq, ThunkFields
  <2> QED
    BY <1>3, <1>6, <2>1, <2>2
<1>9. Log(ledger, s, n, proposal_base)
  BY <1>2, <1>3, <1>4, <1>8 DEF Log, Ordered
<1>10. Undoable(s)
  <2>1. DOMAIN s = 1..Len(s)
    BY <1>8
  <2> QED
    BY <1>2, <1>7, <2>1 DEF RewindAllowed, Undoable
<1>11. committed_offers' = ledger[n + 1].book
  <2>1. rollback_thunks(ledger[proposal_base + 1].book, s)[Len(s)] = ledger[n + 1].book
    BY <1>9, <1>10, Rewound
  <2> QED
    BY <1>2, <1>6, <1>7, <2>1
<1>12. junk' = FALSE
  BY <1>2, <1>6 DEF OInv, ThunksOrdered, TypeOK
<1>13. /\ marked' = {} /\ rollback_marks' = {} /\ uncommitted_offers' = {}
       /\ pc' = "idle" /\ blk' = NoBlock /\ last_committed' = n
  BY <1>1, <1>2, <1>6
<1> QED
  BY <1>2, <1>4, <1>5, <1>11, <1>12, <1>13, BackAt

LEMMA LogCommitmentStep ==
  ASSUME OInv, NEW n, LogCommitment(n)
  PROVE  OInv'
<1>1. /\ n \in (last_committed + 1)..proposal_base /\ last_committed' = n
      /\ committed_offers' = committed_offers /\ marked' = marked /\ pc' = pc /\ blk' = blk
      /\ proposal_base' = proposal_base /\ ledger' = ledger /\ thunks' = thunks /\ disk' = disk
      /\ persisted' = persisted
      /\ junk' = junk /\ rollback_marks' = rollback_marks /\ uncommitted_offers' = uncommitted_offers
  BY DEF LogCommitment, book_vars
<1>2. /\ proposal_base \in Nat /\ last_committed \in Nat /\ persisted \in Nat
      /\ persisted <= last_committed /\ last_committed <= proposal_base
  BY StateFacts
<1>3. n \in 0..proposal_base /\ persisted \in 0..n /\ last_committed # proposal_base
  BY <1>1, <1>2
<1>4. TypeOK'
  BY <1>1, <1>3 DEF OInv, ThunksOrdered, TypeOK
<1>5. ThunksOrdered' /\ PersistExact' /\ ~junk' /\ Shrinks(ledger)'
  BY <1>1, <1>4 DEF OInv, ThunksOrdered, PersistExact
<1>6. ThunksExact' /\ CancelsLowest'
  BY <1>1 DEF OInv, ThunksExact, CancelsLowest
<1>7. pc \notin {"vcommit", "vclear", "decide", "fail"}
  BY <1>3 DEF OInv, BlockInStep
<1>8. Lead' = Lead /\ Inserted' = Inserted /\ (Booked' <=> Booked) /\ TopThunk' = TopThunk
  BY <1>1 DEF Lead, Inserted, Booked, TopThunk
<1>9. (Running => Running') /\ (Opening => Opening')
  BY <1>1, <1>8 DEF Running, Opening
<1>10. BlockInStep'
  BY <1>1, <1>7, <1>8, <1>9 DEF OInv, BlockInStep
<1> QED
  BY <1>5, <1>6, <1>10 DEF OInv

-----------------------------------------------------------------------------
(* A block up to its clearing.                                             *)

\* The transactions of a block are applied.
LEMMA TxsStep ==
  ASSUME OInv, Allow = {}, pc = "idle", proposal_base < MaxBlock,
         NEW b \in BlockType, b.new \in News, b.cancels \in Cancels, CancelAllowed(b.cancels),
         marked' = b.cancels, blk' = b, pc' \in {"commit", "vcommit"},
         pc' = "commit" => b.key = Top /\ b.sell = 0 /\ rollback_marks' = {},
         pc' = "vcommit" => last_committed = proposal_base /\ rollback_marks' = Inserted',
         uncommitted_offers' = Inserted',
         UNCHANGED <<committed_offers, junk, thunks, proposal_base, last_committed, disk, persisted,
                     ledger>>
  PROVE  OInv'
<1>1. /\ committed_offers' = committed_offers /\ junk' = junk /\ thunks' = thunks
      /\ proposal_base' = proposal_base /\ last_committed' = last_committed /\ disk' = disk
      /\ persisted' = persisted /\ ledger' = ledger /\ Lead' = Lead
  BY DEF Lead
<1>2. /\ committed_offers = Lead.book /\ thunks \in Seq(Thunk) /\ DOMAIN thunks = 1..Len(thunks)
  <2>1. committed_offers = Lead.book
    BY DEF OInv, BlockInStep, Booked, Opening
  <2> QED
    BY <2>1, StateFacts
<1>3. b.new \subseteq Key /\ b.new \cap Lead.born = {}
  BY DEF News
<1>4. b.cancels \subseteq Key /\ \A k \in b.cancels : Lead.book[k] # 0
  BY <1>2 DEF Cancels, Offers
<1>5. Inserted' \subseteq Key
  BY <1>3 DEF Inserted
<1>6. TypeOK'
  <2>1. TypeOK
    BY DEF OInv, ThunksOrdered
  <2>2. b \in [new : SUBSET Key, cancels : SUBSET Key, key : 1..Top, sell : 0..Amount + 1]
    BY DEF BlockType
  <2>3. rollback_marks' \subseteq Key /\ uncommitted_offers' \subseteq Key /\ marked' \subseteq Key
    BY <1>4, <1>5
  <2>4. pc' \in {"idle", "commit", "clear", "vcommit", "vclear", "decide", "fail"}
    OBVIOUS
  <2> QED
    BY <1>1, <2>1, <2>2, <2>3, <2>4 DEF TypeOK
<1>7. ThunksOrdered' /\ PersistExact' /\ ~junk' /\ Shrinks(ledger)'
  <2>1. ThunksOrdered'
    BY <1>1, <1>6 DEF OInv, ThunksOrdered
  <2> QED
    BY <1>1, <2>1 DEF OInv, PersistExact
<1>8. ThunksExact'
  BY <1>1 DEF OInv, ThunksExact
<1>9. CancelsLowest'
  <2>1. \A k \in b.cancels, i \in 1..Len(thunks) : Lowest(k, thunks[i])
    BY <1>2 DEF CancelAllowed, Lowest
  <2> QED
    BY <1>1, <2>1 DEF OInv, CancelsLowest
<1>10. BlockInStep'
  <2>1. ~Booked'
    BY DEF Booked
  <2>2. Opening'
    BY <1>1, <1>2 DEF Opening
  <2> QED
    BY <1>1, <1>3, <1>4, <2>1, <2>2 DEF BlockInStep
<1> QED
  BY <1>7, <1>8, <1>9, <1>10 DEF OInv

LEMMA IdleFacts ==
  ASSUME OInv, pc = "idle"
  PROVE  /\ marked = {} /\ uncommitted_offers = {} /\ rollback_marks = {} /\ blk = NoBlock
         /\ committed_offers = Lead.book /\ ~Booked
BY DEF OInv, BlockInStep, Booked, Opening

LEMMA ProduceTxsStep ==
  ASSUME OInv, Allow = {}, NEW new \in News, NEW cancels \in Cancels, ProduceTxs(new, cancels)
  PROVE  OInv'
<1>1. PICK b : b = [NoBlock EXCEPT !.new = new, !.cancels = cancels]
  OBVIOUS
<1>2. b \in BlockType /\ b.new = new /\ b.cancels = cancels /\ b.key = Top /\ b.sell = 0
  <2>1. new \subseteq Key /\ cancels \subseteq Key
    BY DEF News, Cancels, Offers
  <2>2. Top \in 1..Top /\ 0 \in 0..Amount + 1
    BY Numbers DEF Top
  <2>3. b = [new |-> new, cancels |-> cancels, key |-> Top, sell |-> 0]
    BY <1>1 DEF NoBlock
  <2> QED
    BY <2>1, <2>2, <2>3 DEF BlockType
<1>3. /\ pc = "idle" /\ proposal_base < MaxBlock /\ CancelAllowed(cancels)
      /\ uncommitted_offers' = uncommitted_offers \cup new /\ marked' = marked \cup cancels
      /\ blk' = b /\ pc' = "commit"
      /\ UNCHANGED <<committed_offers, rollback_marks, junk, thunks,
                     proposal_base, last_committed, disk, persisted, ledger>>
  BY <1>1 DEF ProduceTxs
<1>4. marked = {} /\ uncommitted_offers = {} /\ rollback_marks = {}
  BY <1>3, IdleFacts
<1>5. Inserted' = new
  BY <1>2, <1>3 DEF Inserted
<1>6. marked' = b.cancels /\ uncommitted_offers' = Inserted' /\ rollback_marks' = {}
  BY <1>2, <1>3, <1>4, <1>5
<1> QED
  BY <1>2, <1>3, <1>6, TxsStep

LEMMA ValidateTxsStep ==
  ASSUME OInv, Allow = {}, NEW b \in [new : News, cancels : Cancels, key : 1..Top, sell : 0..Amount + 1],
         ValidateTxs(b)
  PROVE  OInv'
<1>1. b \in BlockType /\ b.new \in News /\ b.cancels \in Cancels
  BY DEF BlockType, News, Cancels, Offers
<1>2. PICK ins : ins = {k \in b.new : k >= b.key}
  OBVIOUS
<1>3. /\ pc = "idle" /\ last_committed = proposal_base /\ proposal_base < MaxBlock
      /\ CancelAllowed(b.cancels)
      /\ uncommitted_offers' = uncommitted_offers \cup ins
      /\ rollback_marks' = rollback_marks \cup ins
      /\ marked' = marked \cup b.cancels /\ blk' = b /\ pc' = "vcommit"
      /\ UNCHANGED <<committed_offers, junk, thunks, proposal_base,
                     last_committed, disk, persisted, ledger>>
  BY <1>2 DEF ValidateTxs
<1>4. marked = {} /\ uncommitted_offers = {} /\ rollback_marks = {}
  BY <1>3, IdleFacts
<1>5. Inserted' = ins
  BY <1>2, <1>3 DEF Inserted
<1>6. marked' = b.cancels /\ uncommitted_offers' = Inserted' /\ rollback_marks' = Inserted'
  BY <1>3, <1>4, <1>5
<1> QED
  BY <1>1, <1>3, <1>6, TxsStep

\* A thunk is opened.
LEMMA OpenedThunk ==
  ASSUME NEW n \in 1..MaxBlock, NEW new \in SUBSET Key, NEW b \in Book, NEW del \in SUBSET Key,
         NEW t, t = NewThunk(n, new, Only(b, del))
  PROVE  /\ t \in Thunk /\ t.block = n /\ t.uncommitted_offers_vec = new /\ Unset(t)
         /\ \A k \in Key : t.deleted_keys[k] = IF k \in del THEN b[k] ELSE 0
         /\ \A k \in Key : merge_in(Without(b, del), Fresh(new))[k] = Met(b, t, k)
         /\ merge_in(Without(b, del), Fresh(new)) \in Book
<1>1. PICK o : o = Only(b, del)
  OBVIOUS
<1>2. o \in Book /\ \A k \in Key : o[k] = IF k \in del THEN b[k] ELSE 0
  BY <1>1, Numbers DEF Only, Book
<1>3. EmptyBook \in Book /\ 1 \in 1..Top
  BY Numbers DEF EmptyBook, Book, Top
<1>4. t = [block |-> n, uncommitted_offers_vec |-> new, deleted_keys |-> o,
           cleared_offers |-> EmptyBook, partial_exec_key |-> 1,
           partial_exec_amount |-> 0, preexecute |-> 0, exists_partial_exec |-> "unset"]
  BY <1>1 DEF NewThunk
<1>5. t \in Thunk
  BY <1>2, <1>3, <1>4, Numbers DEF Thunk
<1>6. t.block = n /\ t.uncommitted_offers_vec = new /\ t.deleted_keys = o /\ Unset(t)
  BY <1>4 DEF Unset
<1>7. PICK m : m = merge_in(Without(b, del), Fresh(new))
  OBVIOUS
<1>8. m = [k \in Key |-> IF k \in new THEN Amount ELSE IF k \in del THEN 0 ELSE b[k]]
  <2>1. \A k \in Key : k \in Key \ del <=> k \notin del
    OBVIOUS
  <2> QED
    BY <1>7, <2>1, Numbers DEF merge_in, Without, Only, Fresh
<1>9. m \in Book
  BY <1>8, Numbers DEF Book
<1>10. \A k \in Key : m[k] = Met(b, t, k)
  BY <1>2, <1>6, <1>8 DEF Met
<1> QED
  BY <1>2, <1>5, <1>6, <1>7, <1>9, <1>10

LEMMA TentativeCommitStep ==
  ASSUME OInv, TentativeCommit
  PROVE  OInv'
<1>1. PICK t : t = NewThunk(proposal_base + 1, uncommitted_offers, Only(committed_offers, marked))
  OBVIOUS
<1>2. /\ pc \in {"commit", "vcommit"} /\ thunks' = Append(thunks, t)
      /\ committed_offers' = merge_in(Without(committed_offers, marked), Fresh(uncommitted_offers))
      /\ marked' = {} /\ uncommitted_offers' = {}
      /\ pc' = IF pc = "commit" THEN "clear" ELSE "vclear"
      /\ UNCHANGED <<rollback_marks, junk, blk, proposal_base, last_committed, disk, persisted, ledger>>
  BY <1>1 DEF TentativeCommit
<1>3. /\ proposal_base \in Nat /\ persisted \in Nat /\ persisted <= last_committed
      /\ last_committed \in Nat /\ last_committed <= proposal_base
      /\ thunks \in Seq(Thunk) /\ Len(thunks) \in Nat /\ Ordered(thunks) /\ LowestDeleted(thunks)
      /\ \A i \in 1..Len(thunks) : thunks[i].block \in Nat
  BY StateFacts
<1>4. /\ committed_offers = Lead.book /\ marked = blk.cancels /\ uncommitted_offers = Inserted
      /\ proposal_base < MaxBlock /\ ~Booked
      /\ pc = "commit" => rollback_marks = {}
      /\ pc = "vcommit" => rollback_marks = Inserted
  BY <1>2 DEF OInv, BlockInStep, Booked, Opening
<1>5. TypeOK
  BY DEF OInv, ThunksOrdered
<1>6. /\ proposal_base + 1 \in 1..MaxBlock /\ uncommitted_offers \in SUBSET Key
      /\ committed_offers \in Book /\ marked \in SUBSET Key
  BY <1>3, <1>4, <1>5, Numbers DEF TypeOK
<1>7. /\ t \in Thunk /\ t.block = proposal_base + 1 /\ t.uncommitted_offers_vec = uncommitted_offers
      /\ Unset(t)
      /\ \A k \in Key : t.deleted_keys[k] = IF k \in marked THEN committed_offers[k] ELSE 0
      /\ \A k \in Key : committed_offers'[k] = Met(committed_offers, t, k)
      /\ committed_offers' \in Book
  BY <1>1, <1>2, <1>6, OpenedThunk
<1>8. PICK n \in Nat : n = Len(thunks)
  BY <1>3
<1>9. PICK s : s = Append(thunks, t)
  OBVIOUS
<1>10. /\ s \in Seq(Thunk) /\ Len(s) = n + 1 /\ s[n + 1] = t /\ DOMAIN s = 1..(n + 1)
       /\ \A i \in 1..n : s[i] = thunks[i]
       /\ \A i \in 1..(n + 1) : i = n + 1 \/ i \in 1..n
  BY <1>3, <1>7, <1>8, <1>9, AppendProperties
<1>11. \A i \in 1..n : thunks[i].block <= proposal_base /\ persisted < thunks[i].block
  <2>1. \A i \in 1..n : ~(thunks[i].block > proposal_base) /\ persisted < thunks[i].block
    <3>1. DOMAIN thunks = 1..n
      BY <1>3, <1>8
    <3> QED
      BY <1>4, <3>1 DEF OInv, ThunksOrdered, Booked
  <2> QED
    BY <1>3, <1>8, <2>1
<1>12. /\ junk' = junk /\ blk' = blk /\ proposal_base' = proposal_base /\ last_committed' = last_committed
       /\ disk' = disk /\ persisted' = persisted /\ ledger' = ledger /\ rollback_marks' = rollback_marks
       /\ thunks' = s /\ Lead' = Lead
  BY <1>2, <1>9 DEF Lead
<1>13. TypeOK'
  <2>1. pc' \in {"idle", "commit", "clear", "vcommit", "vclear", "decide", "fail"}
    BY <1>2
  <2> QED
    BY <1>2, <1>5, <1>7, <1>10, <1>12, <2>1 DEF TypeOK
<1>14. pc' \in {"clear", "vclear"} /\ Booked'
  BY <1>2 DEF Booked
<1>15. ThunksOrdered'
  <2>1. \A i \in DOMAIN s : persisted < s[i].block
    BY <1>3, <1>7, <1>10, <1>11
  <2>2. \A i, j \in DOMAIN s : i < j => s[i].block < s[j].block
    <3>1. \A i, j \in 1..n : i < j => s[i].block < s[j].block
      BY <1>3, <1>8, <1>10 DEF Ordered
    <3>2. \A i \in 1..n : s[i].block < s[n + 1].block
      BY <1>3, <1>7, <1>8, <1>10, <1>11
    <3>3. \A i, j \in 1..(n + 1) : i < j => i \in 1..n
      OBVIOUS
    <3> QED
      BY <1>10, <3>1, <3>2, <3>3
  <2>3. \A i \in DOMAIN s : s[i].block > proposal_base <=> i = n + 1
    BY <1>3, <1>7, <1>8, <1>10, <1>11
  <2>4. s # <<>>
    BY <1>8, <1>10
  <2> QED
    BY <1>10, <1>12, <1>13, <1>14, <2>1, <2>2, <2>3, <2>4 DEF ThunksOrdered
<1>16. PersistExact' /\ ~junk' /\ Shrinks(ledger)'
  BY <1>12 DEF OInv, PersistExact
<1>17. ThunksExact'
  <2>1. \A i \in 1..Len(s) : s[i].block <= proposal_base => Recorded(ledger, s[i])
    <3>1. ~(t.block <= proposal_base)
      BY <1>3, <1>7
    <3> QED
      BY <1>8, <1>10, <3>1 DEF OInv, ThunksExact
  <2>2. Complete(ledger, s, persisted, proposal_base)
    <3>1. Complete(ledger, thunks, persisted, proposal_base)
      BY DEF OInv, ThunksExact
    <3>2. \A i \in 1..Len(thunks) : \E x \in 1..Len(s) : s[x] = thunks[i]
      BY <1>8, <1>10
    <3>3. persisted \in persisted..proposal_base /\ proposal_base \in persisted..proposal_base
      BY <1>3
    <3> QED
      BY <1>3, <3>1, <3>2, <3>3, SelectedComplete
  <2> QED
    BY <1>12, <2>1, <2>2 DEF ThunksExact
<1>18. CancelsLowest'
  <2>1. \A i \in 1..n, k \in Key : t.deleted_keys[k] # 0 => Lowest(k, thunks[i])
    BY <1>7, <1>8 DEF OInv, CancelsLowest
  <2>2. LowestDeleted(s)
    <3> SUFFICES ASSUME NEW i \in 1..Len(s), NEW j \in 1..Len(s), NEW k \in Key, i < j,
                        s[j].deleted_keys[k] # 0
                 PROVE  Lowest(k, s[i])
      BY DEF LowestDeleted
    <3>1. i \in 1..n /\ s[i] = thunks[i]
      BY <1>10
    <3>2. CASE j = n + 1
      BY <1>10, <2>1, <3>1, <3>2
    <3>3. CASE j \in 1..n
      BY <1>3, <1>8, <1>10, <3>1, <3>3 DEF LowestDeleted
    <3> QED
      BY <1>10, <3>2, <3>3
  <2> QED
    BY <1>2, <1>12, <2>2 DEF CancelsLowest
<1>19. Running'
  <2>1. TopThunk' = t
    BY <1>10, <1>12 DEF TopThunk
  <2>2. Inserted' = Inserted
    BY <1>2, <1>12 DEF Inserted
  <2>3. pc' = "clear" => rollback_marks = {}
    BY <1>2, <1>4
  <2>4. pc' = "vclear" => rollback_marks = Inserted
    BY <1>2, <1>4
  <2>5. rollback_marks \subseteq Inserted
    BY <1>2, <1>4
  <2> QED
    BY <1>2, <1>4, <1>7, <1>12, <1>14, <2>1, <2>2, <2>3, <2>4, <2>5 DEF Running
<1>20. BlockInStep'
  BY <1>2, <1>12, <1>14, <1>19 DEF OInv, BlockInStep
<1> QED
  BY <1>15, <1>16, <1>17, <1>18, <1>20 DEF OInv

LEMMA TentativeClearFailsStep ==
  ASSUME OInv, TentativeClearFails \/ TentativeClearSkipped
  PROVE  OInv'
<1>1. /\ pc = "vclear" /\ pc' = "fail" /\ rollback_marks' \subseteq rollback_marks
      /\ committed_offers' = committed_offers /\ marked' = marked /\ blk' = blk
      /\ proposal_base' = proposal_base /\ ledger' = ledger /\ thunks' = thunks /\ disk' = disk
      /\ persisted' = persisted /\ last_committed' = last_committed
      /\ junk' = junk /\ uncommitted_offers' = uncommitted_offers
  BY DEF TentativeClearFails, TentativeClearSkipped, book_vars
<1>2. TypeOK'
  BY <1>1 DEF OInv, ThunksOrdered, TypeOK
<1>3. ThunksOrdered' /\ PersistExact' /\ ~junk' /\ Shrinks(ledger)'
  BY <1>1, <1>2 DEF OInv, ThunksOrdered, PersistExact
<1>4. ThunksExact' /\ CancelsLowest'
  BY <1>1 DEF OInv, ThunksExact, CancelsLowest
<1>5. Lead' = Lead /\ Inserted' = Inserted /\ Booked /\ Booked' /\ TopThunk' = TopThunk
  BY <1>1 DEF Lead, Inserted, Booked, TopThunk
<1>6. Running
  BY <1>5 DEF OInv, BlockInStep
<1>7. Running'
  BY <1>1, <1>5, <1>6 DEF Running
<1>8. BlockInStep'
  BY <1>1, <1>5, <1>7 DEF OInv, BlockInStep
<1> QED
  BY <1>3, <1>4, <1>8 DEF OInv

-----------------------------------------------------------------------------
(* Clearing, and the end of a block.                                       *)

LEMMA ClearedClosed ==
  ASSUME NEW e, Sound(e), NEW t \in Thunk, Opened(e, t), committed_offers \in Book,
         \A k \in Key : committed_offers[k] = Met(e.book, t, k),
         NEW key \in 1..Top, NEW sell \in Nat,
         key # Top => committed_offers[key] # 0 /\ sell <= committed_offers[key],
         NEW u, u = ClearedThunk(t, key, sell), NEW c, c = ClearedBook(key, sell)
  PROVE  /\ u \in Thunk /\ u.block = t.block /\ u.uncommitted_offers_vec = t.uncommitted_offers_vec
         /\ u.deleted_keys = t.deleted_keys /\ u.partial_exec_key = key
         /\ Partial(u) => u.partial_exec_amount = sell
         /\ c \in Book /\ Opened(e, u) /\ Closed(e.book, u, c)
<1>1. PICK b \in Book : b = committed_offers
  OBVIOUS
<1>2. PICK o : o = Only(b, Below(key))
  OBVIOUS
<1>3. key \in Nat /\ \A k \in Key : k \in Nat /\ (k \in Below(key) <=> k < key) /\ b[k] \in Nat /\ b[k] <= Amount
  BY Numbers, BookValues DEF Below
<1>4. o \in Book /\ \A k \in Key : o[k] = IF k < key THEN b[k] ELSE 0
  BY <1>2, <1>3, Numbers DEF Only, Book
<1>5. c = [k \in Key |-> IF k = key THEN (IF k < key THEN 0 ELSE b[k]) - sell
                         ELSE IF k < key THEN 0 ELSE b[k]]
  <2>1. \A k \in Key : k \in Key \ Below(key) <=> ~(k < key)
    BY <1>3
  <2> QED
    BY <1>1, <1>3, <2>1 DEF ClearedBook, Sell, Without, Only
<1>6. \A k \in Key : c[k] = IF k < key THEN 0 ELSE IF k = key THEN b[k] - sell ELSE b[k]
  BY <1>3, <1>5
<1>7. key # Top => key \in Key
  BY <1>3, Numbers DEF Key, Top
<1>8. \A k \in Key : c[k] \in 0..Amount
  BY <1>1, <1>3, <1>6, <1>7, Numbers
<1>9. c \in Book
  BY <1>5, <1>8 DEF Book
<1>10. \A k \in Key : b[k] = Met(e.book, t, k)
  BY <1>1
<1>11. CASE key = Top
  <2>1. u = [t EXCEPT !.exists_partial_exec = "no", !.partial_exec_key = Top, !.cleared_offers = o]
    BY <1>1, <1>2, <1>11 DEF ClearedThunk, set_no_partial_exec
  <2>2. /\ u \in Thunk /\ u.block = t.block /\ u.uncommitted_offers_vec = t.uncommitted_offers_vec
        /\ u.deleted_keys = t.deleted_keys /\ u.partial_exec_key = Top /\ u.cleared_offers = o
        /\ u.exists_partial_exec = "no"
    BY <1>4, <1>11, <2>1 DEF Thunk
  <2>3. ~Partial(u)
    BY <2>2 DEF Partial
  <2>4. Opened(e, u)
    BY <2>2 DEF Opened
  <2>5. \A k \in Key : Met(e.book, u, k) = b[k]
    BY <1>10, <2>2 DEF Met
  <2>6. Closed(e.book, u, c)
    BY <1>4, <1>6, <1>11, <2>2, <2>3, <2>5, Numbers DEF Closed
  <2> QED
    BY <1>9, <1>11, <2>2, <2>3, <2>4, <2>6
<1>12. CASE key # Top
  <2>1. PICK p : p = b[key]
    OBVIOUS
  <2>2. p \in 0..Amount /\ sell \in 0..Amount /\ p # 0 /\ sell <= p /\ key \in Key
    BY <1>1, <1>3, <1>7, <1>12, <2>1, Numbers
  <2>3. u = [t EXCEPT !.exists_partial_exec = "yes", !.partial_exec_key = key,
                      !.partial_exec_amount = sell, !.preexecute = p, !.cleared_offers = o]
    BY <1>1, <1>2, <1>12, <2>1 DEF ClearedThunk, set_partial_exec
  <2>4. /\ u \in Thunk /\ u.block = t.block /\ u.uncommitted_offers_vec = t.uncommitted_offers_vec
        /\ u.deleted_keys = t.deleted_keys /\ u.partial_exec_key = key /\ u.cleared_offers = o
        /\ u.exists_partial_exec = "yes" /\ u.partial_exec_amount = sell /\ u.preexecute = p
    BY <1>4, <2>2, <2>3, ZenonT(40) DEF Thunk
  <2>5. Partial(u)
    BY <2>4 DEF Partial
  <2>6. Opened(e, u)
    BY <2>4 DEF Opened
  <2>7. \A k \in Key : Met(e.book, u, k) = b[k]
    BY <1>10, <2>4 DEF Met
  <2>8. Closed(e.book, u, c)
    BY <1>4, <1>6, <2>1, <2>2, <2>4, <2>5, <2>7 DEF Closed
  <2> QED
    BY <1>9, <2>4, <2>5, <2>6, <2>8
<1> QED
  BY <1>11, <1>12

\* The block as the ledger knows it.
LEMMA ExecutedClosed ==
  ASSUME NEW e, Sound(e), NEW t \in Thunk, NEW c \in Book, Closed(e.book, t, c),
         NEW bl \in BlockType, bl.key = t.partial_exec_key,
         Partial(t) => bl.sell = t.partial_exec_amount,
         \A k \in Key : k >= bl.key => (k \in t.uncommitted_offers_vec <=> k \in bl.new),
         \A k \in Key : t.deleted_keys[k] = IF k \in bl.cancels THEN e.book[k] ELSE 0
  PROVE  Executed(e.book, bl) = c
<1>1. PICK b \in Book : b = e.book
  BY DEF Sound, Entry
<1>2. PICK key \in Nat : key = bl.key /\ key = t.partial_exec_key
  BY Numbers DEF BlockType
<1>3. \A k \in Key : k \in Nat /\ (k \in Key \ Below(key) <=> ~(k < key)) /\ k < Top
  BY Numbers DEF Below
<1>4. PICK m : m = merge_in(Without(b, bl.cancels), Fresh(bl.new))
  OBVIOUS
<1>5. \A k \in Key : m[k] = IF k \in bl.new THEN Amount ELSE IF k \in bl.cancels THEN 0 ELSE b[k]
  <2>1. \A k \in Key : k \in Key \ bl.cancels <=> k \notin bl.cancels
    OBVIOUS
  <2> QED
    BY <1>4, <2>1, Numbers DEF merge_in, Without, Only, Fresh
<1>6. PICK x : x = Executed(b, bl)
  OBVIOUS
<1>7. x = [k \in Key |-> IF k = key THEN (IF k < key THEN 0 ELSE m[k]) - bl.sell
                         ELSE IF k < key THEN 0 ELSE m[k]]
  BY <1>2, <1>3, <1>4, <1>6 DEF Executed, Sell, Without, Only
<1>8. \A k \in Key : x[k] = IF k < key THEN 0 ELSE IF k = key THEN m[k] - bl.sell ELSE m[k]
  BY <1>3, <1>7
<1>9. \A k \in Key : k >= key => m[k] = Met(b, t, k)
  BY <1>1, <1>2, <1>3, <1>5 DEF Met
<1>10. ASSUME NEW k \in Key PROVE x[k] = c[k]
  <2>1. c[k] = IF k < key THEN 0 ELSE IF k = key THEN Met(b, t, k) - t.partial_exec_amount ELSE Met(b, t, k)
    BY <1>1, <1>2 DEF Closed
  <2>2. k = key => Partial(t)
    BY <1>2, <1>3 DEF Closed
  <2> QED
    BY <1>2, <1>3, <1>8, <1>9, <2>1, <2>2
<1>11. x = [k \in Key |-> x[k]] /\ c = [k \in Key |-> c[k]]
  BY <1>7 DEF Book
<1>12. x = c
  BY <1>10, <1>11, SameBook
<1> QED
  BY <1>1, <1>6, <1>12

\* The ledger grows.
LEMMA ShrinksAppend ==
  ASSUME NEW L \in Seq(Entry), Shrinks(L), NEW n \in Nat, Len(L) = n + 1, NEW e, Sound(e),
         \A k \in L[n + 1].born : k \in e.born /\ e.book[k] <= L[n + 1].book[k]
  PROVE  /\ Append(L, e) \in Seq(Entry) /\ Len(Append(L, e)) = n + 2 /\ Append(L, e)[n + 2] = e
         /\ \A i \in 1..(n + 1) : Append(L, e)[i] = L[i]
         /\ Shrinks(Append(L, e))
<1>1. PICK M : M = Append(L, e)
  OBVIOUS
<1>2. /\ M \in Seq(Entry) /\ Len(M) = n + 2 /\ M[n + 2] = e /\ \A i \in 1..(n + 1) : M[i] = L[i]
  <2>1. e \in Entry
    BY DEF Sound
  <2> QED
    BY <1>1, <2>1, AppendProperties
<1>3. \A i \in 1..(n + 2) : i = n + 2 \/ i \in 1..(n + 1)
  OBVIOUS
<1>4. \A i \in 1..(n + 1), k \in Key : L[i].book[k] \in Nat
  BY LogEntry
<1>5. \A k \in Key : e.book[k] \in Nat /\ (e.book[k] # 0 => k \in e.born)
  BY BookValues DEF Sound, Entry
<1>6. \A i \in 1..Len(M), k \in Key : M[i].book[k] # 0 => k \in M[i].born
  BY <1>2, <1>3, <1>5 DEF Shrinks
<1>7. ASSUME NEW i \in 1..Len(M), NEW j \in 1..Len(M), NEW k \in Key, i <= j, k \in M[i].born
      PROVE  k \in M[j].born /\ M[j].book[k] <= M[i].book[k]
  <2>1. CASE j \in 1..(n + 1)
    <3>1. i \in 1..(n + 1)
      BY <1>2, <1>7, <2>1
    <3> QED
      BY <1>2, <1>7, <2>1, <3>1 DEF Shrinks
  <2>2. CASE j = n + 2 /\ i \in 1..(n + 1)
    <3>1. n + 1 \in 1..(n + 1) /\ i <= n + 1 /\ M[i] = L[i] /\ M[j] = e
      BY <1>2, <2>2
    <3>2. k \in L[n + 1].born /\ L[n + 1].book[k] <= L[i].book[k]
      BY <1>7, <2>2, <3>1 DEF Shrinks
    <3>3. k \in e.born /\ e.book[k] <= L[n + 1].book[k]
      BY <3>2
    <3>4. L[i].book[k] \in Nat /\ L[n + 1].book[k] \in Nat /\ e.book[k] \in Nat
      BY <1>4, <1>5, <2>2, <3>1
    <3> QED
      BY <3>1, <3>2, <3>3, <3>4
  <2>3. CASE j = n + 2 /\ i = n + 2
    BY <1>2, <1>5, <1>7, <2>3
  <2> QED
    BY <1>2, <1>3, <2>1, <2>2, <2>3
<1>8. Shrinks(M)
  BY <1>6, <1>7 DEF Shrinks
<1> QED
  BY <1>1, <1>2, <1>8

LEMMA CompleteAppend ==
  ASSUME NEW L, NEW M, NEW n \in Nat, NEW lo \in 0..n, NEW ts, NEW s, Complete(L, ts, lo, n),
         \A i \in 1..(n + 1) : M[i] = L[i],
         \A i \in 1..Len(ts) : ts[i].block <= n => \E x \in 1..Len(s) : s[x] = ts[i],
         \A i \in 1..Len(ts) : ts[i].block \in Nat,
         \A k \in Key : Untouched(s, k, n, n + 1) => M[n + 2].book[k] = M[n + 1].book[k]
  PROVE  Complete(M, s, lo, n + 1)
<1>1. Complete(L, s, lo, n)
  <2>1. \A i \in 1..Len(ts) : ts[i].block \in (lo + 1)..n => \E x \in 1..Len(s) : s[x] = ts[i]
    OBVIOUS
  <2>2. lo \in Nat /\ lo \in lo..n /\ n \in lo..n
    OBVIOUS
  <2> QED
    BY <2>1, <2>2, SelectedComplete
<1>2. ASSUME NEW a \in lo..(n + 1), NEW b \in lo..(n + 1), NEW k \in Key, a <= b, Untouched(s, k, a, b)
      PROVE  M[a + 1].book[k] = M[b + 1].book[k]
  <2>1. CASE b <= n
    <3>1. a \in lo..n /\ b \in lo..n /\ a + 1 \in 1..(n + 1) /\ b + 1 \in 1..(n + 1)
      BY <1>2, <2>1
    <3>2. L[a + 1].book[k] = L[b + 1].book[k]
      BY <1>1, <1>2, <3>1 DEF Complete
    <3> QED
      BY <3>1, <3>2
  <2>2. CASE b = n + 1 /\ a <= n
    <3>1. a \in lo..n /\ n \in lo..n /\ a + 1 \in 1..(n + 1) /\ n + 1 \in 1..(n + 1) /\ b + 1 = n + 2
      BY <1>2, <2>2
    <3>2. Untouched(s, k, a, n) /\ Untouched(s, k, n, n + 1)
      <4>1. \A x : x \in (a + 1)..n \/ x \in (n + 1)..(n + 1) => x \in (a + 1)..b
        BY <2>2, <3>1
      <4> QED
        BY <1>2, <4>1 DEF Untouched
    <3>3. L[a + 1].book[k] = L[n + 1].book[k]
      BY <1>1, <3>1, <3>2 DEF Complete
    <3> QED
      BY <3>1, <3>2, <3>3
  <2>3. CASE b = n + 1 /\ a = n + 1
    BY <2>3
  <2> QED
    BY <1>2, <2>1, <2>2, <2>3
<1> QED
  BY <1>2 DEF Complete

\* The thunk on top is replaced by one that differs in its clearing only.
LEMMA TopReplaced ==
  ASSUME OInv, Booked, NEW t \in Thunk, t.block = proposal_base + 1, t.block = TopThunk.block,
         t.uncommitted_offers_vec = TopThunk.uncommitted_offers_vec,
         t.deleted_keys = TopThunk.deleted_keys, NEW s, s = SetTop(t)
  PROVE  /\ s \in Seq(Thunk) /\ Len(s) = Len(thunks) /\ s[Len(thunks)] = t /\ s # <<>>
         /\ Len(thunks) \in 1..Len(thunks)
         /\ \A i \in 1..Len(thunks) : /\ i # Len(thunks) => s[i] = thunks[i]
                                      /\ s[i].block = thunks[i].block /\ s[i].block \in Nat
                                      /\ s[i].block > proposal_base <=> i = Len(thunks)
         /\ Ordered(s) /\ LowestDeleted(s)
<1>1. /\ thunks \in Seq(Thunk) /\ Ordered(thunks) /\ LowestDeleted(thunks) /\ proposal_base \in Nat
      /\ \A i \in 1..Len(thunks) : thunks[i].block \in Nat
  BY StateFacts
<1>2. PICK n \in Nat : n = Len(thunks)
  BY <1>1
<1>3. n \in 1..n /\ TopThunk = thunks[n] /\ \A i \in 1..n : i # n => thunks[i].block <= proposal_base
  BY <1>2, TopFacts DEF TopThunk
<1>4. s = [thunks EXCEPT ![n] = t]
  BY <1>2 DEF SetTop
<1>5. s \in Seq(Thunk) /\ Len(s) = n /\ s[n] = t /\ \A i \in 1..n : i # n => s[i] = thunks[i]
  BY <1>1, <1>2, <1>3, <1>4, ExceptSeq
<1>6. \A i \in 1..n : /\ s[i].block = thunks[i].block /\ s[i].deleted_keys = thunks[i].deleted_keys
                      /\ s[i].uncommitted_offers_vec = thunks[i].uncommitted_offers_vec
  BY <1>3, <1>5
<1>7. \A i \in 1..n : s[i].block > proposal_base <=> i = n
  BY <1>1, <1>2, <1>3, <1>5, <1>6
<1>8. \A i \in 1..n : \A k : Lowest(k, s[i]) <=> Lowest(k, thunks[i])
  BY <1>6 DEF Lowest
<1>9. Ordered(s)
  BY <1>1, <1>2, <1>5, <1>6 DEF Ordered
<1>10. LowestDeleted(s)
  <2> SUFFICES ASSUME NEW i \in 1..n, NEW j \in 1..n, NEW k \in Key, i < j, s[j].deleted_keys[k] # 0
               PROVE  Lowest(k, s[i])
    BY <1>5 DEF LowestDeleted
  <2>1. thunks[j].deleted_keys[k] # 0
    BY <1>6
  <2>2. Lowest(k, thunks[i])
    BY <1>1, <1>2, <2>1 DEF LowestDeleted
  <2> QED
    BY <1>8, <2>2
<1>11. s # <<>>
  BY <1>3, <1>5
<1> QED
  BY <1>1, <1>2, <1>3, <1>5, <1>6, <1>7, <1>8, <1>9, <1>10, <1>11

\* A block ends, and its thunk says what it did.
LEMMA Finished ==
  ASSUME OInv, Booked, NEW t \in Thunk, t.block = proposal_base + 1,
         t.uncommitted_offers_vec = TopThunk.uncommitted_offers_vec,
         t.deleted_keys = TopThunk.deleted_keys,
         Opened(Lead, t), NEW c \in Book, Closed(Lead.book, t, c),
         NEW new \in SUBSET Key, t.uncommitted_offers_vec \subseteq new, new \cap Lead.born = {},
         thunks' = SetTop(t), committed_offers' = c,
         ledger' = Append(ledger, [book |-> c, born |-> Lead.born \cup new]),
         proposal_base' = proposal_base + 1, last_committed' \in last_committed..(proposal_base + 1),
         pc' = "idle", blk' = NoBlock, marked' = marked, uncommitted_offers' = uncommitted_offers,
         rollback_marks' = {}, junk' = junk, disk' = disk, persisted' = persisted
  PROVE  OInv'
<1>1. /\ proposal_base \in Nat /\ last_committed \in Nat /\ persisted \in Nat
      /\ persisted <= last_committed /\ last_committed <= proposal_base
      /\ Len(ledger) = proposal_base + 1 /\ ledger \in Seq(Entry) /\ Shrinks(ledger)
      /\ Sound(Lead) /\ Lead.book \in Book /\ Lead.born \subseteq Key /\ Len(thunks) \in Nat
      /\ \A i \in 1..Len(thunks) : thunks[i].block \in Nat
  BY StateFacts
<1>2. /\ marked = {} /\ uncommitted_offers = {} /\ proposal_base < MaxBlock
      /\ TopThunk.block = proposal_base + 1
  BY DEF OInv, BlockInStep, Running, Booked
<1>3. PICK e : e = [book |-> c, born |-> Lead.born \cup new]
  OBVIOUS
<1>4. e \in Entry /\ e.book = c /\ e.born = Lead.born \cup new
  BY <1>1, <1>3 DEF Entry
<1>5. ASSUME NEW k \in Key
      PROVE  /\ c[k] # 0 => k \in e.born
             /\ k \in Lead.born => c[k] <= Lead.book[k]
  <2>1. PICK m : m = Met(Lead.book, t, k)
    OBVIOUS
  <2>2. /\ Lead.book[k] \in Nat /\ m \in Nat
        /\ k \notin t.uncommitted_offers_vec => m <= Lead.book[k]
    <3>1. Lead.book[k] \in Nat /\ m \in Nat
      BY <1>1, <2>1, MetValue
    <3> QED
      BY <2>1, <3>1 DEF Met
  <2>3. c[k] \in Nat /\ c[k] <= m
    <3>1. c[k] = IF k < t.partial_exec_key THEN 0
                 ELSE IF k = t.partial_exec_key THEN m - t.partial_exec_amount ELSE m
      BY <2>1 DEF Closed
    <3>2. t.partial_exec_amount \in Nat /\ c[k] \in Nat
      BY ThunkFields, BookValues
    <3> QED
      BY <2>2, <3>1, <3>2
  <2>4. k \in Lead.born => k \notin t.uncommitted_offers_vec
    BY DEF Opened
  <2>5. Lead.book[k] # 0 => k \in Lead.born
    BY <1>1 DEF Sound
  <2> QED
    BY <1>4, <2>2, <2>3, <2>4, <2>5
<1>6. Sound(e)
  BY <1>4, <1>5 DEF Sound
<1>7. PICK n \in Nat : n = proposal_base
  BY <1>1
<1>8. PICK M : M = Append(ledger, e)
  OBVIOUS
<1>9. /\ M \in Seq(Entry) /\ Len(M) = n + 2 /\ M[n + 2] = e
      /\ \A i \in 1..(n + 1) : M[i] = ledger[i]
      /\ Shrinks(M)
  <2>1. \A k \in ledger[n + 1].born : k \in e.born /\ e.book[k] <= ledger[n + 1].book[k]
    BY <1>1, <1>4, <1>5, <1>7 DEF Lead
  <2> QED
    BY <1>1, <1>6, <1>7, <1>8, <2>1, ShrinksAppend
<1>10. PICK s : s = SetTop(t)
  OBVIOUS
<1>11. /\ s \in Seq(Thunk) /\ Len(s) = Len(thunks) /\ s[Len(thunks)] = t /\ s # <<>>
       /\ Len(thunks) \in 1..Len(thunks)
       /\ \A i \in 1..Len(thunks) : /\ i # Len(thunks) => s[i] = thunks[i]
                                    /\ s[i].block = thunks[i].block /\ s[i].block \in Nat
                                    /\ s[i].block > proposal_base <=> i = Len(thunks)
       /\ Ordered(s) /\ LowestDeleted(s)
  BY <1>2, <1>10, TopReplaced
<1>12. /\ thunks' = s /\ ledger' = M /\ proposal_base' = n + 1 /\ Lead' = e
  <2>1. (n + 1) + 1 = n + 2
    BY <1>7
  <2> QED
    BY <1>3, <1>7, <1>8, <1>9, <1>10, <2>1 DEF Lead
<1>13. TypeOK'
  <2>1. /\ n + 1 \in 0..MaxBlock /\ last_committed' \in 0..(n + 1) /\ persisted \in 0..last_committed'
        /\ Len(M) = (n + 1) + 1
    BY <1>1, <1>2, <1>7, <1>9, Numbers
  <2>2. TypeOK
    BY DEF OInv, ThunksOrdered
  <2>3. M \in Seq([book : Book, born : SUBSET Key])
    BY <1>9 DEF Entry
  <2>4. disk \in Book /\ junk \in BOOLEAN /\ {} \subseteq Key
    BY <2>2 DEF TypeOK
  <2> QED
    BY <1>2, <1>11, <1>12, <2>1, <2>3, <2>4, NoBlockType, Zenon DEF TypeOK, BlockType
<1>14. \A i \in 1..Len(thunks) : s[i].block <= n + 1 /\ persisted < s[i].block
  <2>1. \A i \in 1..Len(thunks) : i # Len(thunks) => s[i].block <= n
    BY <1>1, <1>7, <1>11
  <2>2. s[Len(thunks)].block = n + 1
    BY <1>7, <1>11
  <2>3. \A i \in 1..Len(thunks) : persisted < thunks[i].block
    <3>1. DOMAIN thunks = 1..Len(thunks)
      BY StateFacts
    <3> QED
      BY <3>1 DEF OInv, ThunksOrdered
  <2> QED
    BY <1>7, <1>11, <2>1, <2>2, <2>3
<1>15. ThunksOrdered'
  <2>1. DOMAIN s = 1..Len(thunks)
    BY <1>11
  <2>2. \A i \in DOMAIN s : ~(s[i].block > n + 1)
    <3>1. \A i \in 1..Len(thunks) : s[i].block <= n + 1 /\ s[i].block \in Nat
      BY <1>11, <1>14
    <3>2. \A x \in Nat : x <= n + 1 => ~(x > n + 1)
      BY SMTT(30)
    <3> QED
      BY <2>1, <3>1, <3>2
  <2>3. \A i, j \in DOMAIN s : i < j => s[i].block < s[j].block
    BY <1>11, <2>1 DEF Ordered
  <2> QED
    BY <1>12, <1>13, <1>14, <2>1, <2>2, <2>3 DEF ThunksOrdered
<1>16. PersistExact' /\ ~junk' /\ Shrinks(ledger)'
  <2>1. persisted + 1 \in 1..(n + 1)
    BY <1>1, <1>7
  <2> QED
    BY <1>9, <1>12, <2>1 DEF OInv, PersistExact
<1>17. ThunksExact'
  <2>1. ASSUME NEW i \in 1..Len(s) PROVE Recorded(M, s[i])
    <3>1. CASE i = Len(thunks)
      <4>1. s[i] = t /\ t.block = n + 1 /\ M[n + 1] = Lead /\ M[(n + 1) + 1] = e
        <5>1. n + 1 \in 1..(n + 1) /\ (n + 1) + 1 = n + 2
          BY <1>7
        <5> QED
          BY <1>7, <1>9, <1>11, <3>1, <5>1 DEF Lead
      <4>2. Recorded(M, t)
        BY <1>4, <4>1 DEF Recorded
      <4> QED
        BY <4>1, <4>2
    <3>2. CASE i # Len(thunks)
      <4>1. i \in 1..Len(thunks) /\ s[i] = thunks[i] /\ thunks[i].block <= proposal_base
        BY <1>1, <1>11, <3>2
      <4>2. Recorded(ledger, thunks[i])
        BY <4>1 DEF OInv, ThunksExact
      <4>3. thunks[i].block \in 1..(n + 1) /\ thunks[i].block + 1 \in 1..(n + 1)
        <5>1. persisted < thunks[i].block /\ thunks[i].block \in Nat
          BY <1>11, <1>14, <4>1
        <5> QED
          BY <1>1, <1>7, <4>1, <5>1
      <4>4. Recorded(M, thunks[i])
        BY <1>9, <4>2, <4>3 DEF Recorded
      <4> QED
        BY <4>1, <4>4
    <3> QED
      BY <3>1, <3>2
  <2>2. Complete(M, s, persisted, n + 1)
    <3>1. Complete(ledger, thunks, persisted, n) /\ persisted \in 0..n
      BY <1>1, <1>7 DEF OInv, ThunksExact
    <3>2. \A i \in 1..Len(thunks) : thunks[i].block <= n => \E x \in 1..Len(s) : s[x] = thunks[i]
      <4>1. \A i \in 1..Len(thunks) : thunks[i].block <= n => i # Len(thunks)
        BY <1>1, <1>2, <1>7 DEF TopThunk
      <4> QED
        BY <1>11, <4>1
    <3>3. ASSUME NEW k \in Key, Untouched(s, k, n, n + 1) PROVE M[n + 2].book[k] = M[n + 1].book[k]
      <4>1. t.block \in (n + 1)..(n + 1)
        BY <1>7
      <4>2. k \notin Touched(t)
        BY <1>11, <3>3, <4>1 DEF Untouched
      <4>3. c[k] = Lead.book[k]
        BY <1>1, <4>2, UntouchedStays
      <4>4. n + 1 \in 1..(n + 1)
        BY <1>7
      <4> QED
        BY <1>4, <1>7, <1>9, <4>3, <4>4 DEF Lead
    <3> QED
      BY <1>1, <1>9, <3>1, <3>2, <3>3, CompleteAppend
  <2> QED
    BY <1>12, <2>1, <2>2 DEF ThunksExact
<1>18. CancelsLowest'
  BY <1>2, <1>11, <1>12 DEF CancelsLowest
<1>19. BlockInStep'
  BY <1>2, <1>4, <1>12 DEF BlockInStep, NoBlock, Booked, Opening
<1> QED
  BY <1>15, <1>16, <1>17, <1>18, <1>19 DEF OInv

\* The thunk of the block in progress.
LEMMA TopOpened ==
  ASSUME OInv, Booked
  PROVE  /\ TopThunk \in Thunk /\ TopThunk.block = proposal_base + 1 /\ Opened(Lead, TopThunk)
         /\ TopThunk.uncommitted_offers_vec = Inserted /\ Inserted \subseteq blk.new
         /\ \A k \in Key : TopThunk.deleted_keys[k] = IF k \in blk.cancels THEN Lead.book[k] ELSE 0
         /\ blk \in BlockType /\ blk.new \in SUBSET Key /\ blk.new \cap Lead.born = {}
         /\ Running /\ proposal_base < MaxBlock
<1>1. Running /\ proposal_base < MaxBlock /\ blk.new \cap Lead.born = {}
  BY DEF OInv, BlockInStep, Booked
<1>2. /\ TopThunk.block = proposal_base + 1 /\ TopThunk.uncommitted_offers_vec = Inserted
      /\ \A k \in Key : TopThunk.deleted_keys[k] = IF k \in blk.cancels THEN Lead.book[k] ELSE 0
  BY <1>1 DEF Running
<1>3. Inserted \subseteq blk.new
  BY DEF Inserted
<1>4. Opened(Lead, TopThunk)
  BY <1>1, <1>2, <1>3 DEF Opened
<1>5. blk \in BlockType /\ blk.new \in SUBSET Key
  BY DEF OInv, ThunksOrdered, TypeOK, BlockType
<1> QED
  BY <1>1, <1>2, <1>3, <1>4, <1>5, TopFacts

LEMMA ProcessClearOffersStep ==
  ASSUME OInv, NEW key \in 1..Top, NEW sell \in 0..Amount, ProcessClearOffers(key, sell)
  PROVE  OInv'
<1>1. PICK t, c : t = ClearedThunk(TopThunk, key, sell) /\ c = ClearedBook(key, sell)
  OBVIOUS
<1>2. PICK bl : bl = [blk EXCEPT !.key = key, !.sell = sell]
  OBVIOUS
<1>3. /\ pc = "clear" /\ thunks' = SetTop(t) /\ committed_offers' = c
      /\ key # Top => committed_offers[key] # 0 /\ sell <= committed_offers[key]
      /\ ledger' = Append(ledger, [book |-> Executed(Lead.book, bl), born |-> Lead.born \cup bl.new])
      /\ proposal_base' = proposal_base + 1 /\ pc' = "idle" /\ blk' = NoBlock
      /\ UNCHANGED <<marked, rollback_marks, uncommitted_offers, junk, last_committed, disk, persisted>>
  BY <1>1, <1>2 DEF ProcessClearOffers, Record
<1>4. Booked
  BY <1>3 DEF Booked
<1>5. /\ TopThunk \in Thunk /\ TopThunk.block = proposal_base + 1 /\ Opened(Lead, TopThunk)
      /\ TopThunk.uncommitted_offers_vec = Inserted /\ Inserted \subseteq blk.new
      /\ \A k \in Key : TopThunk.deleted_keys[k] = IF k \in blk.cancels THEN Lead.book[k] ELSE 0
      /\ blk \in BlockType /\ blk.new \in SUBSET Key /\ blk.new \cap Lead.born = {}
      /\ Running
  BY <1>4, TopOpened
<1>6. /\ Sound(Lead) /\ committed_offers \in Book /\ sell \in Nat /\ proposal_base \in Nat
      /\ last_committed \in Nat /\ last_committed <= proposal_base
  BY StateFacts, Numbers
<1>7. rollback_marks = {} /\ \A k \in Key : committed_offers[k] = Met(Lead.book, TopThunk, k)
  BY <1>3, <1>5 DEF Running
<1>8. /\ t \in Thunk /\ t.block = TopThunk.block
      /\ t.uncommitted_offers_vec = TopThunk.uncommitted_offers_vec
      /\ t.deleted_keys = TopThunk.deleted_keys /\ t.partial_exec_key = key
      /\ Partial(t) => t.partial_exec_amount = sell
      /\ c \in Book /\ Opened(Lead, t) /\ Closed(Lead.book, t, c)
  BY <1>1, <1>3, <1>5, <1>6, <1>7, ClearedClosed
<1>9. bl \in BlockType /\ bl.new = blk.new /\ bl.cancels = blk.cancels /\ bl.key = key /\ bl.sell = sell
  <2>1. sell \in 0..Amount + 1
    BY Numbers
  <2> QED
    BY <1>2, <1>5, <2>1 DEF BlockType
<1>10. Inserted = blk.new
  BY <1>3 DEF Inserted
<1>11. Executed(Lead.book, bl) = c
  BY <1>5, <1>6, <1>8, <1>9, <1>10, ExecutedClosed
<1>12. last_committed' \in last_committed..(proposal_base + 1)
  BY <1>3, <1>6
<1> QED
  BY <1>3, <1>4, <1>5, <1>7, <1>8, <1>9, <1>11, <1>12, Finished

LEMMA FinalizeValidationStep ==
  ASSUME OInv, FinalizeValidation
  PROVE  OInv'
<1>1. /\ pc = "decide" /\ rollback_marks' = {}
      /\ ledger' = Append(ledger, [book |-> Executed(Lead.book, blk), born |-> Lead.born \cup blk.new])
      /\ proposal_base' = proposal_base + 1 /\ last_committed' = last_committed + 1
      /\ pc' = "idle" /\ blk' = NoBlock
      /\ UNCHANGED <<committed_offers, marked, uncommitted_offers, junk, thunks, disk, persisted>>
  BY DEF FinalizeValidation, Record
<1>2. Booked
  BY <1>1 DEF Booked
<1>3. PICK t : t = TopThunk
  OBVIOUS
<1>4. /\ t \in Thunk /\ t.block = proposal_base + 1 /\ Opened(Lead, t)
      /\ t.uncommitted_offers_vec = Inserted /\ Inserted \subseteq blk.new
      /\ \A k \in Key : t.deleted_keys[k] = IF k \in blk.cancels THEN Lead.book[k] ELSE 0
      /\ blk \in BlockType /\ blk.new \in SUBSET Key /\ blk.new \cap Lead.born = {}
      /\ Running
  BY <1>2, <1>3, TopOpened
<1>5. /\ Closed(Lead.book, t, committed_offers) /\ t.partial_exec_key = blk.key
      /\ Partial(t) => t.partial_exec_amount = blk.sell
  BY <1>1, <1>3, <1>4 DEF Running
<1>6. /\ Sound(Lead) /\ committed_offers \in Book /\ proposal_base \in Nat
      /\ last_committed \in Nat /\ last_committed <= proposal_base /\ thunks \in Seq(Thunk)
  BY StateFacts
<1>7. Inserted = {k \in blk.new : k >= blk.key}
  BY <1>1 DEF Inserted
<1>8. \A k \in Key : k >= blk.key => (k \in t.uncommitted_offers_vec <=> k \in blk.new)
  BY <1>4, <1>7
<1>9. Executed(Lead.book, blk) = committed_offers
  BY <1>4, <1>5, <1>6, <1>8, ExecutedClosed
<1>10. last_committed' \in last_committed..(proposal_base + 1)
  BY <1>1, <1>6
<1>11. thunks' = SetTop(t)
  <2>1. Len(thunks) \in DOMAIN thunks /\ thunks = [i \in DOMAIN thunks |-> thunks[i]]
    BY <1>2, <1>6, TopFacts
  <2> QED
    BY <1>1, <1>3, <2>1 DEF SetTop, TopThunk
<1> QED
  BY <1>1, <1>2, <1>3, <1>4, <1>5, <1>6, <1>9, <1>10, <1>11, Finished

LEMMA TentativeClearStep ==
  ASSUME OInv, TentativeClear
  PROVE  OInv'
<1>1. PICK t, c : t = ClearedThunk(TopThunk, blk.key, blk.sell) /\ c = ClearedBook(blk.key, blk.sell)
  OBVIOUS
<1>2. /\ pc = "vclear" /\ thunks' = SetTop(t) /\ committed_offers' = c
      /\ blk.key # Top => committed_offers[blk.key] # 0 /\ blk.sell <= committed_offers[blk.key]
      /\ rollback_marks' = rollback_marks \ {blk.key} /\ pc' = "decide"
      /\ marked' = marked /\ uncommitted_offers' = uncommitted_offers /\ junk' = junk /\ blk' = blk
      /\ proposal_base' = proposal_base /\ last_committed' = last_committed /\ disk' = disk
      /\ persisted' = persisted /\ ledger' = ledger /\ Lead' = Lead
  BY <1>1 DEF TentativeClear, Lead
<1>3. Booked
  BY <1>2 DEF Booked
<1>4. /\ TopThunk \in Thunk /\ TopThunk.block = proposal_base + 1 /\ Opened(Lead, TopThunk)
      /\ TopThunk.uncommitted_offers_vec = Inserted
      /\ \A k \in Key : TopThunk.deleted_keys[k] = IF k \in blk.cancels THEN Lead.book[k] ELSE 0
      /\ Running
  BY <1>3, TopOpened
<1>5. /\ Sound(Lead) /\ committed_offers \in Book /\ proposal_base \in Nat
      /\ blk.key \in 1..Top /\ blk.sell \in Nat /\ thunks \in Seq(Thunk)
      /\ \A i \in 1..Len(thunks) : thunks[i].block \in Nat
  BY StateFacts
<1>6. \A k \in Key : committed_offers[k] = Met(Lead.book, TopThunk, k)
  BY <1>2, <1>4 DEF Running
<1>7. /\ t \in Thunk /\ t.block = TopThunk.block
      /\ t.uncommitted_offers_vec = TopThunk.uncommitted_offers_vec
      /\ t.deleted_keys = TopThunk.deleted_keys /\ t.partial_exec_key = blk.key
      /\ Partial(t) => t.partial_exec_amount = blk.sell
      /\ c \in Book /\ Opened(Lead, t) /\ Closed(Lead.book, t, c)
  BY <1>1, <1>2, <1>4, <1>5, <1>6, ClearedClosed
<1>8. PICK s : s = SetTop(t)
  OBVIOUS
<1>9. /\ s \in Seq(Thunk) /\ Len(s) = Len(thunks) /\ s[Len(thunks)] = t /\ s # <<>>
      /\ Len(thunks) \in 1..Len(thunks)
      /\ \A i \in 1..Len(thunks) : /\ i # Len(thunks) => s[i] = thunks[i]
                                   /\ s[i].block = thunks[i].block /\ s[i].block \in Nat
                                   /\ s[i].block > proposal_base <=> i = Len(thunks)
      /\ Ordered(s) /\ LowestDeleted(s)
  BY <1>3, <1>4, <1>7, <1>8, TopReplaced, SMTT(30)
<1>10. DOMAIN s = 1..Len(thunks) /\ DOMAIN thunks = 1..Len(thunks) /\ thunks' = s
  BY <1>2, <1>5, <1>8, <1>9
<1>11. TypeOK'
  <2>1. TypeOK
    BY DEF OInv, ThunksOrdered
  <2> QED
    BY <1>2, <1>7, <1>9, <1>10, <2>1 DEF TypeOK
<1>12. ThunksOrdered'
  <2>1. \A i \in DOMAIN s : persisted < s[i].block
    BY <1>9, <1>10, ZenonT(40) DEF OInv, ThunksOrdered
  <2>2. \A i, j \in DOMAIN s : i < j => s[i].block < s[j].block
    BY <1>9, <1>10, ZenonT(40) DEF Ordered
  <2>3. \A i \in DOMAIN s : s[i].block > proposal_base <=> i = Len(s)
    BY <1>9, <1>10
  <2> QED
    BY <1>2, <1>9, <1>10, <1>11, <2>1, <2>2, <2>3, SMTT(30) DEF ThunksOrdered
<1>13. PersistExact' /\ ~junk' /\ Shrinks(ledger)'
  BY <1>2 DEF OInv, PersistExact
<1>14. ThunksExact'
  <2>1. \A i \in 1..Len(s) : s[i].block <= proposal_base => s[i] = thunks[i]
    BY <1>5, <1>9
  <2>2. \A i \in 1..Len(s) : s[i].block <= proposal_base => Recorded(ledger, s[i])
    BY <1>9, <2>1 DEF OInv, ThunksExact
  <2>3. \A i \in 1..Len(thunks) : thunks[i].block \in (persisted + 1)..proposal_base =>
          \E x \in 1..Len(s) : s[x] = thunks[i]
    <3>1. \A i \in 1..Len(thunks) : thunks[i].block \in (persisted + 1)..proposal_base =>
            thunks[i].block <= proposal_base
      BY <1>5, StateFacts
    <3> QED
      BY <1>9, <2>1, <3>1
  <2>4. persisted \in Nat /\ persisted \in persisted..proposal_base /\ proposal_base \in persisted..proposal_base
    BY StateFacts
  <2>5. Complete(ledger, s, persisted, proposal_base)
    BY <1>5, <2>3, <2>4, SelectedComplete DEF OInv, ThunksExact
  <2> QED
    BY <1>2, <1>10, <2>2, <2>5 DEF ThunksExact
<1>15. CancelsLowest'
  BY <1>2, <1>4, <1>9, <1>10 DEF Running, CancelsLowest
<1>16. BlockInStep'
  <2>1. TopThunk' = t /\ Booked' /\ Inserted' = Inserted
    BY <1>2, <1>9, <1>10 DEF TopThunk, Booked, Inserted
  <2>2. Running'
    BY <1>2, <1>4, <1>7, <2>1, SMTT(30) DEF Running
  <2> QED
    BY <1>2, <1>3, <2>1, <2>2 DEF OInv, BlockInStep
<1> QED
  BY <1>12, <1>13, <1>14, <1>15, <1>16 DEF OInv

\* A block ends without a trace.
LEMMA Passed ==
  ASSUME OInv, proposal_base < MaxBlock, NEW s \in Seq(Thunk), Len(s) <= Len(thunks),
         \A i \in 1..Len(s) : s[i] = thunks[i] /\ thunks[i].block <= proposal_base,
         \A i \in 1..Len(thunks) : thunks[i].block <= proposal_base => i \in 1..Len(s),
         committed_offers' = Lead.book, thunks' = s, ledger' = Append(ledger, Lead),
         proposal_base' = proposal_base + 1, last_committed' = last_committed + 1,
         pc' = "idle", blk' = NoBlock, marked' = {}, uncommitted_offers' = {},
         rollback_marks' = {}, junk' = FALSE, disk' = disk, persisted' = persisted
  PROVE  OInv'
<1>1. /\ proposal_base \in Nat /\ last_committed \in Nat /\ persisted \in Nat
      /\ persisted <= last_committed /\ last_committed <= proposal_base
      /\ Len(ledger) = proposal_base + 1 /\ ledger \in Seq(Entry) /\ Shrinks(ledger)
      /\ Sound(Lead) /\ Lead.book \in Book /\ thunks \in Seq(Thunk) /\ Len(thunks) \in Nat
      /\ Ordered(thunks) /\ LowestDeleted(thunks) /\ Len(s) \in Nat
      /\ \A i \in 1..Len(thunks) : thunks[i].block \in Nat
  BY StateFacts
<1>2. PICK n \in Nat : n = proposal_base
  BY <1>1
<1>3. PICK M : M = Append(ledger, Lead)
  OBVIOUS
<1>4. /\ M \in Seq(Entry) /\ Len(M) = n + 2 /\ M[n + 2] = Lead
      /\ \A i \in 1..(n + 1) : M[i] = ledger[i]
      /\ Shrinks(M)
  <2>1. \A k \in Key : Lead.book[k] \in Nat
    BY <1>1, BookValues
  <2>2. Lead.born \subseteq Key
    BY StateFacts
  <2>3. \A k \in ledger[n + 1].born : k \in Lead.born /\ Lead.book[k] <= ledger[n + 1].book[k]
    BY <1>2, <2>1, <2>2 DEF Lead
  <2> QED
    BY <1>1, <1>2, <1>3, <2>3, ShrinksAppend
<1>5. ledger' = M /\ proposal_base' = n + 1 /\ Lead' = Lead
  <2>1. (n + 1) + 1 = n + 2
    BY <1>2
  <2> QED
    BY <1>2, <1>3, <1>4, <2>1 DEF Lead
<1>6. DOMAIN s = 1..Len(s) /\ DOMAIN thunks = 1..Len(thunks) /\ \A i \in 1..Len(s) : i \in 1..Len(thunks)
  BY <1>1
<1>7. TypeOK'
  <2>1. /\ n + 1 \in 0..MaxBlock /\ last_committed + 1 \in 0..(n + 1) /\ persisted \in 0..(last_committed + 1)
        /\ Len(M) = (n + 1) + 1
    BY <1>1, <1>2, <1>4, Numbers
  <2>2. TypeOK
    BY DEF OInv, ThunksOrdered
  <2>3. M \in Seq([book : Book, born : SUBSET Key])
    BY <1>4 DEF Entry
  <2>4. disk \in Book /\ FALSE \in BOOLEAN /\ {} \subseteq Key
    BY <2>2 DEF TypeOK
  <2> QED
    BY <1>1, <1>5, <2>1, <2>3, <2>4, NoBlockType, Zenon DEF TypeOK, BlockType
<1>8. ThunksOrdered'
  <2>1. \A i \in DOMAIN s : persisted < s[i].block
    BY <1>6 DEF OInv, ThunksOrdered
  <2>2. \A i, j \in DOMAIN s : i < j => s[i].block < s[j].block
    BY <1>1, <1>6 DEF Ordered
  <2>3. \A i \in DOMAIN s : ~(s[i].block > n + 1)
    BY <1>1, <1>2, <1>6
  <2> QED
    BY <1>5, <1>7, <2>1, <2>2, <2>3 DEF ThunksOrdered
<1>9. PersistExact' /\ ~junk' /\ Shrinks(ledger)'
  <2>1. persisted + 1 \in 1..(n + 1)
    BY <1>1, <1>2
  <2> QED
    BY <1>4, <1>5, <2>1 DEF OInv, PersistExact
<1>10. ThunksExact'
  <2>1. ASSUME NEW i \in 1..Len(s) PROVE Recorded(M, s[i])
    <3>1. i \in 1..Len(thunks) /\ s[i] = thunks[i] /\ thunks[i].block <= proposal_base
      BY <1>6
    <3>2. Recorded(ledger, thunks[i]) /\ persisted < thunks[i].block
      BY <1>6, <3>1 DEF OInv, ThunksExact, ThunksOrdered
    <3>3. thunks[i].block \in 1..(n + 1) /\ thunks[i].block + 1 \in 1..(n + 1)
      BY <1>1, <1>2, <3>1, <3>2
    <3>4. Recorded(M, thunks[i])
      BY <1>4, <3>2, <3>3 DEF Recorded
    <3> QED
      BY <3>1, <3>4
  <2>2. Complete(M, s, persisted, n + 1)
    <3>1. Complete(ledger, thunks, persisted, n) /\ persisted \in 0..n
      BY <1>1, <1>2 DEF OInv, ThunksExact
    <3>2. \A i \in 1..Len(thunks) : thunks[i].block <= n => \E x \in 1..Len(s) : s[x] = thunks[i]
      BY <1>2
    <3>3. \A k \in Key : M[n + 2].book[k] = M[n + 1].book[k]
      <4>1. n + 1 \in 1..(n + 1)
        BY <1>2
      <4> QED
        BY <1>2, <1>4, <4>1 DEF Lead
    <3> QED
      BY <1>1, <1>4, <3>1, <3>2, <3>3, CompleteAppend
  <2> QED
    BY <1>5, <2>1, <2>2 DEF ThunksExact
<1>11. CancelsLowest'
  <2>1. LowestDeleted(s)
    BY <1>1, <1>6 DEF LowestDeleted
  <2> QED
    BY <2>1 DEF CancelsLowest
<1>12. BlockInStep'
  BY <1>5 DEF BlockInStep, NoBlock, Booked, Opening
<1> QED
  BY <1>8, <1>9, <1>10, <1>11, <1>12 DEF OInv

LEMMA RefuseTxsStep ==
  ASSUME OInv, Allow = {}, NEW b, NEW merged, RefuseTxs(b, merged)
  PROVE  OInv'
<1>1. PICK ins : ins = IF merged THEN {k \in b.new : k >= b.key} ELSE {}
  OBVIOUS
<1>2. /\ pc = "idle" /\ proposal_base < MaxBlock /\ b.cancels = {} /\ ~merged
      /\ uncommitted_offers' = uncommitted_offers \cup ins
      /\ rollback_marks' = rollback_marks \cup ins
      /\ marked' = marked \cup b.cancels
      /\ proposal_base' = proposal_base + 1 /\ last_committed' = last_committed + 1
      /\ ledger' = Append(ledger, Lead)
      /\ UNCHANGED <<committed_offers, junk, thunks, pc, blk, disk, persisted>>
  BY <1>1 DEF RefuseTxs
<1>3. ins = {}
  BY <1>1, <1>2
<1>4. /\ marked = {} /\ uncommitted_offers = {} /\ rollback_marks = {} /\ blk = NoBlock
      /\ committed_offers = Lead.book /\ ~Booked
  BY <1>2, IdleFacts
<1>5. /\ thunks \in Seq(Thunk) /\ Len(thunks) \in Nat /\ proposal_base \in Nat
      /\ \A i \in 1..Len(thunks) : thunks[i].block \in Nat
  BY StateFacts
<1>6. \A i \in 1..Len(thunks) : thunks[i].block <= proposal_base
  <2>1. DOMAIN thunks = 1..Len(thunks)
    BY <1>5
  <2>2. \A i \in 1..Len(thunks) : ~(thunks[i].block > proposal_base)
    BY <1>4, <2>1 DEF OInv, ThunksOrdered, Booked
  <2> QED
    BY <1>5, <2>2
<1>7. junk' = FALSE
  BY <1>2 DEF OInv, ThunksOrdered, TypeOK
<1>8. /\ committed_offers' = Lead.book /\ thunks' = thunks /\ pc' = "idle" /\ blk' = NoBlock
      /\ marked' = {} /\ uncommitted_offers' = {} /\ rollback_marks' = {}
      /\ disk' = disk /\ persisted' = persisted /\ Len(thunks) <= Len(thunks)
  BY <1>2, <1>3, <1>4, <1>5
<1> QED
  BY <1>2, <1>5, <1>6, <1>7, <1>8, Passed

\* rollback_validation brings the book back.
LEMMA RolledBack ==
  ASSUME NEW e, Sound(e), NEW t \in Thunk, Opened(e, t), NEW c \in Book, NEW marks,
         t.uncommitted_offers_vec = marks,
         \/ Unset(t) /\ \A k \in Key : c[k] = Met(e.book, t, k)
         \/ /\ Closed(e.book, t, c) /\ t.partial_exec_key \notin marks
            /\ \A k \in marks : k >= t.partial_exec_key
  PROVE  undo_thunk(Without(c, marks), [t EXCEPT !.uncommitted_offers_vec = {}]) = e.book
<1>1. PICK u : u = [t EXCEPT !.uncommitted_offers_vec = {}]
  OBVIOUS
<1>2. /\ u \in Thunk /\ u.uncommitted_offers_vec = {} /\ u.deleted_keys = t.deleted_keys
      /\ u.cleared_offers = t.cleared_offers /\ u.partial_exec_key = t.partial_exec_key
      /\ u.preexecute = t.preexecute /\ (Partial(u) <=> Partial(t)) /\ (Unset(u) <=> Unset(t))
  BY <1>1 DEF Thunk, Partial, Unset
<1>3. PICK x : x = Without(c, marks)
  OBVIOUS
<1>4. x \in Book /\ \A k \in Key : x[k] = IF k \in marks THEN 0 ELSE c[k]
  BY <1>3, Numbers DEF Without, Only, Book
<1>5. ASSUME NEW k \in Key PROVE undo_thunk(x, u)[k] = e.book[k]
  <2>1. /\ e.book[k] \in Nat /\ t.deleted_keys[k] \in Nat /\ t.cleared_offers[k] \in Nat
        /\ k \in t.uncommitted_offers_vec => e.book[k] = 0 /\ t.deleted_keys[k] = 0
        /\ t.deleted_keys[k] # 0 => k \notin t.uncommitted_offers_vec /\ Met(e.book, t, k) = 0
                                    /\ e.book[k] = t.deleted_keys[k]
        /\ k \notin t.uncommitted_offers_vec /\ t.deleted_keys[k] = 0 => Met(e.book, t, k) = e.book[k]
    BY MetValue
  <2>2. undo_thunk(x, u)[k] =
          IF Partial(t) /\ k = t.partial_exec_key THEN t.preexecute
          ELSE IF t.cleared_offers[k] # 0 THEN t.cleared_offers[k]
          ELSE IF t.deleted_keys[k] # 0 THEN t.deleted_keys[k] ELSE x[k]
    BY <1>2, <1>4, UndoValue, SMTT(30)
  <2>3. x[k] = IF k \in marks THEN 0 ELSE c[k]
    BY <1>4
  <2>4. CASE Unset(t) /\ \A j \in Key : c[j] = Met(e.book, t, j)
    <3>1. ~Partial(t) /\ t.cleared_offers[k] = 0
      BY <2>4 DEF Unset, Partial, EmptyBook
    <3> QED
      BY <2>1, <2>2, <2>3, <2>4, <3>1
  <2>5. CASE /\ Closed(e.book, t, c) /\ t.partial_exec_key \notin marks
             /\ \A j \in marks : j >= t.partial_exec_key
    <3>1. /\ Partial(t) => /\ t.preexecute = Met(e.book, t, t.partial_exec_key) /\ t.preexecute # 0
          /\ ~Partial(t) => t.partial_exec_key = Top
          /\ t.cleared_offers[k] = IF k < t.partial_exec_key THEN Met(e.book, t, k) ELSE 0
          /\ c[k] = IF k < t.partial_exec_key THEN 0
                    ELSE IF k = t.partial_exec_key THEN Met(e.book, t, k) - t.partial_exec_amount
                    ELSE Met(e.book, t, k)
      BY <2>5 DEF Closed
    <3>2. k \in Nat /\ k < Top /\ t.partial_exec_key \in Nat
      BY Numbers, ThunkFields
    <3>3. CASE k = t.partial_exec_key
      <4>1. Partial(t) /\ k \notin t.uncommitted_offers_vec
        BY <2>5, <3>1, <3>2, <3>3
      <4> QED
        BY <2>1, <2>2, <3>1, <3>3, <4>1
    <3>4. CASE k # t.partial_exec_key /\ k \in marks
      BY <2>1, <2>2, <2>3, <2>5, <3>1, <3>2, <3>4
    <3>5. CASE k # t.partial_exec_key /\ k \notin marks
      BY <2>1, <2>2, <2>3, <3>1, <3>2, <3>5
    <3> QED
      BY <3>3, <3>4, <3>5
  <2> QED
    BY <2>4, <2>5
<1>6. undo_thunk(x, u) \in Book /\ e.book \in Book
  BY <1>2, <1>4, UndoValue DEF Sound, Entry
<1>7. PICK a \in Book, b \in Book : a = undo_thunk(x, u) /\ b = e.book
  BY <1>6
<1>8. a = b
  BY <1>5, <1>7 DEF Book
<1> QED
  BY <1>1, <1>3, <1>7, <1>8

LEMMA RollbackValidationStep ==
  ASSUME OInv, Allow = {}, RollbackValidation
  PROVE  OInv'
<1>1. PICK t : t = TopThunk
  OBVIOUS
<1>2. PICK u : u = [t EXCEPT !.uncommitted_offers_vec = {}]
  OBVIOUS
<1>3. /\ pc \in {"decide", "fail"} /\ t.uncommitted_offers_vec \subseteq rollback_marks
      /\ committed_offers' = undo_thunk(Without(committed_offers, rollback_marks), u)
      /\ junk' = (junk \/ FALSE) /\ thunks' = pop_top_thunk(thunks)
      /\ uncommitted_offers' = {} /\ rollback_marks' = {}
      /\ proposal_base' = proposal_base + 1 /\ last_committed' = last_committed + 1
      /\ ledger' = Append(ledger, Lead) /\ pc' = "idle" /\ blk' = NoBlock
      /\ UNCHANGED <<marked, disk, persisted>>
  BY <1>1, <1>2 DEF RollbackValidation, UnsetReads
<1>4. Booked
  BY <1>3 DEF Booked
<1>5. /\ t \in Thunk /\ Opened(Lead, t) /\ t.uncommitted_offers_vec = Inserted /\ Inserted \subseteq blk.new
      /\ Running /\ proposal_base < MaxBlock /\ blk.new \in SUBSET Key
  BY <1>1, <1>4, TopOpened
<1>6. /\ thunks \in Seq(Thunk) /\ Len(thunks) \in Nat /\ proposal_base \in Nat
      /\ \A i \in 1..Len(thunks) : thunks[i].block \in Nat
      /\ Sound(Lead) /\ committed_offers \in Book
  BY StateFacts
<1>7. marked = {} /\ rollback_marks = Inserted
  BY <1>3, <1>5 DEF Running
<1>8. \/ Unset(t) /\ \A k \in Key : committed_offers[k] = Met(Lead.book, t, k)
      \/ /\ Closed(Lead.book, t, committed_offers) /\ t.partial_exec_key \notin rollback_marks
         /\ \A k \in rollback_marks : k >= t.partial_exec_key
  <2>1. CASE pc = "fail"
    BY <1>1, <1>5, <2>1 DEF Running
  <2>2. CASE pc = "decide"
    <3>1. \A k \in Inserted : k >= blk.key
      BY <2>2 DEF Inserted
    <3> QED
      BY <1>1, <1>5, <1>7, <2>2, <3>1 DEF Running
  <2> QED
    BY <1>3, <2>1, <2>2
<1>9. committed_offers' = Lead.book
  <2>1. PICK c \in Book : c = committed_offers
    BY <1>6
  <2>2. undo_thunk(Without(c, rollback_marks), u) = Lead.book
    BY <1>2, <1>5, <1>6, <1>7, <1>8, <2>1, RolledBack
  <2> QED
    BY <1>3, <2>1, <2>2
<1>10. /\ Len(thunks) \in 1..Len(thunks) /\ t.block > proposal_base
       /\ \A i \in 1..Len(thunks) : i # Len(thunks) => thunks[i].block <= proposal_base
  BY <1>1, <1>4, TopFacts
<1>11. PICK s : s = Front(thunks)
  OBVIOUS
<1>12. s \in Seq(Thunk) /\ Len(s) = Len(thunks) - 1 /\ \A i \in 1..(Len(thunks) - 1) : s[i] = thunks[i]
  <2>1. PICK m \in Nat : m = Len(thunks) - 1
    BY <1>10
  <2>2. s = [i \in 1..m |-> thunks[i]]
    BY <1>11, <2>1 DEF Front
  <2>3. \A i \in 1..m : thunks[i] \in Thunk
    BY <1>6, <2>1, ElementOfSeq
  <2> QED
    BY <2>1, <2>2, <2>3
<1>13. \A i \in 1..Len(s) : s[i] = thunks[i] /\ thunks[i].block <= proposal_base
  BY <1>6, <1>10, <1>12
<1>14. \A i \in 1..Len(thunks) : thunks[i].block <= proposal_base => i \in 1..Len(s)
  BY <1>1, <1>6, <1>10, <1>12 DEF TopThunk
<1>15. junk' = FALSE
  BY <1>3 DEF OInv, ThunksOrdered, TypeOK
<1>16. thunks' = s /\ Len(s) <= Len(thunks) /\ marked' = {} /\ disk' = disk /\ persisted' = persisted
  BY <1>3, <1>6, <1>7, <1>11, <1>12 DEF pop_top_thunk
<1> QED
  BY <1>3, <1>5, <1>9, <1>12, <1>13, <1>14, <1>15, <1>16, Passed

-----------------------------------------------------------------------------
LEMMA NextInv ==
  ASSUME OInv, Allow = {}, [Next]_vars
  PROVE  OInv'
<1>1. CASE UNCHANGED vars
  <2>1. /\ committed_offers' = committed_offers /\ marked' = marked /\ pc' = pc /\ blk' = blk
        /\ proposal_base' = proposal_base /\ ledger' = ledger /\ thunks' = thunks /\ disk' = disk
        /\ persisted' = persisted /\ last_committed' = last_committed /\ junk' = junk
        /\ rollback_marks' = rollback_marks /\ uncommitted_offers' = uncommitted_offers
    BY <1>1 DEF vars, book_vars
  <2>2. ThunksOrdered'
    BY <2>1 DEF OInv, ThunksOrdered, TypeOK
  <2>3. PersistExact' /\ ~junk' /\ Shrinks(ledger)' /\ ThunksExact' /\ CancelsLowest'
    BY <2>1 DEF OInv, PersistExact, ThunksExact, CancelsLowest
  <2>4. BlockInStep'
    <3>1. TopThunk' = TopThunk
      BY <2>1 DEF TopThunk
    <3>2. UNCHANGED <<book_vars, pc, blk, proposal_base, last_committed, ledger>>
      BY <2>1 DEF book_vars
    <3> QED
      BY <3>1, <3>2, BlockKept DEF OInv
  <2> QED
    BY <2>2, <2>3, <2>4 DEF OInv
<1>2. CASE \E new \in News, cancels \in Cancels : ProduceTxs(new, cancels)
  BY <1>2, ProduceTxsStep
<1>3. CASE TentativeCommit
  BY <1>3, TentativeCommitStep
<1>4. CASE \E key \in 1..Top, sell \in 0..Amount : ProcessClearOffers(key, sell)
  BY <1>4, ProcessClearOffersStep
<1>5. CASE \E n \in 1..MaxBlock : LogCommitment(n)
  BY <1>5, LogCommitmentStep
<1>6. CASE \E b \in [new : News, cancels : Cancels, key : 1..Top, sell : 0..Amount + 1] : ValidateTxs(b)
  BY <1>6, ValidateTxsStep
<1>7. CASE \E b \in [new : News, cancels : Cancels, key : 1..Top, sell : 0..Amount + 1] :
             \E merged \in BOOLEAN : RefuseTxs(b, merged)
  BY <1>7, RefuseTxsStep
<1>8. CASE TentativeClear
  BY <1>8, TentativeClearStep
<1>9. CASE TentativeClearFails \/ TentativeClearSkipped
  BY <1>9, TentativeClearFailsStep
<1>10. CASE FinalizeValidation
  BY <1>10, FinalizeValidationStep
<1>11. CASE RollbackValidation
  BY <1>11, RollbackValidationStep
<1>12. CASE \E n \in 1..MaxBlock : Persist(n)
  BY <1>12, PersistStep
<1>13. CASE Rewind
  BY <1>13, RewindStep
<1> QED
  BY <1>1, <1>2, <1>3, <1>4, <1>5, <1>6, <1>7, <1>8, <1>9, <1>10, <1>11, <1>12, <1>13 DEF Next

LEMMA InductiveInvariant ==
  ASSUME Allow = {}
  PROVE  Spec => []OInv
<1>1. Init => OInv
  BY InitInv
<1>2. OInv /\ [Next]_vars => OInv'
  BY NextInv
<1> QED
  BY <1>1, <1>2, PTL DEF Spec

(***************************************************************************)
(* The thunks stay in block order, none is on disk already, and there is   *)
(* one while a block is cleared, decided or rolled back: the exceptions of *)
(* add_new_thunk_nolock, get_top_thunk_nolock and write_thunks are never   *)
(* thrown.  Books and disk hold amounts that were offered.                 *)
(***************************************************************************)
THEOREM ThunksOrderedCorrect ==
  ASSUME Allow = {}
  PROVE  Spec => []ThunksOrdered
<1>1. OInv => ThunksOrdered
  BY DEF OInv
<1> QED
  BY <1>1, InductiveInvariant, PTL

(***************************************************************************)
(* Between blocks the book is exactly what the executed blocks left: a     *)
(* validation that rollback_validation undoes at any stage, proposals that *)
(* rollback_thunks undoes both bring it back, if none of the inputs that   *)
(* Allow names occurs.                                                     *)
(***************************************************************************)
THEOREM BookExactCorrect ==
  ASSUME Allow = {}
  PROVE  Spec => []BookExact
<1>1. OInv => BookExact
  BY DEF OInv, BookExact, BlockInStep, Booked, Opening
<1> QED
  BY <1>1, InductiveInvariant, PTL

(***************************************************************************)
(* The five phases of write_thunks, on any batch, lead the disk from one   *)
(* book the chain went through to another: that after the last block       *)
(* persisted.                                                              *)
(***************************************************************************)
THEOREM PersistExactCorrect ==
  ASSUME Allow = {}
  PROVE  Spec => []PersistExact
<1>1. OInv => PersistExact
  BY DEF OInv
<1> QED
  BY <1>1, InductiveInvariant, PTL
=============================================================================
