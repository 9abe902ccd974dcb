----------------------------- MODULE Orderbook -----------------------------
(***************************************************************************)
(* One orderbook of the exchange (orderbook/orderbook.cc), its LMDB        *)
(* database (orderbook/lmdb.cc) and the persistence thunks that join them  *)
(* (orderbook/thunk.h), driven by the VM (speedex/vm/speedex_vm.cc).       *)
(*                                                                         *)
(* Every block merges its new offers into the book, removes the cancelled  *)
(* ones, clears the offers below a threshold key and sells a part of the   *)
(* offer at the threshold.  What it did is kept in a thunk.  A thunk is    *)
(* written to disk later, in a batch and by another thread, or undone: by  *)
(* rollback_validation when a validated block turns out wrong, and by      *)
(* rollback_thunks when proposed blocks are abandoned.                     *)
(*                                                                         *)
(* A trie key is price, owner and offer id in big-endian order, so keys    *)
(* are totally ordered and are modelled by numbers; two offers never have  *)
(* the same key.  A book maps a key to the amount on offer, 0 for none.    *)
(***************************************************************************)
EXTENDS Integers, Sequences, SequencesExt, FiniteSetsExt, Counting

CONSTANTS
    K,         \* number of keys an offer may have in this instance
    Amount,    \* the amount of every new offer
    MaxBlock,  \* bound on the block height
    Allow      \* the delicate inputs this instance includes (see below)

(***************************************************************************)
(* Inputs on which the code departs from what its comments promise.  An    *)
(* instance chooses which to include, so that each can be seen alone and   *)
(* everything else checked without them:                                   *)
(*   partial_new    a validated block is rolled back, and it had created   *)
(*                  the offer that it partially executed, or was to        *)
(*   rewind_new     the same for a proposed block that is abandoned        *)
(*   unset          a block is undone before its clearing set              *)
(*                  exists_partial_exec, and the field reads as true       *)
(*   rewind_many    several thunks that touch one key are undone at once   *)
(*   full_clear     a batch is persisted in which one thunk cleared the    *)
(*                  whole book, an offer on disk included, and another has *)
(*                  a partially executed offer                             *)
(*   cancel_recent  an offer not yet on disk is cancelled, and its block   *)
(*                  also created an offer with a lower key                 *)
(*   tx_failure     the transactions of a validated block are refused      *)
(*                  after some of them cancelled or created offers         *)
(***************************************************************************)
Scenarios == {"partial_new", "rewind_new", "unset", "rewind_many",
              "full_clear", "cancel_recent", "tx_failure"}

ASSUME OrderbookAssumption ==
    /\ K \in Nat \ {0} /\ Amount \in Nat \ {0} /\ MaxBlock \in Nat
    /\ Allow \subseteq Scenarios

Key == 1..K
Top == K + 1  \* prefix_t::set_max: above every key; also a null threshold

VARIABLES
    committed_offers,   \* the book
    marked,             \* its keys that mark_for_deletion marked
    rollback_marks,     \* keys inserted with RollbackInsertFn
    uncommitted_offers, \* keys of the new offers of the block in progress
    thunks,             \* OrderbookLMDB::thunks, oldest first
    pc,                 \* how far the block in progress has got
    blk,                \* its content
    junk,               \* a default Offer was inserted under a default key
    proposal_base,      \* number of proposal_base_block
    last_committed,     \* number of last_committed_block
    disk,               \* the book in LMDB
    persisted,          \* get_persisted_round_number()
    ledger              \* history: ledger[n+1] is the book after block n
                        \* and the keys ever created, as they should be

book_vars == <<committed_offers, marked, rollback_marks, uncommitted_offers,
               junk>>
vars == <<book_vars, thunks, pc, blk, proposal_base, last_committed, disk,
          persisted, ledger>>

-----------------------------------------------------------------------------
\* Books.

Book == [Key -> 0..Amount]
EmptyBook == [k \in Key |-> 0]
Offers(b) == {k \in Key : b[k] # 0}
Only(b, S) == [k \in Key |-> IF k \in S THEN b[k] ELSE 0]
Without(b, S) == Only(b, Key \ S)
merge_in(b, c) == [k \in Key |-> IF c[k] # 0 THEN c[k] ELSE b[k]]
Fresh(S) == [k \in Key |-> IF k \in S THEN Amount ELSE 0]
Below(key) == {k \in Key : k < key}

\* What remains of the offer at the threshold; nothing to do for a null one.
Sell(b, key, sell) == [k \in Key |-> IF k = key THEN b[k] - sell ELSE b[k]]

\* A block: the offers it creates and cancels, its threshold key (Top: null)
\* and what the offer there sells.
NoBlock == [new |-> {}, cancels |-> {}, key |-> Top, sell |-> 0]

\* The book after a block, in one step: the reference for what the code does
\* in several.
Executed(b, bl) ==
    Sell(Without(merge_in(Without(b, bl.cancels), Fresh(bl.new)),
                 Below(bl.key)),
         bl.key, bl.sell)

Lead == ledger[proposal_base + 1]
Record(b, bl) == Append(ledger, [book |-> Executed(b, bl),
                                 born |-> Lead.born \cup bl.new])

-----------------------------------------------------------------------------
(***************************************************************************)
(* Thunks.  exists_partial_exec is not initialised by the constructor.     *)
(***************************************************************************)
NewThunk(n, new, deleted) ==
    [block |-> n, uncommitted_offers_vec |-> new, deleted_keys |-> deleted,
     cleared_offers |-> EmptyBook, partial_exec_key |-> 1,
     partial_exec_amount |-> 0, preexecute |-> 0,
     exists_partial_exec |-> "unset"]

set_no_partial_exec(t, cleared) ==
    [t EXCEPT !.exists_partial_exec = "no", !.partial_exec_key = Top,
              !.cleared_offers = cleared]

set_partial_exec(t, key, sell, pre, cleared) ==
    [t EXCEPT !.exists_partial_exec = "yes", !.partial_exec_key = key,
              !.partial_exec_amount = sell, !.preexecute = pre,
              !.cleared_offers = cleared]

Partial(t) == t.exists_partial_exec = "yes"

\* What get_exists_partial_exec may yield for a field never written: if true,
\* undo_thunk inserts a default Offer under a default key.
UnsetReads(t) ==
    IF t.exists_partial_exec = "unset" /\ "unset" \in Allow THEN BOOLEAN ELSE {FALSE}

\* Faulty variant: the cleared offers are not merged back.
undo_thunk_KeepsCleared(b, t) ==
    LET reduced == Without(merge_in(b, t.deleted_keys), t.uncommitted_offers_vec)
    IN IF Partial(t)
       THEN [reduced EXCEPT ![t.partial_exec_key] = t.preexecute]
       ELSE reduced

\* undo_thunk, on a book.  The two insertions of a key overwrite.
undo_thunk(b, t) ==
    LET restored == merge_in(merge_in(b, t.deleted_keys), t.cleared_offers)
        reduced  == Without(restored, t.uncommitted_offers_vec)
    IN IF Partial(t)
       THEN [reduced EXCEPT ![t.partial_exec_key] = t.preexecute]
       ELSE reduced

\* rollback_thunks: the thunks ts undone one after the other, the first first.
rollback_thunks(b, ts) ==
    LET undone[i \in 0..Len(ts)] ==
            IF i = 0 THEN b ELSE undo_thunk(undone[i - 1], ts[i])
    IN undone

TopThunk == thunks[Len(thunks)]  \* get_top_thunk_nolock
pop_top_thunk(ts) == Front(ts)
SetTop(t) == [thunks EXCEPT ![Len(thunks)] = t]

\* The keys a thunk changed.
Touched(t) == t.uncommitted_offers_vec \cup Offers(t.deleted_keys)
                \cup Offers(t.cleared_offers)
                \cup IF Partial(t) THEN {t.partial_exec_key} ELSE {}

-----------------------------------------------------------------------------
(***************************************************************************)
(* write_thunks: the batch ts of thunks, oldest first, applied to d.       *)
(***************************************************************************)
MaxPartial(ts) == Max({ts[i].partial_exec_key : i \in {j \in DOMAIN ts : Partial(ts[j])}})
SomePartial(ts) == \E i \in DOMAIN ts : Partial(ts[i])
AllDeleted(ts) == UNION {Offers(ts[i].deleted_keys) : i \in DOMAIN ts}

\* Phase 1 deletes the cancelled offers; those it does not find are skipped
\* in phase 3.  Phase 2 deletes below the greatest partial_exec_key, or
\* everything if no thunk has one.
phase2(d, ts) ==
    Without(d, AllDeleted(ts) \cup
               IF SomePartial(ts) THEN Below(MaxPartial(ts)) ELSE Key)

\* Phase 3 goes through the thunks and the offers of each from the top down,
\* and leaves a thunk at the first offer it does not write.
\* Faulty variant: each thunk is compared with its own key only.
RollingKey_Own(ts, i) == ts[i].partial_exec_key
RollingKey(ts, i) == Max({ts[j].partial_exec_key : j \in i..Len(ts)})
Written(d, ts, i) ==
    LET new == ts[i].uncommitted_offers_vec
        put == {k \in new : /\ k >= RollingKey(ts, i)
                            /\ ~(k \in AllDeleted(ts) /\ d[k] = 0)}
    IN {k \in new : \A j \in new : j >= k => j \in put}
phase3(d, ts) ==
    merge_in(phase2(d, ts),
             Fresh(UNION {Written(d, ts, i) : i \in DOMAIN ts}))

\* Phase 4 executes partially what is there, oldest thunk first.
partial_exec(b, t) ==
    IF Partial(t) /\ b[t.partial_exec_key] # 0
    THEN Sell(b, t.partial_exec_key, t.partial_exec_amount)
    ELSE b
partial_execs(d, ts) ==
    LET done[i \in 0..Len(ts)] ==
            IF i = 0 THEN phase3(d, ts) ELSE partial_exec(done[i - 1], ts[i])
    IN done
phase4(d, ts) == partial_execs(d, ts)[Len(ts)]

\* Phase 5 deletes a partially executed offer that a later thunk cleared.
write_thunks(d, ts) ==
    Without(phase4(d, ts),
            {ts[i].partial_exec_key : i \in
               {i \in DOMAIN ts : /\ Partial(ts[i])
                                  /\ \E j \in (i+1)..Len(ts) :
                                       ts[i].partial_exec_key
                                         < ts[j].partial_exec_key}})

UpTo(n) == Selected(thunks, {i \in DOMAIN thunks : thunks[i].block <= n})
\* Faulty variant: write_thunks does not erase what it wrote.
After_Kept(n) == thunks
After(n) == Selected(thunks, {i \in DOMAIN thunks : thunks[i].block > n})

-----------------------------------------------------------------------------
\* The inputs that Allow controls.

CancelAllowed(cancels) ==
    \/ "cancel_recent" \in Allow
    \/ \A k \in cancels : \A i \in DOMAIN thunks :
          LET new == thunks[i].uncommitted_offers_vec
          IN k \in new => \A j \in new : j >= k

BatchAllowed(ts) ==
    \/ "full_clear" \in Allow
    \/ ~SomePartial(ts)
    \/ \A i \in DOMAIN ts : ts[i].exists_partial_exec = "no" =>
          Offers(ts[i].cleared_offers) \cap Offers(disk) = {}

ExecutesItsOwn(t) == Partial(t) /\ t.partial_exec_key \in t.uncommitted_offers_vec

RewindAllowed(ts) ==
    /\ "rewind_new" \in Allow \/ \A i \in DOMAIN ts : ~ExecutesItsOwn(ts[i])
    /\ \/ "rewind_many" \in Allow
       \/ \A i, j \in DOMAIN ts : i # j => Touched(ts[i]) \cap Touched(ts[j]) = {}

-----------------------------------------------------------------------------
Init ==
    /\ committed_offers = EmptyBook /\ disk = EmptyBook
    /\ marked = {} /\ rollback_marks = {} /\ uncommitted_offers = {}
    /\ thunks = <<>> /\ pc = "idle" /\ blk = NoBlock /\ junk = FALSE
    /\ proposal_base = 0 /\ last_committed = 0 /\ persisted = 0
    /\ ledger = <<[book |-> EmptyBook, born |-> {}]>>

(***************************************************************************)
(* Production: SpeedexVM::propose.                                         *)
(***************************************************************************)

\* build_block: transactions create and cancel offers.  Only a committed
\* offer can be cancelled.
ProduceTxs(new, cancels) ==
    /\ pc = "idle" /\ proposal_base < MaxBlock
    /\ CancelAllowed(cancels)
    /\ uncommitted_offers' = uncommitted_offers \cup new
    /\ marked' = marked \cup cancels
    /\ blk' = [NoBlock EXCEPT !.new = new, !.cancels = cancels]
    /\ pc' = "commit"
    /\ UNCHANGED <<committed_offers, rollback_marks, junk, thunks,
                   proposal_base, last_committed, disk, persisted, ledger>>

\* tentative_commit_for_validation, which commit_for_production calls too.
TentativeCommit ==
    /\ pc \in {"commit", "vcommit"}
    /\ thunks' = Append(thunks, NewThunk(proposal_base + 1, uncommitted_offers,
                                         Only(committed_offers, marked)))
    /\ committed_offers' = merge_in(Without(committed_offers, marked),
                                    Fresh(uncommitted_offers))
    /\ marked' = {} /\ uncommitted_offers' = {}
    /\ pc' = IF pc = "commit" THEN "clear" ELSE "vclear"
    /\ UNCHANGED <<rollback_marks, junk, blk, proposal_base, last_committed,
                   disk, persisted, ledger>>

\* The thunk and the book after clearing below key and selling at key.
ClearedThunk(t, key, sell) ==
    LET cleared == Only(committed_offers, Below(key))
    IN IF key = Top
       THEN set_no_partial_exec(t, cleared)
       ELSE set_partial_exec(t, key, sell, committed_offers[key], cleared)
ClearedBook(key, sell) ==
    Sell(Without(committed_offers, Below(key)), key, sell)

\* process_clear_offers: the offers below some key clear, and the lowest one
\* left executes partially, perhaps not at all, perhaps whole.
ProcessClearOffers(key, sell) ==
    /\ pc = "clear"
    /\ IF key = Top
       THEN sell = 0
       ELSE committed_offers[key] # 0 /\ sell <= committed_offers[key]
    /\ thunks' = SetTop(ClearedThunk(TopThunk, key, sell))
    /\ committed_offers' = ClearedBook(key, sell)
    /\ ledger' = Record(Lead.book, [blk EXCEPT !.key = key, !.sell = sell])
    /\ proposal_base' = proposal_base + 1
    /\ pc' = "idle" /\ blk' = NoBlock
    /\ UNCHANGED <<marked, rollback_marks, uncommitted_offers, junk,
                   last_committed, disk, persisted>>

\* log_commitment of a proposed block.
LogCommitment(n) ==
    /\ n \in (last_committed + 1)..proposal_base
    /\ last_committed' = n
    /\ UNCHANGED <<book_vars, thunks, pc, blk, proposal_base, disk, persisted,
                   ledger>>

(***************************************************************************)
(* Validation: SpeedexVM::exec_block, on a block that follows the last one *)
(* committed; consensus has rewound any proposal first.                    *)
(***************************************************************************)

\* validate_transaction_block.  A new offer below the header's threshold is
\* cleared at once and never enters the book.
ValidateTxs(b) ==
    /\ pc = "idle" /\ last_committed = proposal_base /\ proposal_base < MaxBlock
    /\ CancelAllowed(b.cancels)
    /\ LET inserted == {k \in b.new : k >= b.key}
       IN /\ uncommitted_offers' = uncommitted_offers \cup inserted
          /\ rollback_marks' = rollback_marks \cup inserted
    /\ marked' = marked \cup b.cancels
    /\ blk' = b
    /\ pc' = "vcommit"
    /\ UNCHANGED <<committed_offers, junk, thunks, proposal_base,
                   last_committed, disk, persisted, ledger>>

\* Its transactions are refused: nothing is rolled back.  The new offers are
\* still in the threads' own views, unless it was check_valid_state, after
\* the merge, that refused.
RefuseTxs(b, merged) ==
    /\ pc = "idle" /\ last_committed = proposal_base /\ proposal_base < MaxBlock
    /\ (b.cancels = {} /\ ~merged) \/ "tx_failure" \in Allow
    /\ LET inserted == IF merged THEN {k \in b.new : k >= b.key} ELSE {}
       IN /\ uncommitted_offers' = uncommitted_offers \cup inserted
          /\ rollback_marks' = rollback_marks \cup inserted
    /\ marked' = marked \cup b.cancels
    /\ proposal_base' = proposal_base + 1
    /\ last_committed' = last_committed + 1
    /\ ledger' = Append(ledger, Lead)
    /\ UNCHANGED <<committed_offers, junk, thunks, pc, blk, disk, persisted>>

\* tentative_clear_offers_for_validation with a header that fits the book.
TentativeClear ==
    /\ pc = "vclear"
    /\ IF blk.key = Top
       THEN blk.sell = 0
       ELSE committed_offers[blk.key] # 0 /\ blk.sell <= committed_offers[blk.key]
    /\ thunks' = SetTop(ClearedThunk(TopThunk, blk.key, blk.sell))
    /\ committed_offers' = ClearedBook(blk.key, blk.sell)
    /\ rollback_marks' = rollback_marks \ {blk.key}
    /\ pc' = "decide"
    /\ UNCHANGED <<marked, uncommitted_offers, junk, blk, proposal_base,
                   last_committed, disk, persisted, ledger>>

\* The header does not fit: no offer at the threshold, or too much is sold,
\* in which case the offer is put back, without a rollback mark.
TentativeClearFails ==
    /\ pc = "vclear"
    /\ IF blk.key = Top
       THEN blk.sell # 0
       ELSE committed_offers[blk.key] = 0 \/ blk.sell > committed_offers[blk.key]
    /\ rollback_marks' = rollback_marks \ {blk.key}
    /\ pc' = "fail"
    /\ UNCHANGED <<committed_offers, marked, uncommitted_offers, junk, thunks,
                   blk, proposal_base, last_committed, disk, persisted, ledger>>

\* An earlier orderbook of the same range failed; this one is not reached.
TentativeClearSkipped ==
    /\ pc = "vclear"
    /\ pc' = "fail"
    /\ UNCHANGED <<book_vars, thunks, blk, proposal_base, last_committed, disk,
                   persisted, ledger>>

\* finalize_validation, after every check of the block has passed.
FinalizeValidation ==
    /\ pc = "decide"
    /\ rollback_marks' = {}
    /\ ledger' = Record(Lead.book, blk)
    /\ proposal_base' = proposal_base + 1
    /\ last_committed' = last_committed + 1
    /\ pc' = "idle" /\ blk' = NoBlock
    /\ UNCHANGED <<committed_offers, marked, uncommitted_offers, junk, thunks,
                   disk, persisted>>

\* rollback_validation: this book or any other check of the block failed.
\* exists_partial_exec may be read before it was written.
RollbackValidation ==
    /\ pc \in {"decide", "fail"}
    /\ LET t == [TopThunk EXCEPT !.uncommitted_offers_vec = {}]
       IN /\ \/ "partial_new" \in Allow
             \/ TopThunk.uncommitted_offers_vec \subseteq rollback_marks
          /\ committed_offers' =
                undo_thunk(Without(committed_offers, rollback_marks), t)
          /\ \E insert \in UnsetReads(t) : junk' = (junk \/ insert)
    /\ thunks' = pop_top_thunk(thunks)
    /\ uncommitted_offers' = {} /\ rollback_marks' = {}
    /\ proposal_base' = proposal_base + 1
    /\ last_committed' = last_committed + 1
    /\ ledger' = Append(ledger, Lead)
    /\ pc' = "idle" /\ blk' = NoBlock
    /\ UNCHANGED <<marked, disk, persisted>>

(***************************************************************************)
(* Persistence and rewinding.                                              *)
(***************************************************************************)

\* persist_lmdb(n) by the asynchronous persister, at any moment.  The write
\* transaction is atomic, and excludes another one.
Persist(n) ==
    /\ n \in (persisted + 1)..last_committed
    /\ BatchAllowed(UpTo(n))
    /\ disk' = IF UpTo(n) = <<>> THEN disk ELSE write_thunks(disk, UpTo(n))
    /\ thunks' = After(n)
    /\ persisted' = n
    /\ UNCHANGED <<book_vars, pc, blk, proposal_base, last_committed, ledger>>

\* rewind_structs_to_committed_height: persist what is committed, then
\* rollback_thunks undoes the others, the oldest first.
Rewind ==
    LET n == last_committed
    IN /\ pc = "idle" /\ n < proposal_base
       /\ BatchAllowed(UpTo(n)) /\ RewindAllowed(After(n))
       /\ disk' = IF UpTo(n) = <<>> THEN disk ELSE write_thunks(disk, UpTo(n))
       /\ persisted' = n
       /\ committed_offers' =
            rollback_thunks(committed_offers, After(n))[Len(After(n))]
       /\ thunks' = <<>>
       /\ proposal_base' = n
       /\ ledger' = SubSeq(ledger, 1, n + 1)
       /\ UNCHANGED <<marked, rollback_marks, uncommitted_offers, junk, pc, blk,
                      last_committed>>

News == SUBSET (Key \ Lead.born)
Cancels == SUBSET (Offers(committed_offers) \ marked)

Next ==
    \/ \E new \in News, cancels \in Cancels : ProduceTxs(new, cancels)
    \/ TentativeCommit
    \/ \E key \in 1..Top, sell \in 0..Amount : ProcessClearOffers(key, sell)
    \/ \E n \in 1..MaxBlock : LogCommitment(n)
    \/ \E b \in [new : News, cancels : Cancels, key : 1..Top, sell : 0..Amount + 1] :
          \/ ValidateTxs(b)
          \/ \E merged \in BOOLEAN : RefuseTxs(b, merged)
    \/ TentativeClear
    \/ TentativeClearFails
    \/ TentativeClearSkipped
    \/ FinalizeValidation
    \/ RollbackValidation
    \/ \E n \in 1..MaxBlock : Persist(n)
    \/ Rewind

Spec == Init /\ [][Next]_vars

-----------------------------------------------------------------------------
Thunk == [block : 1..MaxBlock, uncommitted_offers_vec : SUBSET Key,
          deleted_keys : Book, cleared_offers : Book,
          partial_exec_key : 1..Top, partial_exec_amount : 0..Amount,
          preexecute : 0..Amount, exists_partial_exec : {"unset", "no", "yes"}]

(***************************************************************************)
(* Types.  A book or a disk that holds more than was ever offered, or less *)
(* than nothing, makes write_thunks throw ("can't have partial exec        *)
(* offer.amount < thunk[i].partial_exec_amount").                          *)
(***************************************************************************)
TypeOK ==
    /\ committed_offers \in Book /\ disk \in Book
    /\ marked \subseteq Key /\ rollback_marks \subseteq Key
    /\ uncommitted_offers \subseteq Key
    /\ thunks \in Seq(Thunk)
    /\ pc \in {"idle", "commit", "clear", "vcommit", "vclear", "decide", "fail"}
    /\ blk \in [new : SUBSET Key, cancels : SUBSET Key, key : 1..Top,
                sell : 0..Amount + 1]
    /\ junk \in BOOLEAN
    /\ proposal_base \in 0..MaxBlock /\ last_committed \in 0..proposal_base
    /\ persisted \in 0..last_committed
    /\ ledger \in Seq([book : Book, born : SUBSET Key])
    /\ Len(ledger) = proposal_base + 1

(***************************************************************************)
(* Between blocks the book holds exactly the offers the executed blocks    *)
(* left, whatever was tried in between: validations rolled back at any     *)
(* stage, proposals abandoned ("rollback_validation (undoes all state      *)
(* changes)", orderbook.h).                                                *)
(***************************************************************************)
BookExact ==
    pc = "idle" => committed_offers = Lead.book /\ ~junk

(***************************************************************************)
(* The disk holds exactly the book after the last persisted block, however *)
(* the blocks were batched: what a restart loads is a state the chain went *)
(* through (write_thunks: "Commits everything up to and including          *)
(* current_block_number").                                                 *)
(***************************************************************************)
PersistExact == disk = ledger[persisted + 1].book

(***************************************************************************)
(* Thunks are in block order, none of them is on disk already, and there   *)
(* is one for the block in progress: otherwise add_new_thunk_nolock        *)
(* ("thunks in the wrong order!"), write_thunks ("too small                *)
(* current_block_number") or get_top_thunk_nolock throws.  The state keeps *)
(* its types.                                                              *)
(***************************************************************************)
ThunksOrdered ==
    /\ TypeOK
    /\ \A i \in DOMAIN thunks : persisted < thunks[i].block
    /\ \A i, j \in DOMAIN thunks : i < j => thunks[i].block < thunks[j].block
    /\ \A i \in DOMAIN thunks : thunks[i].block > proposal_base <=>
          i = Len(thunks) /\ pc \in {"clear", "vclear", "decide", "fail"}
    /\ pc \in {"clear", "vclear", "decide", "fail"} => thunks # <<>>
=============================================================================
