------------------------- MODULE TxRefinement_proof -------------------------
(***************************************************************************)
(* Block production implements the atomic ledger, and leaves behind what   *)
(* the transactions of the block amount to, for any number of workers,     *)
(* accounts, assets and transactions.                                      *)
(***************************************************************************)
EXTENDS TxRefinement, TxProcessing_proof

-----------------------------------------------------------------------------
(***************************************************************************)
(* Adding up what the parts of transactions take and give.                 *)
(***************************************************************************)
\* Tables over disjoint sets of rows are put together.
LEMMA CellsJoined ==
  ASSUME NEW f, NEW g, NEW h, DOMAIN h = DOMAIN f \cup DOMAIN g,
         DOMAIN f \cap DOMAIN g = {},
         \A c \in DOMAIN f : h[c] = f[c], \A c \in DOMAIN g : h[c] = g[c],
         IsFiniteSet(Cells(f)), IsFiniteSet(Cells(g))
  PROVE  /\ IsFiniteSet(Cells(h))
         /\ Cardinality(Cells(h)) = Cardinality(Cells(f)) + Cardinality(Cells(g))
<1>1. \A z : z \in Cells(f) <=> \E c \in DOMAIN f : z \in {c} \X f[c]
  BY DEF Cells
<1>2. \A z : z \in Cells(g) <=> \E c \in DOMAIN g : z \in {c} \X g[c]
  BY DEF Cells
<1>3. \A z : z \in Cells(h) <=> \E c \in DOMAIN h : z \in {c} \X h[c]
  BY DEF Cells
<1>4. \A z : z \in Cells(h) <=> z \in Cells(f) \/ z \in Cells(g)
  <2> SUFFICES ASSUME NEW z PROVE z \in Cells(h) <=> z \in Cells(f) \/ z \in Cells(g)
    OBVIOUS
  <2>1. ASSUME NEW c \in DOMAIN h, z \in {c} \X h[c] PROVE z \in Cells(f) \/ z \in Cells(g)
    BY <1>1, <1>2, <2>1
  <2>2. ASSUME NEW c \in DOMAIN f, z \in {c} \X f[c] PROVE z \in Cells(h)
    BY <1>3, <2>2
  <2>3. ASSUME NEW c \in DOMAIN g, z \in {c} \X g[c] PROVE z \in Cells(h)
    BY <1>3, <2>3
  <2> QED
    BY <1>1, <1>2, <1>3, <2>1, <2>2, <2>3
<1>5. ASSUME NEW z, z \in Cells(f), z \in Cells(g) PROVE FALSE
  <2>1. PICK c \in DOMAIN f : z \in {c} \X f[c]
    BY <1>1, <1>5
  <2>2. PICK d \in DOMAIN g : z \in {d} \X g[d]
    BY <1>2, <1>5
  <2>3. z[1] = c /\ z[1] = d
    BY <2>1, <2>2
  <2> QED
    BY <2>3
<1>6. PICK F, G, H : F = Cells(f) /\ G = Cells(g) /\ H = Cells(h)
  OBVIOUS
<1>7. H = F \cup G /\ F \cap G = {} /\ IsFiniteSet(F) /\ IsFiniteSet(G)
  BY <1>4, <1>5, <1>6
<1>8. /\ IsFiniteSet(F \cup G)
      /\ Cardinality(F \cup G) = Cardinality(F) + Cardinality(G) - Cardinality(F \cap G)
  BY <1>7, FS_Union
<1>9. Cardinality(F \cap G) = 0 /\ Cardinality(F) \in Nat /\ Cardinality(G) \in Nat
  BY <1>7, FS_EmptySet, FS_CardinalityType
<1> QED
  BY <1>6, <1>7, <1>8, <1>9

\* One row.
LEMMA CellsOne ==
  ASSUME NEW c, NEW n \in Nat, NEW f, f = [d \in {c} |-> 1 .. n]
  PROVE  IsFiniteSet(Cells(f)) /\ Cardinality(Cells(f)) = n
<1>1. Cells(f) = {c} \X (1 .. n)
  <2>1. DOMAIN f = {c} /\ f[c] = 1 .. n
    OBVIOUS
  <2> QED
    BY <2>1 DEF Cells
<1>2. IsFiniteSet(1 .. n) /\ Cardinality(1 .. n) = n
  BY SizeUpTo
<1>3. IsFiniteSet({c} \X (1 .. n)) /\ Cardinality({c} \X (1 .. n)) = Cardinality(1 .. n)
  BY <1>2, RowCardinality
<1> QED
  BY <1>1, <1>2, <1>3

\* The cells behind Taken and Given.
TakenCells(P, x) == Cells([c \in P |-> 1 .. Takes(c, x)])
GivenCells(P, x) == Cells([c \in P |-> 1 .. Gives(c, x)])
FiniteParts(P, x) == IsFiniteSet(TakenCells(P, x)) /\ IsFiniteSet(GivenCells(P, x))

LEMMA PartsJoined ==
  ASSUME NEW P, NEW Q, NEW x, FiniteParts(P, x), FiniteParts(Q, x), P \cap Q = {},
         NEW R, R = P \cup Q
  PROVE  /\ FiniteParts(R, x)
         /\ Taken(R, x) = Taken(P, x) + Taken(Q, x)
         /\ Given(R, x) = Given(P, x) + Given(Q, x)
<1>1. /\ IsFiniteSet(TakenCells(P \cup Q, x))
      /\ Cardinality(TakenCells(P \cup Q, x))
         = Cardinality(TakenCells(P, x)) + Cardinality(TakenCells(Q, x))
  <2>1. PICK f, g, h : /\ f = [c \in P |-> 1 .. Takes(c, x)] /\ g = [c \in Q |-> 1 .. Takes(c, x)]
                       /\ h = [c \in P \cup Q |-> 1 .. Takes(c, x)]
    OBVIOUS
  <2>2. /\ DOMAIN f = P /\ DOMAIN g = Q /\ DOMAIN h = P \cup Q
        /\ DOMAIN h = DOMAIN f \cup DOMAIN g /\ DOMAIN f \cap DOMAIN g = {}
        /\ \A c \in DOMAIN f : h[c] = f[c]
        /\ \A c \in DOMAIN g : h[c] = g[c]
    BY <2>1
  <2>3. IsFiniteSet(Cells(f)) /\ IsFiniteSet(Cells(g))
    BY <2>1 DEF FiniteParts, TakenCells
  <2>4. IsFiniteSet(Cells(h)) /\ Cardinality(Cells(h)) = Cardinality(Cells(f)) + Cardinality(Cells(g))
    BY <2>2, <2>3, CellsJoined
  <2> QED
    BY <2>1, <2>4 DEF TakenCells
<1>2. /\ IsFiniteSet(GivenCells(P \cup Q, x))
      /\ Cardinality(GivenCells(P \cup Q, x))
         = Cardinality(GivenCells(P, x)) + Cardinality(GivenCells(Q, x))
  <2>1. PICK f, g, h : /\ f = [c \in P |-> 1 .. Gives(c, x)] /\ g = [c \in Q |-> 1 .. Gives(c, x)]
                       /\ h = [c \in P \cup Q |-> 1 .. Gives(c, x)]
    OBVIOUS
  <2>2. /\ DOMAIN f = P /\ DOMAIN g = Q /\ DOMAIN h = P \cup Q
        /\ DOMAIN h = DOMAIN f \cup DOMAIN g /\ DOMAIN f \cap DOMAIN g = {}
        /\ \A c \in DOMAIN f : h[c] = f[c]
        /\ \A c \in DOMAIN g : h[c] = g[c]
    BY <2>1
  <2>3. IsFiniteSet(Cells(f)) /\ IsFiniteSet(Cells(g))
    BY <2>1 DEF FiniteParts, GivenCells
  <2>4. IsFiniteSet(Cells(h)) /\ Cardinality(Cells(h)) = Cardinality(Cells(f)) + Cardinality(Cells(g))
    BY <2>2, <2>3, CellsJoined
  <2> QED
    BY <2>1, <2>4 DEF GivenCells
<1> QED
  BY <1>1, <1>2 DEF FiniteParts, Taken, Given, TakenCells, GivenCells

LEMMA PartsTypes ==
  ASSUME NEW P, NEW x, FiniteParts(P, x)
  PROVE  Taken(P, x) \in Nat /\ Given(P, x) \in Nat
BY FS_CardinalityType DEF FiniteParts, Taken, Given, TakenCells, GivenCells

LEMMA PartsNone ==
  ASSUME NEW x
  PROVE  FiniteParts({}, x) /\ Taken({}, x) = 0 /\ Given({}, x) = 0
<1>1. TakenCells({}, x) = {} /\ GivenCells({}, x) = {}
  BY DEF TakenCells, GivenCells, Cells
<1> QED
  BY <1>1, FS_EmptySet DEF FiniteParts, Taken, Given, TakenCells, GivenCells

LEMMA PartsOne ==
  ASSUME NEW c, NEW x, Takes(c, x) \in Nat, Gives(c, x) \in Nat
  PROVE  /\ FiniteParts({c}, x)
         /\ Taken({c}, x) = Takes(c, x) /\ Given({c}, x) = Gives(c, x)
<1>1. PICK f, g : f = [d \in {c} |-> 1 .. Takes(d, x)] /\ g = [d \in {c} |-> 1 .. Gives(d, x)]
  OBVIOUS
<1>2. PICK m, n : m = Takes(c, x) /\ n = Gives(c, x)
  OBVIOUS
<1>3. f = [d \in {c} |-> 1 .. m] /\ g = [d \in {c} |-> 1 .. n]
  BY <1>1, <1>2
<1>4. m \in Nat /\ n \in Nat
  BY <1>2
<1>5. IsFiniteSet(Cells(f)) /\ Cardinality(Cells(f)) = m
  BY <1>3, <1>4, CellsOne
<1>6. IsFiniteSet(Cells(g)) /\ Cardinality(Cells(g)) = n
  BY <1>3, <1>4, CellsOne
<1> QED
  BY <1>1, <1>2, <1>5, <1>6 DEF FiniteParts, Taken, Given, TakenCells, GivenCells
LEMMA Divides ==
  ASSUME NEW M \in Nat \ {0}, NEW a \in Nat, a % M = 0
  PROVE  \E x \in Int : a = M * x
<1>1. PICK e : e = a \div M
  OBVIOUS
<1>2. a = M * e + (a % M) /\ e \in Int
  BY <1>1
<1>3. a = M * e
  BY <1>2
<1> QED
  BY <1>2, <1>3

LEMMA ModUnique ==
  ASSUME NEW M \in Nat \ {0}, NEW a \in Nat, NEW b \in Nat, a % M = 0, b % M = 0,
         NEW p \in 0 .. M - 1, NEW q \in 0 .. M - 1, a + p = b + q
  PROVE  a = b /\ p = q
<1>1. PICK x \in Int : a = M * x
  BY Divides
<1>2. PICK y \in Int : b = M * y
  BY Divides
<1>3. PICK d \in Int : d = x - y
  OBVIOUS
<1>4. M * d = q - p
  <2>1. M * d = M * x - M * y
    BY <1>3
  <2> QED
  BY <1>1, <1>2, <2>1
<1>5. CASE d >= 1
  <2>1. M * d >= M BY <1>5
  <2> QED
  BY <1>4, <2>1
<1>6. CASE d <= -1
  <2>1. M * d <= -M BY <1>6
  <2> QED
  BY <1>4, <2>1
<1>7. CASE d = 0
  BY <1>4, <1>7
<1> QED
  BY <1>5, <1>6, <1>7

LEMMA OffsetInverse ==
  ASSUME NEW M \in Nat \ {0}, NEW a \in Nat, NEW b \in Nat, a % M = 0, b % M = 0
  PROVE  b + (((a - b) \div M) - 1 + 1) * M = a
<1>1. PICK x \in Int : a = M * x
  BY Divides
<1>2. PICK y \in Int : b = M * y
  BY Divides
<1>3. PICK d, c : d = x - y /\ c = a - b
  OBVIOUS
<1>4. c = M * d /\ c \in Int /\ d \in Int
  <2>1. M * d = M * x - M * y
    BY <1>3
  <2> QED
  BY <1>1, <1>2, <1>3, <2>1
<1>5. c \div M = d
  <2>1. PICK e, r : e = c \div M /\ r = c % M
    OBVIOUS
  <2>2. c = M * e + r /\ e \in Int /\ r \in 0 .. M - 1
    BY <1>4, <2>1
  <2>3. PICK g \in Int : g = d - e
    BY <1>4, <2>2
  <2>4. M * g = r
    <3>1. M * g = M * d - M * e
      BY <1>4, <2>2, <2>3
    <3> QED
  BY <1>4, <2>2, <3>1
  <2>5. CASE g >= 1
    <3>1. M * g >= M BY <2>5
    <3> QED
  BY <2>2, <2>4, <3>1
  <2>6. CASE g <= -1
    <3>1. M * g <= -M BY <2>6
    <3> QED
  BY <2>2, <2>4, <3>1
  <2>7. CASE g = 0
    BY <1>4, <2>1, <2>2, <2>3, <2>7
  <2> QED
  BY <2>5, <2>6, <2>7
<1>6. (((a - b) \div M) - 1 + 1) = d
  BY <1>3, <1>4, <1>5
<1>7. d * M = c
  BY <1>4
<1> QED
  BY <1>3, <1>4, <1>6, <1>7
-----------------------------------------------------------------------------
(***************************************************************************)
(* The transactions that have taken effect, and the operations of worker   *)
(* w's transaction that hold what they reserve: an operation in progress   *)
(* has its account id or its offer before it is paid for.                  *)
(***************************************************************************)
Effective ==
  {t \in TxId : status[t] = "SUCCESS" \/ \E w \in Worker : cur_tx[w] = t /\ pc[w] = "commit"}

InHand(w) ==
  IF pc[w] \in {"charge", "cas"} THEN 1 .. op_idx[w] ELSE CompletedOps(w)

Active == Working \cup {"commit"}

OpIs(t, i, type) ==
  i \in 1 .. Len(Tx[t].operations) /\ Tx[t].operations[i].type = type

\* A transaction past the checks has a multiple of MAX_OPS_PER_TX for its
\* sequence number; past the reservation the number is in the window.
WellFormed ==
  /\ \A w \in Worker : IF pc[w] = "idle" THEN cur_tx[w] = NoTx
                       ELSE check_tx_format_parameters(cur_tx[w])
  /\ \A t \in TxId : HoldsSeqNum(t) => check_tx_format_parameters(t) /\ SeqNumUsable(t)

\* Every bit, mark, id and offer belongs to a transaction that holds it.
BitsExact ==
  \A a \in Account : \A o \in sequence_number_vec[a] :
    \E t \in TxId : HoldsSeqNum(t) /\ Tx[t].sourceAccount = a /\ seq_num_offset(t) = o

MarksExact ==
  \A k \in marked_for_deletion : \E t \in TxId : \E i \in Nat :
    HoldsCancel(t, i) /\ cancel_key(t, i) = k

IdsOwned ==
  \A a \in reserved_account_ids : \/ \E e \in uncommitted_db : e.id = a
                                  \/ \E w \in Worker : a \in new_accounts[w]
EntriesBacked ==
  \A e \in uncommitted_db :
    /\ e.by \in Effective
    /\ \E i \in Nat : OpIs(e.by, i, "CREATE_ACCOUNT") /\ Tx[e.by].operations[i].account = e.id
CreationsKept ==
  \A t \in Effective : \A i \in Nat : OpIs(t, i, "CREATE_ACCOUNT") =>
    \/ \E e \in uncommitted_db : e.id = Tx[t].operations[i].account
    \/ \E w \in Worker : pc[w] = "commit" /\ Tx[t].operations[i].account \in new_accounts[w]
CreatedBy(w) ==
  /\ pc[w] \in Active => \A a \in new_accounts[w] : \E i \in InHand(w) :
       OpIs(cur_tx[w], i, "CREATE_ACCOUNT") /\ Tx[cur_tx[w]].operations[i].account = a
  /\ pc[w] \in Working => \A i \in InHand(w) : OpIs(cur_tx[w], i, "CREATE_ACCOUNT") =>
       Tx[cur_tx[w]].operations[i].account \in new_accounts[w]
IdsExact == IdsOwned /\ EntriesBacked /\ CreationsKept /\ \A w \in Worker : CreatedBy(w)

Placed(t, i, o) == OpIs(t, i, "CREATE_SELL_OFFER") /\ o = make_offer(t, i)
OffersBacked(w) ==
  \A o \in new_offers[w] : \E t \in TxId : \E i \in Nat :
    /\ Placed(t, i, o)
    /\ status[t] = "SUCCESS" \/ (cur_tx[w] = t /\ i \in InHand(w))
OffersPlaced(w) ==
  \A i \in InHand(w) :
    OpIs(cur_tx[w], i, "CREATE_SELL_OFFER") => make_offer(cur_tx[w], i) \in new_offers[w]
OffersMerged ==
  /\ \A o \in uncommitted_offers : \E t \in TxId : \E i \in Nat :
       Placed(t, i, o) /\ status[t] = "SUCCESS"
  /\ phase = "process" => uncommitted_offers = {}
  /\ phase = "done" => \A w \in Worker : new_offers[w] = {}
OffersKept ==
  \A t \in TxId : \A i \in Nat : OpIs(t, i, "CREATE_SELL_OFFER") /\ status[t] = "SUCCESS" =>
    make_offer(t, i) \in uncommitted_offers \/ \E w \in Worker : make_offer(t, i) \in new_offers[w]
OffersExact ==
  /\ \A w \in Worker : OffersBacked(w) /\ OffersPlaced(w)
  /\ OffersMerged /\ OffersKept

\* Operation i of t passed the checks that the balances play no part in.
Sound(t, i) ==
  LET op == Tx[t].operations[i]
  IN /\ op.type \in {"PAYMENT", "CREATE_ACCOUNT", "CREATE_SELL_OFFER"} => op.amount > 0
     /\ op.type = "MONEY_PRINTER" => op.amount >= 0
     /\ op.type = "PAYMENT" => op.account \in Existing \cup Ledger!Creates(t, i - 1)
     /\ op.type = "CREATE_ACCOUNT" => op.account \notin Existing \cup Ledger!Creates(t, i - 1)
     /\ op.type = "CANCEL_SELL_OFFER" =>
          /\ cancel_key(t, i) \in DOMAIN RestingOffer \ Ledger!Cancels(t, i - 1)
          /\ RestingOffer[cancel_key(t, i)].sellAsset = op.asset

OpsSound == \A w \in Worker : pc[w] \in Active => \A i \in InHand(w) : Sound(cur_tx[w], i)

\* The parts of t up to operation k.
UpTo(t, k) == {t} \X (0 .. k)

\* What slot x of a view amounts to is what the parts that are done give and take.
Net(w, x) == available_buffer[w][x] + new_balance[w][x] + available_side_effects[w][x]

Tracked(w) ==
  /\ pc[w] \in {"idle", "reserve"} => new_balance[w] = NoAmounts
  /\ pc[w] \in Working => \A x \in Slot :
       /\ Net(w, x) + Taken(UpTo(cur_tx[w], op_idx[w] - 1), x)
          = Given(UpTo(cur_tx[w], op_idx[w] - 1), x)
       /\ new_balance[w][x] # 0 => x[1] \in new_accounts[w]

\* What was withdrawn would have paid for every part at its time.
Afforded(w) ==
  pc[w] \in Active => \A x \in Slot : \A k \in 0 .. op_idx[w] - 1 :
    Taken(UpTo(cur_tx[w], k), x) + available_side_effects[w][x]
      <= Given(UpTo(cur_tx[w], k - 1), x)

Finite(x) ==
  /\ IsFiniteSet(Cells(PendingUnits(x))) /\ IsFiniteSet(Cells(NewUnits(x)))
  /\ IsFiniteSet(Cells([c \in PartsOf(Effective) |-> 1 .. Takes(c, x)]))
  /\ IsFiniteSet(Cells([c \in PartsOf(Effective) |-> 1 .. Gives(c, x)]))

Balanced ==
  \A x \in Slot :
    /\ Finite(x)
    /\ LedgerBalance[x] + Taken(PartsOf(Effective), x)
       = InitAvailable[x] + Given(PartsOf(Effective), x)

EInv ==
  /\ WellFormed /\ BitsExact /\ MarksExact /\ IdsExact /\ OffersExact /\ OpsSound
  /\ \A w \in Worker : Tracked(w) /\ Afforded(w)
  /\ Balanced

LEMMA PartAmounts ==
  ASSUME NEW t \in TxId, NEW i \in 0 .. Len(Tx[t].operations), i # 0 => Sound(t, i), NEW x
  PROVE  Takes(<<t, i>>, x) \in Nat /\ Gives(<<t, i>>, x) \in Nat
<1>1. fee_required(t) \in Nat
  BY TxType
<1>2. CASE i = 0
  BY <1>1, <1>2 DEF Takes, Gives
<1>3. CASE i # 0
  <2>1. i \in 1 .. Len(Tx[t].operations)
    BY <1>3, TxType
  <2>2. PICK op, src, amt : /\ op = Tx[t].operations[i] /\ src = Tx[t].sourceAccount
                            /\ amt = RestingOffer[cancel_key(t, i)].amount
    OBVIOUS
  <2>3. op \in Operation /\ op.amount \in Int
    BY <2>1, <2>2, TxType
  <2>4. op.type \in {"PAYMENT", "CREATE_ACCOUNT", "CREATE_SELL_OFFER", "MONEY_PRINTER"} => op.amount \in Nat
    BY <1>3, <2>2, <2>3 DEF Sound
  <2>5. op.type = "CANCEL_SELL_OFFER" => amt \in Nat
    <3> SUFFICES ASSUME op.type = "CANCEL_SELL_OFFER" PROVE amt \in Nat
      OBVIOUS
    <3>1. cancel_key(t, i) \in DOMAIN RestingOffer
      BY <1>3, <2>2 DEF Sound
    <3>2. RestingOffer[cancel_key(t, i)] \in Offer /\ RestingOffer[cancel_key(t, i)].amount > 0
      BY <3>1, ConstantAssumption
    <3> QED
      BY <2>2, <3>2 DEF Offer
  <2>6. Takes(<<t, i>>, x)
         = IF \/ op.type = "CREATE_ACCOUNT" /\ x = <<src, NATIVE_ASSET>>
              \/ op.type \in {"PAYMENT", "CREATE_SELL_OFFER"} /\ x = <<src, op.asset>>
           THEN op.amount ELSE 0
    BY <1>3, <2>2 DEF Takes
  <2>7. Gives(<<t, i>>, x)
         = IF \/ op.type = "CREATE_ACCOUNT" /\ x = <<op.account, NATIVE_ASSET>>
              \/ op.type = "PAYMENT" /\ x = <<op.account, op.asset>>
              \/ op.type = "MONEY_PRINTER" /\ x = <<src, op.asset>>
           THEN op.amount
           ELSE IF op.type = "CANCEL_SELL_OFFER" /\ x = <<src, op.asset>> THEN amt ELSE 0
    BY <1>3, <2>2 DEF Gives
  <2>8. Takes(<<t, i>>, x) \in Nat
    BY <2>4, <2>6
  <2>9. Gives(<<t, i>>, x) \in Nat
    BY <2>4, <2>5, <2>7
  <2> QED
    BY <2>8, <2>9
<1> QED
  BY <1>2, <1>3

LEMMA NoParts ==
  ASSUME NEW t, NEW x
  PROVE  /\ UpTo(t, -1) = {} /\ FiniteParts(UpTo(t, -1), x)
         /\ Taken(UpTo(t, -1), x) = 0 /\ Given(UpTo(t, -1), x) = 0
<1>1. UpTo(t, -1) = {}
  <2>1. 0 .. -1 = {}
    OBVIOUS
  <2> QED
    BY <2>1 DEF UpTo
<1> QED
  BY <1>1, PartsNone

LEMMA OneMore ==
  ASSUME NEW t, NEW k \in Nat
  PROVE  UpTo(t, k) = UpTo(t, k - 1) \cup {<<t, k>>} /\ UpTo(t, k - 1) \cap {<<t, k>>} = {}
<1>1. 0 .. k = (0 .. k - 1) \cup {k} /\ k \notin 0 .. k - 1
  OBVIOUS
<1> QED
  BY <1>1 DEF UpTo

\* What the first parts of a transaction take and give, one by one.
AddUp(t, k, x) ==
  /\ FiniteParts(UpTo(t, k), x)
  /\ Taken(UpTo(t, k), x) \in Nat /\ Given(UpTo(t, k), x) \in Nat
  /\ Takes(<<t, k>>, x) \in Nat /\ Gives(<<t, k>>, x) \in Nat
  /\ Taken(UpTo(t, k - 1), x) \in Nat /\ Given(UpTo(t, k - 1), x) \in Nat
  /\ Taken(UpTo(t, k), x) = Taken(UpTo(t, k - 1), x) + Takes(<<t, k>>, x)
  /\ Given(UpTo(t, k), x) = Given(UpTo(t, k - 1), x) + Gives(<<t, k>>, x)

LEMMA PartsAddUp ==
  ASSUME NEW t \in TxId, NEW n \in 0 .. Len(Tx[t].operations),
         \A i \in 1 .. n : Sound(t, i), NEW x
  PROVE  \A k \in 0 .. n : AddUp(t, k, x)
<1>1. Len(Tx[t].operations) \in Nat /\ n \in Nat
  BY TxType
<1>2. ASSUME NEW k \in 0 .. n, FiniteParts(UpTo(t, k - 1), x) PROVE AddUp(t, k, x)
  <2>1. k \in 0 .. Len(Tx[t].operations) /\ k \in Nat /\ (k # 0 => Sound(t, k))
    BY <1>1
  <2>2. Takes(<<t, k>>, x) \in Nat /\ Gives(<<t, k>>, x) \in Nat
    BY <2>1, PartAmounts
  <2>3. PICK P, Q : P = UpTo(t, k - 1) /\ Q = {<<t, k>>}
    OBVIOUS
  <2>4. UpTo(t, k) = P \cup Q /\ P \cap Q = {}
    BY <2>1, <2>3, OneMore
  <2>5. FiniteParts(Q, x) /\ Taken(Q, x) = Takes(<<t, k>>, x) /\ Given(Q, x) = Gives(<<t, k>>, x)
    BY <2>2, <2>3, PartsOne
  <2>6. FiniteParts(P, x)
    BY <1>2, <2>3
  <2>7. /\ FiniteParts(UpTo(t, k), x)
        /\ Taken(UpTo(t, k), x) = Taken(P, x) + Taken(Q, x)
        /\ Given(UpTo(t, k), x) = Given(P, x) + Given(Q, x)
    BY <2>4, <2>5, <2>6, PartsJoined
  <2>8. Taken(P, x) \in Nat /\ Given(P, x) \in Nat
    BY <2>6, PartsTypes
  <2>9. Taken(UpTo(t, k), x) \in Nat /\ Given(UpTo(t, k), x) \in Nat
    BY <2>4, <2>7, PartsTypes
  <2> QED
    BY <2>2, <2>3, <2>4, <2>5, <2>7, <2>8, <2>9 DEF AddUp
<1>3. \A k \in 0 .. n : FiniteParts(UpTo(t, k - 1), x)
  <2> DEFINE G == {k \in 0 .. n : FiniteParts(UpTo(t, k - 1), x)}
  <2>1. 0 \in G
    BY <1>1, NoParts
  <2>2. ASSUME NEW k \in 1 .. n, k - 1 \in G PROVE k \in G
    <3>1. k - 1 \in 0 .. n /\ FiniteParts(UpTo(t, (k - 1) - 1), x)
      BY <2>2
    <3>2. AddUp(t, k - 1, x)
      BY <1>2, <3>1
    <3> QED
      BY <1>1, <3>2 DEF AddUp
  <2> HIDE DEF G
  <2>3. \A k \in 0 .. n : k \in G
    BY <1>1, <2>1, <2>2, Reached
  <2> QED
    BY <2>3 DEF G
<1> QED
  BY <1>2, <1>3
-----------------------------------------------------------------------------
(***************************************************************************)
(* What a step of worker w does to everything that the mapping reads.      *)
(***************************************************************************)
trades == <<new_offers, uncommitted_offers>>

Starts(w) ==
  \E t \in TxId :
    /\ pc[w] = "idle" /\ pc'[w] = "reserve"
    /\ status[t] = "QUEUED" /\ EarlyStatus(t) = "SUCCESS"
    /\ status' = [status EXCEPT ![t] = "RUNNING"]
    /\ cur_tx[w] = NoTx /\ cur_tx'[w] = t
    /\ UNCHANGED <<available, reservations, view, op_idx, trades>>

Refuses(w) ==
  /\ \E t \in TxId, s \in Statuses \ {"SUCCESS"} :
       status[t] = "QUEUED" /\ status' = [status EXCEPT ![t] = s]
  /\ UNCHANGED <<available, reservations, view, pc, cur_tx, op_idx, trades>>

Secures(w) ==
  /\ Reserves(w) /\ SeqNumUsable(cur_tx[w])
  /\ UNCHANGED <<available, reserved_account_ids, uncommitted_db, view, trades>>

\* The transaction is refused, everything that it held having been returned.
Leaves(w) ==
  /\ pc[w] \in {"reserve", "unwind"} /\ pc'[w] = "idle"
  /\ cur_tx[w] \in TxId /\ cur_tx'[w] = NoTx /\ op_idx'[w] = 0
  /\ \E s \in Statuses \ {"SUCCESS"} : status' = [status EXCEPT ![cur_tx[w]] = s]
  /\ available_side_effects[w] = NoAmounts /\ available_side_effects'[w] = NoAmounts
  /\ new_accounts[w] = {} /\ new_accounts'[w] = {}
  /\ available_buffer'[w] = NoAmounts /\ new_balance'[w] = NoAmounts
  /\ sequence_number_vec' =
       IF pc[w] = "unwind"
       THEN [sequence_number_vec EXCEPT ![Source(w)] = @ \ {seq_num_offset(cur_tx[w])}]
       ELSE sequence_number_vec
  /\ UNCHANGED <<available, marked_for_deletion, reserved_account_ids, uncommitted_db, trades>>

Retries(w) ==
  /\ pc[w] \in {"charge", "cas"} /\ pc'[w] \in {"charge", "cas"}
  /\ UNCHANGED <<available, reservations, view, status, cur_tx, op_idx, trades>>

\* An operation passes its checks and goes on to its withdrawal.
Enters(w) ==
  /\ pc[w] = "op" /\ pc'[w] = "charge"
  /\ cur_tx[w] \in TxId /\ op_idx[w] \in 1 .. Len(Cur(w).operations)
  /\ CurOp(w).amount > 0
  /\ \/ /\ CurOp(w).type = "PAYMENT"
        /\ CurOp(w).account \in Existing \cup new_accounts[w]
        /\ UNCHANGED <<reserved_account_ids, new_accounts, new_offers>>
     \/ /\ CurOp(w).type = "CREATE_SELL_OFFER"
        /\ new_offers'[w] = new_offers[w] \cup {make_offer(cur_tx[w], op_idx[w])}
        /\ UNCHANGED <<reserved_account_ids, new_accounts>>
     \/ /\ CurOp(w).type = "CREATE_ACCOUNT"
        /\ CurOp(w).account \notin Existing \cup reserved_account_ids
        /\ reserved_account_ids' = reserved_account_ids \cup {CurOp(w).account}
        /\ new_accounts'[w] = new_accounts[w] \cup {CurOp(w).account}
        /\ UNCHANGED new_offers
  /\ UNCHANGED <<available, sequence_number_vec, marked_for_deletion, uncommitted_db,
                 available_buffer, available_side_effects, new_balance, status,
                 cur_tx, op_idx, uncommitted_offers>>

\* What is withdrawn from the shared balance is remembered.
Keeps(w, x) ==
  available'[x] - available_side_effects'[w][x] = available[x] - available_side_effects[w][x]

\* Slot x of the view, when part op_idx[w] of the transaction is done.
Settles(w, x) ==
  /\ Net(w, x)' = Net(w, x) - Takes(<<cur_tx[w], op_idx[w]>>, x)
                          + Gives(<<cur_tx[w], op_idx[w]>>, x)
  /\ available_side_effects'[w][x] <= available_side_effects[w][x]
  /\ Takes(<<cur_tx[w], op_idx[w]>>, x) + available_side_effects'[w][x] <= Net(w, x)
  /\ new_balance'[w][x] = new_balance[w][x] \/ x[1] \in new_accounts[w]

Proceeds(w) ==
  /\ MovesOn(w) /\ cur_tx[w] \in TxId
  /\ pc[w] = "op" =>
       /\ op_idx[w] # 0
       /\ \/ /\ CurOp(w).type = "CANCEL_SELL_OFFER"
             /\ cancel_key(cur_tx[w], op_idx[w]) \in DOMAIN RestingOffer
             /\ RestingOffer[cancel_key(cur_tx[w], op_idx[w])].sellAsset = CurOp(w).asset
          \/ CurOp(w).type = "MONEY_PRINTER" /\ CurOp(w).amount >= 0
  /\ \A x \in Slot : Settles(w, x) /\ Keeps(w, x)
  /\ UNCHANGED <<reserved_account_ids, uncommitted_db, new_accounts, trades>>

\* A step fails; an offer that was being placed is taken out again.
Abandons(w) ==
  /\ GivesUp(w) /\ cur_tx[w] \in TxId
  /\ \A x \in Slot : Keeps(w, x)
  /\ new_offers'[w] =
       IF pc[w] \in {"charge", "cas"} /\ OpIs(cur_tx[w], op_idx[w], "CREATE_SELL_OFFER")
       THEN new_offers[w] \ {make_offer(cur_tx[w], op_idx[w])} ELSE new_offers[w]
  /\ UNCHANGED <<reserved_account_ids, uncommitted_db, new_accounts, uncommitted_offers>>

TakesBack(w) ==
  /\ Undoes(w) /\ cur_tx[w] \in TxId
  /\ new_offers'[w] =
       IF OpIs(cur_tx[w], op_idx[w], "CREATE_SELL_OFFER")
       THEN new_offers[w] \ {make_offer(cur_tx[w], op_idx[w])} ELSE new_offers[w]
  /\ UNCHANGED <<available, reserved_account_ids, uncommitted_db, view, uncommitted_offers>>

Refunds(w) ==
  /\ pc[w] = "unwind"
  /\ \A x \in Slot : Keeps(w, x)
  /\ UNCHANGED <<reservations, status, cur_tx, op_idx, pc, new_accounts, trades>>

Releases(w) ==
  /\ pc[w] = "unwind"
  /\ \E a \in new_accounts[w] : /\ reserved_account_ids' = reserved_account_ids \ {a}
                                /\ new_accounts'[w] = new_accounts[w] \ {a}
  /\ UNCHANGED <<available, sequence_number_vec, uncommitted_db, marked_for_deletion,
                 available_buffer, available_side_effects, new_balance, status, cur_tx,
                 op_idx, pc, trades>>

Flushes(w) ==
  /\ pc[w] = "commit"
  /\ \A x \in Slot :
       available'[x] + available_buffer'[w][x] = available[x] + available_buffer[w][x]
  /\ UNCHANGED <<reservations, available_side_effects, new_accounts, new_balance, status,
                 cur_tx, op_idx, pc, trades>>

Publishes(w) ==
  /\ pc[w] = "commit" /\ cur_tx[w] \in TxId
  /\ \E a \in new_accounts[w] :
       /\ uncommitted_db' = uncommitted_db \cup {NewEntry(a, cur_tx[w], new_balance[w])}
       /\ new_accounts'[w] = new_accounts[w] \ {a}
  /\ UNCHANGED <<available, sequence_number_vec, reserved_account_ids, marked_for_deletion,
                 available_buffer, available_side_effects, new_balance, status, cur_tx,
                 op_idx, pc, trades>>

Returns(w) ==
  /\ pc[w] = "commit" /\ pc'[w] = "idle"
  /\ cur_tx[w] \in TxId /\ cur_tx'[w] = NoTx /\ op_idx'[w] = 0
  /\ status' = [status EXCEPT ![cur_tx[w]] = "SUCCESS"]
  /\ available_buffer[w] = NoAmounts /\ available_buffer'[w] = NoAmounts
  /\ new_accounts[w] = {} /\ new_accounts'[w] = {}
  /\ available_side_effects'[w] = NoAmounts /\ new_balance'[w] = NoAmounts
  /\ UNCHANGED <<available, reservations, trades>>

\* The other workers are where they were.
Alone(w) ==
  /\ \A v \in Worker : v # w =>
       /\ pc'[v] = pc[v] /\ cur_tx'[v] = cur_tx[v] /\ op_idx'[v] = op_idx[v]
       /\ available_buffer'[v] = available_buffer[v]
       /\ available_side_effects'[v] = available_side_effects[v]
       /\ new_accounts'[v] = new_accounts[v] /\ new_balance'[v] = new_balance[v]
       /\ new_offers'[v] = new_offers[v]
  /\ phase' = phase

Effect(w) ==
  \/ Starts(w) \/ Refuses(w) \/ Secures(w) \/ Leaves(w) \/ Retries(w) \/ Enters(w)
  \/ Proceeds(w) \/ Abandons(w) \/ TakesBack(w) \/ Refunds(w) \/ Releases(w)
  \/ Flushes(w) \/ Publishes(w) \/ Returns(w)

LEMMA StepAlone ==
  ASSUME TInv, NEW w \in Worker, WorkerStep(w)
  PROVE  Alone(w)
<1>1. new_offers \in [Worker -> SUBSET Offer]
  BY DEF TInv, TypeOK
<1>2. phase' = phase /\ \A v \in Worker : v # w => new_offers'[v] = new_offers[v]
  <2>1. CASE \/ \E t \in TxId : StartTx(w, t) \/ RejectTx(w, t)
             \/ ReserveSeqNum(w) \/ SeqNumRefused(w) \/ LoadAvailable(w) \/ CasRetry(w)
             \/ ChargeFromBuffer(w) \/ CasAvailable(w) \/ OpPayment(w) \/ OpCreateAccount(w)
             \/ OpCancelSellOffer(w) \/ OpMoneyPrinter(w)
    BY <2>1 DEF StartTx, RejectTx, ReserveSeqNum, SeqNumRefused, LoadAvailable, CasRetry,
      ChargeFromBuffer, CasAvailable, OpPayment, OpCreateAccount, OpCancelSellOffer,
      OpMoneyPrinter, OpRefused, driver
  <2>2. CASE \/ UnwindBalance(w) \/ ReleaseAccount(w) \/ ReleaseSeqNum(w)
             \/ CommitBalance(w) \/ CommitAccount(w) \/ CommitDone(w)
    BY <2>2 DEF UnwindBalance, ReleaseAccount, ReleaseSeqNum, CommitBalance, CommitAccount,
      CommitDone, driver
  <2>3. CASE InsufficientBalance(w) \/ OpCreateSellOffer(w) \/ UnwindOp(w)
    <3>1. phase' = phase
      BY <2>3 DEF InsufficientBalance, OpCreateSellOffer, UnwindOp, OpRefused, driver
    <3>2. new_offers' = new_offers \/ \E S : new_offers' = [new_offers EXCEPT ![w] = S]
      BY <2>3 DEF InsufficientBalance, DropCurrentOffer, OpCreateSellOffer, UnwindOp, OpRefused
    <3> QED
      BY <1>1, <3>1, <3>2
  <2> QED
    BY <2>1, <2>2, <2>3 DEF WorkerStep
<1> QED
  BY <1>2, OthersStay DEF Alone

\* A withdrawal succeeds, or the operation fails after it.
LEMMA SettleEffect ==
  ASSUME TInv, NEW w \in Worker, pc[w] \in {"charge", "cas"}, NEW b \in Int, NEW d \in Nat,
         Settle(w, b), ChargeAmount(w) = available_buffer[w][ChargeSlot(w)] + d - b,
         \A x \in Slot : available_side_effects'[w][x]
                         = available_side_effects[w][x] - (IF x = ChargeSlot(w) THEN d ELSE 0),
         b >= 0, NoOverdraft,
         op_idx[w] # 0 /\ CurOp(w).type = "CREATE_ACCOUNT" => CurOp(w).account \in new_accounts[w]
  PROVE  \/ Fail(w, "INVALID_AMOUNT") /\ op_idx[w] # 0 /\ CurOp(w).type = "CREATE_ACCOUNT"
         \/ result' = result /\ Advance(w) /\ \A x \in Slot : Settles(w, x)
<1>1. /\ ChargeSlot(w) \in Slot
      /\ available_buffer \in [Worker -> [Slot -> Int]]
      /\ available_side_effects \in [Worker -> [Slot -> Int]]
      /\ new_balance \in [Worker -> [Slot -> Int]]
      /\ op_idx[w] \in 0 .. Len(Cur(w).operations)
      /\ cur_tx[w] \in TxId
  BY ChargeType DEF TInv, TypeOK, LocInv, Located
<1>2. op_idx[w] # 0 =>
        /\ CurOp(w).type \in {"CREATE_ACCOUNT", "CREATE_SELL_OFFER", "PAYMENT"}
        /\ CurOp(w).amount \in Nat
        /\ <<CurOp(w).account, CurOp(w).asset>> \in Slot
        /\ <<CurOp(w).account, NATIVE_ASSET>> \in Slot
  <2>1. op_idx[w] # 0 => op_idx[w] \in 1 .. Len(Cur(w).operations)
    BY <1>1, CurType
  <2> QED
    BY <2>1, CurType, ConstantAssumption DEF TInv, LocInv, Located, Slot
<1>3. PICK y, buf, c, o, nb, se, bf :
        /\ y = ChargeSlot(w) /\ c = <<cur_tx[w], op_idx[w]>> /\ o = CurOp(w)
        /\ buf = [available_buffer[w] EXCEPT ![ChargeSlot(w)] = b]
        /\ nb = new_balance[w] /\ se = available_side_effects[w] /\ bf = available_buffer[w]
  OBVIOUS
<1>4. /\ y \in Slot /\ buf = [bf EXCEPT ![y] = b]
      /\ bf \in [Slot -> Int] /\ nb \in [Slot -> Int] /\ se \in [Slot -> Int]
      /\ \A x \in Slot : bf[x] >= 0 /\ nb[x] >= 0 /\ se[x] <= 0
  BY <1>1, <1>3 DEF NoOverdraft
<1>5. \A x \in Slot : Takes(c, x) = IF x = y THEN bf[y] + d - b ELSE 0
  <2>1. CASE op_idx[w] = 0
    <3>1. /\ y = <<Tx[cur_tx[w]].sourceAccount, NATIVE_ASSET>>
          /\ ChargeAmount(w) = fee_required(cur_tx[w])
      BY <1>3, <2>1 DEF ChargeSlot, ChargeAmount, Source, Cur
    <3> QED
      BY <1>3, <2>1, <3>1 DEF Takes
  <2>2. CASE op_idx[w] # 0
    <3>1. /\ o = Tx[c[1]].operations[c[2]] /\ c[2] # 0 /\ o.amount = bf[y] + d - b
          /\ y = IF o.type = "CREATE_ACCOUNT" THEN <<Tx[c[1]].sourceAccount, NATIVE_ASSET>>
                 ELSE <<Tx[c[1]].sourceAccount, o.asset>>
          /\ o.type \in {"CREATE_ACCOUNT", "CREATE_SELL_OFFER", "PAYMENT"}
      <4>1. o = Tx[c[1]].operations[c[2]] /\ c[2] # 0 /\ c[1] = cur_tx[w]
        <5>1. c = <<cur_tx[w], op_idx[w]>> /\ o = CurOp(w)
          BY <1>3, Zenon
        <5>2. c[1] = cur_tx[w] /\ c[2] = op_idx[w]
          BY ONLY <5>1
        <5> QED
          BY ONLY <5>1, <5>2, <2>2, Zenon DEF Cur, CurOp
      <4>2. o.type \in {"CREATE_ACCOUNT", "CREATE_SELL_OFFER", "PAYMENT"} /\ o.amount \in Nat
        <5>1. o = CurOp(w)
          BY <1>3, Zenon
        <5> QED
          BY ONLY <1>2, <2>2, <5>1, Zenon
      <4>3. y = IF o.type = "CREATE_ACCOUNT" THEN <<Tx[c[1]].sourceAccount, NATIVE_ASSET>>
                ELSE <<Tx[c[1]].sourceAccount, o.asset>>
        BY <1>3, <2>2, <4>1, Zenon DEF ChargeSlot, Source, Cur
      <4>4. ChargeAmount(w) = o.amount
        BY <1>3, <2>2 DEF ChargeAmount
      <4>5. o.amount = bf[y] + d - b
        BY <1>3, <1>4, <4>2, <4>4
      <4> QED
        BY <4>1, <4>2, <4>3, <4>5
    <3> QED
      BY <3>1 DEF Takes
  <2> QED
    BY <2>1, <2>2
<1>6. ASSUME \A x \in Slot : \/ new_balance'[w][x] = new_balance[w][x] \/ x[1] \in new_accounts[w],
             \A x \in Slot : available_buffer'[w][x] + new_balance'[w][x] = buf[x] + nb[x] + Gives(c, x),
             \A x \in Slot : Gives(c, x) \in Nat
      PROVE  \A x \in Slot : Settles(w, x)
  <2> SUFFICES ASSUME NEW x \in Slot PROVE Settles(w, x)
    OBVIOUS
  <2>1. PICK gv, tk, s1, e, b1, n1 :
          /\ gv = Gives(c, x) /\ tk = Takes(c, x) /\ s1 = available_side_effects'[w][x]
          /\ e = (IF x = y THEN d ELSE 0)
          /\ b1 = available_buffer'[w][x] /\ n1 = new_balance'[w][x]
    OBVIOUS
  <2>2. /\ gv \in Nat /\ tk = (IF x = y THEN bf[y] + d - b ELSE 0)
        /\ s1 = se[x] - e /\ b1 + n1 = buf[x] + nb[x] + gv
        /\ buf[x] = IF x = y THEN b ELSE bf[x]
        /\ bf[x] \in Int /\ nb[x] \in Int /\ se[x] \in Int /\ bf[x] >= 0 /\ nb[x] >= 0
    BY <1>3, <1>4, <1>5, <1>6, <2>1
  <2>3. /\ b1 + n1 + s1 = (bf[x] + nb[x] + se[x]) - tk + gv
        /\ s1 <= se[x]
        /\ tk + s1 <= bf[x] + nb[x] + se[x]
    <3>1. CASE x = y
      BY <2>1, <2>2, <3>1
    <3>2. CASE x # y
      BY <2>1, <2>2, <3>2
    <3> QED
      BY <3>1, <3>2
  <2>4. new_balance'[w][x] = new_balance[w][x] \/ x[1] \in new_accounts[w]
    BY <1>6
  <2>5. Net(w, x) = bf[x] + nb[x] + se[x] /\ Net(w, x)' = b1 + n1 + s1
    BY <1>3, <2>1 DEF Net
  <2>6. tk = Takes(<<cur_tx[w], op_idx[w]>>, x) /\ gv = Gives(<<cur_tx[w], op_idx[w]>>, x)
    BY <1>3, <2>1
  <2>7. Net(w, x)' = Net(w, x) - tk + gv
    BY <2>3, <2>5
  <2>8. /\ available_side_effects'[w][x] <= available_side_effects[w][x]
        /\ tk + available_side_effects'[w][x] <= Net(w, x)
    BY <1>3, <2>1, <2>3, <2>5
  <2> QED
    BY <2>4, <2>6, <2>7, <2>8 DEF Settles
<1>7. CASE op_idx[w] = 0 \/ CurOp(w).type = "CREATE_SELL_OFFER"
  <2>1. /\ available_buffer' = [available_buffer EXCEPT ![w] = buf]
        /\ new_balance' = new_balance /\ result' = result /\ Advance(w)
    BY <1>2, <1>3, <1>7 DEF Settle
  <2>2. \A x \in Slot : Gives(c, x) = 0
    BY <1>3, <1>7 DEF Gives, CurOp, Cur
  <2>3. available_buffer'[w] = buf /\ buf \in [Slot -> Int]
    BY <1>1, <1>4, <2>1
  <2> QED
    BY <1>3, <1>4, <1>6, <2>1, <2>2, <2>3
<1>8. CASE op_idx[w] # 0 /\ CurOp(w).type = "CREATE_ACCOUNT" /\ ~Fail(w, "INVALID_AMOUNT")
  <2>1. PICK z, n : z = <<o.account, NATIVE_ASSET>> /\ n = o.amount
    OBVIOUS
  <2>2. /\ available_buffer' = [available_buffer EXCEPT ![w] = buf]
        /\ new_balance' = [new_balance EXCEPT ![w][z] = @ + n]
        /\ result' = result /\ Advance(w)
    BY <1>3, <1>8, <2>1 DEF Settle
  <2>3. \A x \in Slot : Gives(c, x) = IF x = z THEN n ELSE 0
    BY <1>3, <1>8, <2>1 DEF Gives, CurOp, Cur
  <2>4. z \in Slot /\ n \in Nat /\ z[1] \in new_accounts[w]
    BY <1>2, <1>3, <1>8, <2>1
  <2>5. /\ available_buffer'[w] = buf /\ buf \in [Slot -> Int]
        /\ new_balance'[w] = [nb EXCEPT ![z] = @ + n]
    BY <1>1, <1>3, <1>4, <2>2
  <2>6. \A x \in Slot : available_buffer'[w][x] + new_balance'[w][x] = buf[x] + nb[x] + Gives(c, x)
    BY <1>4, <2>3, <2>4, <2>5
  <2>7. \A x \in Slot : new_balance'[w][x] = new_balance[w][x] \/ x[1] \in new_accounts[w]
    BY <1>3, <1>4, <2>4, <2>5
  <2>8. \A x \in Slot : Gives(c, x) \in Nat
    BY <2>3, <2>4
  <2> QED
    BY <1>6, <2>2, <2>6, <2>7, <2>8
<1>9. CASE op_idx[w] # 0 /\ CurOp(w).type = "PAYMENT"
  <2>1. PICK z, n : z = <<o.account, o.asset>> /\ n = o.amount
    OBVIOUS
  <2>2. result' = result /\ Advance(w)
    BY <1>9 DEF Settle
  <2>3. \A x \in Slot : Gives(c, x) = IF x = z THEN n ELSE 0
    BY <1>3, <1>9, <2>1 DEF Gives, CurOp, Cur
  <2>4. z \in Slot /\ n \in Nat /\ z[1] = o.account
    BY <1>2, <1>3, <1>9, <2>1
  <2>5. \A x \in Slot : Gives(c, x) \in Nat
    BY <2>3, <2>4
  <2>6. buf \in [Slot -> Int]
    BY <1>4
  <2>7. CASE o.account \in new_accounts[w]
    <3>1. /\ available_buffer' = [available_buffer EXCEPT ![w] = buf]
          /\ new_balance' = [new_balance EXCEPT ![w][z] = @ + n]
      BY <1>3, <1>9, <2>1, <2>7 DEF Settle
    <3>2. available_buffer'[w] = buf /\ new_balance'[w] = [nb EXCEPT ![z] = @ + n]
      BY <1>1, <1>3, <3>1
    <3>3. \A x \in Slot : available_buffer'[w][x] + new_balance'[w][x] = buf[x] + nb[x] + Gives(c, x)
      BY <1>4, <2>3, <2>4, <2>6, <3>2
    <3>4. \A x \in Slot : new_balance'[w][x] = new_balance[w][x] \/ x[1] \in new_accounts[w]
      BY <1>3, <1>4, <2>4, <2>7, <3>2
    <3> QED
      BY <1>6, <2>2, <2>5, <3>3, <3>4
  <2>8. CASE o.account \notin new_accounts[w]
    <3>1. /\ available_buffer' = [available_buffer EXCEPT ![w] = [buf EXCEPT ![z] = @ + n]]
          /\ new_balance' = new_balance
      BY <1>3, <1>9, <2>1, <2>8 DEF Settle
    <3>2. available_buffer'[w] = [buf EXCEPT ![z] = @ + n] /\ new_balance'[w] = nb
      BY <1>1, <1>3, <3>1
    <3>3. \A x \in Slot : available_buffer'[w][x] + new_balance'[w][x] = buf[x] + nb[x] + Gives(c, x)
      BY <1>4, <2>3, <2>4, <2>6, <3>2
    <3> QED
      BY <1>3, <1>6, <2>2, <2>5, <3>2, <3>3
  <2> QED
    BY <2>7, <2>8
<1> QED
  BY <1>2, <1>7, <1>8, <1>9

\* A check of an operation fails.
LEMMA RefusedAbandons ==
  ASSUME TInv, NEW w \in Worker, pc[w] = "op", NEW s, s # "SUCCESS", OpRefused(w, s)
  PROVE  Abandons(w)
<1>1. GivesUp(w)
  BY RefusedGivesUp
<1>2. UNCHANGED <<available, available_side_effects, new_offers, reserved_account_ids,
                  uncommitted_db, new_accounts, uncommitted_offers>>
  BY DEF OpRefused, balances, reservations, driver, view
<1>3. cur_tx[w] \in TxId
  BY CurType
<1> QED
  BY <1>1, <1>2, <1>3 DEF Abandons, Keeps

LEMMA ChargeEffect ==
  ASSUME TInv, NoOverdraft, NEW w \in Worker, ChargeFromBuffer(w) \/ CasAvailable(w),
         op_idx[w] # 0 /\ CurOp(w).type = "CREATE_ACCOUNT" => CurOp(w).account \in new_accounts[w]
  PROVE  Proceeds(w) \/ Abandons(w)
<1>1. /\ pc[w] \in {"charge", "cas"} /\ cur_tx[w] \in TxId /\ pc[w] \in Working
      /\ op_idx[w] \in 0 .. Len(Cur(w).operations)
      /\ op_idx[w] # 0 =>
           CurOp(w).type \in {"CREATE_ACCOUNT", "CREATE_SELL_OFFER", "PAYMENT"}
  BY DEF ChargeFromBuffer, CasAvailable, TInv, LocInv, Located, Working
<1>2. /\ available \in [Slot -> Int] /\ available_side_effects \in [Worker -> [Slot -> Int]]
      /\ available_buffer \in [Worker -> [Slot -> Int]]
  BY DEF TInv, TypeOK
<1>3. PICK y, a, f : y = ChargeSlot(w) /\ a = ChargeAmount(w) /\ f = available_buffer[w][ChargeSlot(w)]
  OBVIOUS
<1>4. y \in Slot /\ a \in Int /\ f \in Int /\ Shortfall(w) = a - f
  BY <1>1, <1>3, ChargeType DEF Shortfall
<1>5. \E b \in Int, d \in Nat :
        /\ b >= 0 /\ a = f + d - b /\ Settle(w, b)
        /\ \A x \in Slot : available_side_effects'[w][x]
                           = available_side_effects[w][x] - (IF x = y THEN d ELSE 0)
        /\ \A x \in Slot : Keeps(w, x)
  <2>1. CASE ChargeFromBuffer(w)
    <3>1. /\ a - f <= 0 /\ Settle(w, - (a - f))
          /\ UNCHANGED <<available, available_side_effects>>
      BY <1>4, <2>1 DEF ChargeFromBuffer, balances
    <3>2. PICK b \in Int : b = - (a - f)
      BY <1>4
    <3>3. \A x \in Slot : Keeps(w, x) /\ available_side_effects'[w][x]
                           = available_side_effects[w][x] - (IF x = y THEN 0 ELSE 0)
      BY <1>2, <3>1 DEF Keeps
    <3>4. b >= 0 /\ a = f + 0 - b /\ Settle(w, b)
      BY <1>4, <3>1, <3>2
    <3> QED
      BY <3>3, <3>4
  <2>2. CASE CasAvailable(w)
    <3>1. /\ pc[w] = "cas" /\ available[y] = loaded[w]
          /\ available' = [available EXCEPT ![y] = loaded[w] - (a - f)]
          /\ available_side_effects' = [available_side_effects EXCEPT ![w][y] = @ - (a - f)]
          /\ Settle(w, 0)
      BY <1>3, <1>4, <2>2 DEF CasAvailable, CasExpected
    <3>2. PICK d : d = a - f
      OBVIOUS
    <3>3. d \in Nat
      BY <1>4, <3>1, <3>2 DEF TInv, LocInv, Located
    <3>4. available_side_effects'[w] = [available_side_effects[w] EXCEPT ![y] = @ - d]
      BY <1>2, <3>1, <3>2
    <3>5. available_side_effects[w] \in [Slot -> Int]
      BY <1>2
    <3>6. \A x \in Slot : available_side_effects'[w][x]
                           = available_side_effects[w][x] - (IF x = y THEN d ELSE 0)
      BY <1>4, <3>3, <3>4, <3>5
    <3>7. available' = [available EXCEPT ![y] = available[y] - d]
      BY <3>1, <3>2
    <3>8. ASSUME NEW x \in Slot PROVE Keeps(w, x)
      <4>1. available[x] \in Int /\ available_side_effects[w][x] \in Int
        BY <1>2, <3>5
      <4>2. CASE x = y
        BY <1>2, <3>3, <3>6, <3>7, <4>1, <4>2 DEF Keeps
      <4>3. CASE x # y
        BY <1>2, <3>3, <3>6, <3>7, <4>1, <4>3 DEF Keeps
      <4> QED
        BY <4>2, <4>3
    <3>9. a = f + d - 0
      BY <1>4, <3>2
    <3> QED
      BY <3>1, <3>3, <3>6, <3>8, <3>9
  <2> QED
    BY <2>1, <2>2
<1>6. PICK b \in Int, d \in Nat :
        /\ b >= 0 /\ a = f + d - b /\ Settle(w, b)
        /\ \A x \in Slot : available_side_effects'[w][x]
                           = available_side_effects[w][x] - (IF x = y THEN d ELSE 0)
        /\ \A x \in Slot : Keeps(w, x)
  BY <1>5
<1>7. \/ Fail(w, "INVALID_AMOUNT") /\ op_idx[w] # 0 /\ CurOp(w).type = "CREATE_ACCOUNT"
      \/ result' = result /\ Advance(w) /\ \A x \in Slot : Settles(w, x)
  BY <1>1, <1>3, <1>6, SettleEffect
<1>8. UNCHANGED <<status, cur_tx, sequence_number_vec, marked_for_deletion,
                  reserved_account_ids, uncommitted_db, new_accounts, trades>>
  BY DEF ChargeFromBuffer, CasAvailable, driver, reservations, trades
<1>9. CASE Fail(w, "INVALID_AMOUNT") /\ op_idx[w] # 0 /\ CurOp(w).type = "CREATE_ACCOUNT"
  <2>1. GivesUp(w)
    BY <1>1, <1>8, <1>9, FailGivesUp
  <2>2. ~OpIs(cur_tx[w], op_idx[w], "CREATE_SELL_OFFER")
    BY <1>9 DEF OpIs, CurOp, Cur
  <2> QED
    BY <1>1, <1>6, <1>8, <2>1, <2>2 DEF Abandons, trades
<1>10. CASE result' = result /\ Advance(w) /\ \A x \in Slot : Settles(w, x)
  <2>1. ~IsCancel(cur_tx[w], op_idx[w])
    BY <1>1, TxType DEF IsCancel, CurOp, Cur
  <2>2. MovesOn(w)
    BY <1>1, <1>8, <1>10, <2>1, AdvanceMoves DEF MovesOn
  <2>3. pc[w] # "op"
    BY <1>1
  <2> QED
    BY <1>1, <1>6, <1>8, <1>10, <2>2, <2>3 DEF Proceeds, trades
<1> QED
  BY <1>7, <1>9, <1>10

LEMMA CreditEffect ==
  ASSUME TInv, NoOverdraft, NEW w \in Worker, pc[w] = "op", NEW n \in Nat,
         \A x \in Slot : /\ Takes(<<cur_tx[w], op_idx[w]>>, x) = 0
                         /\ Gives(<<cur_tx[w], op_idx[w]>>, x)
                            = IF x = <<Source(w), CurOp(w).asset>> THEN n ELSE 0,
         available_buffer' = [available_buffer EXCEPT
                                ![w][<<Source(w), CurOp(w).asset>>] = @ + n],
         UNCHANGED <<available, available_side_effects, new_balance>>
  PROVE  \A x \in Slot : Settles(w, x) /\ Keeps(w, x)
<1>1. /\ available_buffer \in [Worker -> [Slot -> Int]] /\ new_balance \in [Worker -> [Slot -> Int]]
      /\ available_side_effects \in [Worker -> [Slot -> Int]]
  BY DEF TInv, TypeOK
<1>2. PICK y : y = <<Source(w), CurOp(w).asset>>
  OBVIOUS
<1>3. y \in Slot
  BY <1>2, CurType DEF TInv, LocInv, Located, Slot
<1>4. /\ available_buffer'[w] = [available_buffer[w] EXCEPT ![y] = @ + n]
      /\ available_buffer[w] \in [Slot -> Int]
  BY <1>1, <1>2
<1> SUFFICES ASSUME NEW x \in Slot PROVE Settles(w, x) /\ Keeps(w, x)
  OBVIOUS
<1>5. PICK bf, nb, se : /\ bf = available_buffer[w][x] /\ nb = new_balance[w][x]
                        /\ se = available_side_effects[w][x]
  OBVIOUS
<1>6. /\ bf \in Int /\ nb \in Int /\ se \in Int /\ bf >= 0 /\ nb >= 0
      /\ new_balance'[w][x] = nb /\ available_side_effects'[w][x] = se
      /\ available_buffer'[w][x] = bf + (IF x = y THEN n ELSE 0)
  <2>1. bf \in Int /\ nb \in Int /\ se \in Int /\ bf >= 0 /\ nb >= 0
    BY <1>1, <1>5 DEF NoOverdraft
  <2>2. new_balance'[w][x] = nb /\ available_side_effects'[w][x] = se
    BY <1>5
  <2>3. CASE x = y
    BY <1>3, <1>4, <1>5, <2>1, <2>2, <2>3
  <2>4. CASE x # y
    BY <1>3, <1>4, <1>5, <2>1, <2>2, <2>4
  <2> QED
    BY <2>3, <2>4
<1>7. Net(w, x) = bf + nb + se /\ Net(w, x)' = (bf + (IF x = y THEN n ELSE 0)) + nb + se
  BY <1>5, <1>6 DEF Net
<1>8. /\ Takes(<<cur_tx[w], op_idx[w]>>, x) = 0
      /\ Gives(<<cur_tx[w], op_idx[w]>>, x) = IF x = y THEN n ELSE 0
  BY <1>2
<1>9. PICK g : g = IF x = y THEN n ELSE 0
  OBVIOUS
<1>10. /\ Net(w, x)' = Net(w, x) - 0 + g /\ 0 + se <= Net(w, x) /\ se <= se
  BY <1>6, <1>7, <1>9
<1>11. Settles(w, x)
  BY <1>5, <1>6, <1>8, <1>9, <1>10 DEF Settles
<1>12. Keeps(w, x)
  BY DEF Keeps
<1> QED
  BY <1>11, <1>12

LEMMA StepEffect ==
  ASSUME TInv, NoOverdraft, OutcomeKnown, EmptyView, WellFormed, IdsExact,
         NEW w \in Worker, WorkerStep(w)
  PROVE  Effect(w)
<1>1. /\ pc \in [Worker -> PC] /\ cur_tx \in [Worker -> TxId \cup {NoTx}]
      /\ op_idx \in [Worker -> Int] /\ new_offers \in [Worker -> SUBSET Offer]
      /\ available \in [Slot -> Int] /\ available_buffer \in [Worker -> [Slot -> Int]]
      /\ available_side_effects \in [Worker -> [Slot -> Int]]
      /\ new_accounts \in [Worker -> SUBSET Account] /\ new_balance \in [Worker -> [Slot -> Int]]
      /\ result \in [Worker -> Statuses]
  BY DEF TInv, TypeOK
<1>2. ASSUME NEW t \in TxId, StartTx(w, t) PROVE Starts(w)
  <2>1. cur_tx'[w] = t /\ pc'[w] = "reserve" /\ cur_tx[w] = NoTx
    BY <1>1, <1>2 DEF StartTx, WellFormed
  <2> QED
    BY <1>2, <2>1 DEF StartTx, Starts, balances, trades
<1>3. ASSUME NEW t \in TxId, RejectTx(w, t) PROVE Refuses(w)
  <2>1. EarlyStatus(t) \in Statuses \ {"SUCCESS"}
    BY <1>3, StatusTypes DEF RejectTx
  <2> QED
    BY <1>3, <2>1 DEF RejectTx, Refuses, balances, trades
<1>4. CASE ReserveSeqNum(w)
  <2>1. /\ cur_tx[w] \in TxId /\ op_idx[w] = 0 /\ pc'[w] = "charge"
    BY <1>1, <1>4 DEF ReserveSeqNum, TInv, LocInv, Located
  <2>2. seq_num_offset(cur_tx[w]) \notin sequence_number_vec[Source(w)]
    BY <1>4 DEF ReserveSeqNum, SeqStatus, Source, Cur
  <2>3. SeqNumUsable(cur_tx[w])
    <3>1. ~(Tx[cur_tx[w]].sequenceNumber <= LastCommittedId[Tx[cur_tx[w]].sourceAccount])
          /\ seq_num_in_range(cur_tx[w])
      BY <1>4 DEF ReserveSeqNum, SeqStatus
    <3>2. /\ Tx[cur_tx[w]].sequenceNumber \in Nat
          /\ LastCommittedId[Tx[cur_tx[w]].sourceAccount] \in Nat
      BY <2>1, TxType, ConstantAssumption
    <3> QED
      BY <3>1, <3>2 DEF SeqNumUsable
  <2>4. Reserves(w)
    BY <1>4, <2>1, <2>2 DEF ReserveSeqNum, Reserves, driver
  <2> QED
    BY <1>4, <2>3, <2>4 DEF ReserveSeqNum, Secures, balances, trades, driver, Effect
<1>5. CASE SeqNumRefused(w)
  <2>1. /\ pc[w] = "reserve" /\ cur_tx[w] \in TxId
        /\ SeqStatus(cur_tx[w]) \in Statuses \ {"SUCCESS"}
        /\ status' = [status EXCEPT ![cur_tx[w]] = SeqStatus(cur_tx[w])]
    BY <1>5, StatusTypes DEF SeqNumRefused, Return, TInv, LocInv, Located
  <2>2. /\ cur_tx'[w] = NoTx /\ pc'[w] = "idle" /\ op_idx'[w] = 0
        /\ available_buffer'[w] = NoAmounts /\ available_side_effects'[w] = NoAmounts
        /\ new_accounts'[w] = {} /\ new_balance'[w] = NoAmounts
    BY <1>1, <1>5 DEF SeqNumRefused, Return
  <2>3. available_side_effects[w] = NoAmounts /\ new_accounts[w] = {}
    BY <2>1 DEF EmptyView
  <2>4. UNCHANGED <<sequence_number_vec, available, marked_for_deletion,
                    reserved_account_ids, uncommitted_db, trades>>
    BY <1>5 DEF SeqNumRefused, reservations, balances, trades
  <2> QED
    BY <2>1, <2>2, <2>3, <2>4 DEF Leaves, Effect
<1>6. CASE ChargeFromBuffer(w) \/ CasAvailable(w)
  <2>1. op_idx[w] # 0 /\ CurOp(w).type = "CREATE_ACCOUNT" => CurOp(w).account \in new_accounts[w]
    <3> SUFFICES ASSUME op_idx[w] # 0, CurOp(w).type = "CREATE_ACCOUNT"
                 PROVE  CurOp(w).account \in new_accounts[w]
      OBVIOUS
    <3>1. /\ pc[w] \in {"charge", "cas"} /\ op_idx[w] \in 1 .. Len(Cur(w).operations)
          /\ cur_tx[w] \in TxId
      BY <1>1, <1>6, CurType DEF ChargeFromBuffer, CasAvailable, TInv, LocInv, Located
    <3>2. op_idx[w] \in InHand(w) /\ OpIs(cur_tx[w], op_idx[w], "CREATE_ACCOUNT") /\ pc[w] \in Working
      BY <3>1, TxType DEF InHand, OpIs, CurOp, Cur, Working
    <3> QED
      BY <3>2 DEF IdsExact, CreatedBy, CurOp, Cur
  <2> QED
    BY <1>6, <2>1, ChargeEffect DEF Effect
<1>7. CASE LoadAvailable(w) \/ CasRetry(w)
  <2>1. pc[w] \in {"charge", "cas"} /\ pc'[w] \in {"charge", "cas"}
    BY <1>1, <1>7 DEF LoadAvailable, CasRetry
  <2> QED
    BY <1>7, <2>1 DEF LoadAvailable, CasRetry, Retries, driver, balances, trades, Effect
<1>8. CASE InsufficientBalance(w)
  <2>1. /\ pc[w] = "charge" /\ pc[w] \in Working /\ Fail(w, "INSUFFICIENT_BALANCE")
        /\ UNCHANGED <<status, cur_tx, sequence_number_vec, marked_for_deletion>>
    BY <1>8 DEF InsufficientBalance, driver, reservations, Working
  <2>2. GivesUp(w) /\ cur_tx[w] \in TxId /\ op_idx[w] \in 0 .. Len(Cur(w).operations)
    BY <2>1, FailGivesUp DEF TInv, LocInv, Located
  <2>3. UNCHANGED <<available, available_side_effects, reserved_account_ids, uncommitted_db,
                    new_accounts, uncommitted_offers>>
    BY <1>8 DEF InsufficientBalance, driver, reservations, balances, view
  <2>4. OpIs(cur_tx[w], op_idx[w], "CREATE_SELL_OFFER")
        <=> op_idx[w] # 0 /\ CurOp(w).type = "CREATE_SELL_OFFER"
    BY <2>2, TxType DEF OpIs, CurOp, Cur
  <2>5. new_offers'[w] = IF OpIs(cur_tx[w], op_idx[w], "CREATE_SELL_OFFER")
                         THEN new_offers[w] \ {make_offer(cur_tx[w], op_idx[w])}
                         ELSE new_offers[w]
    BY <1>1, <1>8, <2>4 DEF InsufficientBalance, DropCurrentOffer
  <2> QED
    BY <2>1, <2>2, <2>3, <2>5 DEF Abandons, Keeps, Effect
<1>9. CASE OpCreateAccount(w) \/ OpCreateSellOffer(w) \/ OpPayment(w)
  <2>1. /\ pc[w] = "op" /\ cur_tx[w] \in TxId
        /\ op_idx[w] \in 1 .. Len(Cur(w).operations)
        /\ CurOp(w).amount \in Int
    BY <1>9, CurType DEF OpCreateAccount, OpCreateSellOffer, OpPayment, TInv, LocInv, Located
  <2>2. CASE \E s : s # "SUCCESS" /\ OpRefused(w, s)
    BY <2>1, <2>2, RefusedAbandons DEF Effect
  <2>3. CASE ~ \E s : s # "SUCCESS" /\ OpRefused(w, s)
    <3>1. /\ pc' = [pc EXCEPT ![w] = "charge"]
          /\ UNCHANGED <<available, sequence_number_vec, marked_for_deletion, uncommitted_db,
                 available_buffer, available_side_effects, new_balance, status,
                 cur_tx, op_idx, uncommitted_offers>>
      BY <1>9, <2>3 DEF OpCreateAccount, OpCreateSellOffer, OpPayment, driver,
                        reservations, balances, view
    <3>2. pc'[w] = "charge"
      BY <1>1, <3>1
    <3>3. CASE OpPayment(w)
      <4>1. /\ CurOp(w).type = "PAYMENT" /\ PaymentStatus(w) = "SUCCESS"
            /\ UNCHANGED <<reserved_account_ids, new_accounts, new_offers>>
        BY <2>3, <3>3 DEF OpPayment, reservations, view
      <4>2. CurOp(w).amount > 0 /\ CurOp(w).account \in Existing \cup new_accounts[w]
        BY <4>1 DEF PaymentStatus, is_valid_amount
      <4> QED
        BY <2>1, <3>1, <3>2, <4>1, <4>2 DEF Enters, Effect
    <3>4. CASE OpCreateSellOffer(w)
      <4>1. /\ CurOp(w).type = "CREATE_SELL_OFFER" /\ SellOfferStatus(w) = "SUCCESS"
            /\ new_offers' = [new_offers EXCEPT ![w] = @ \cup {make_offer(cur_tx[w], op_idx[w])}]
            /\ UNCHANGED <<reserved_account_ids, new_accounts>>
        BY <2>3, <3>4 DEF OpCreateSellOffer, reservations, view
      <4>2. CurOp(w).amount > 0
        BY <4>1 DEF SellOfferStatus, is_valid_amount
      <4>3. new_offers'[w] = new_offers[w] \cup {make_offer(cur_tx[w], op_idx[w])}
        BY <1>1, <4>1
      <4> QED
        BY <2>1, <3>1, <3>2, <4>1, <4>2, <4>3 DEF Enters, Effect
    <3>5. CASE OpCreateAccount(w)
      <4>1. /\ CurOp(w).type = "CREATE_ACCOUNT" /\ CreateAccountStatus(w) = "SUCCESS"
            /\ reserved_account_ids' = reserved_account_ids \cup {CurOp(w).account}
            /\ new_accounts' = [new_accounts EXCEPT ![w] = @ \cup {CurOp(w).account}]
            /\ UNCHANGED new_offers
        BY <2>3, <3>5 DEF OpCreateAccount
      <4>2. /\ ~(CurOp(w).amount < CREATE_ACCOUNT_MIN_STARTING_BALANCE)
            /\ CurOp(w).account \notin Existing \cup reserved_account_ids
        BY <4>1 DEF CreateAccountStatus
      <4>3. CurOp(w).amount > 0
        BY <2>1, <4>2, ConstantAssumption
      <4>4. new_accounts'[w] = new_accounts[w] \cup {CurOp(w).account}
        BY <1>1, <4>1
      <4> QED
        BY <2>1, <3>1, <3>2, <4>1, <4>2, <4>3, <4>4 DEF Enters, Effect
    <3> QED
      BY <1>9, <3>3, <3>4, <3>5
  <2> QED
    BY <2>2, <2>3
<1>10. CASE OpCancelSellOffer(w)
  <2>1. /\ pc[w] = "op" /\ pc[w] \in Working /\ cur_tx[w] \in TxId
        /\ op_idx[w] \in 1 .. Len(Cur(w).operations)
        /\ CurOp(w).type = "CANCEL_SELL_OFFER"
    BY <1>10 DEF OpCancelSellOffer, Working, TInv, LocInv, Located
  <2>2. /\ op_idx[w] \in 0 .. Len(Cur(w).operations) /\ op_idx[w] # 0
        /\ IsCancel(cur_tx[w], op_idx[w])
    BY <2>1, TxType DEF IsCancel, CurOp, Cur
  <2>3. CASE ~Cancellable(cancel_key(cur_tx[w], op_idx[w]), CurOp(w).asset)
    <3>1. OpRefused(w, "CANCEL_OFFER_TARGET_NEXIST")
      BY <1>10, <2>3 DEF OpCancelSellOffer
    <3> QED
      BY <2>1, <3>1, RefusedAbandons DEF Effect
  <2>4. CASE Cancellable(cancel_key(cur_tx[w], op_idx[w]), CurOp(w).asset)
    <3>1. PICK key, n : key = cancel_key(cur_tx[w], op_idx[w]) /\ n = RestingOffer[key].amount
      OBVIOUS
    <3>2. /\ marked_for_deletion' = marked_for_deletion \cup {key}
          /\ Advance(w)
          /\ available_buffer' = [available_buffer EXCEPT
                                    ![w][<<Source(w), CurOp(w).asset>>] = @ + n]
          /\ UNCHANGED <<status, cur_tx, result, sequence_number_vec, available,
                         available_side_effects, new_balance, reserved_account_ids,
                         uncommitted_db, new_accounts, trades>>
      BY <1>10, <2>4, <3>1 DEF OpCancelSellOffer, driver, balances, trades
    <3>3. /\ key \notin marked_for_deletion /\ key \in DOMAIN RestingOffer
          /\ RestingOffer[key].sellAsset = CurOp(w).asset
      BY <2>4, <3>1 DEF Cancellable
    <3>4. MovesOn(w)
      BY <2>1, <2>2, <3>1, <3>2, <3>3, AdvanceMoves DEF MovesOn
    <3>5. n \in Nat
      BY <3>1, <3>3, ConstantAssumption DEF Offer
    <3>6. \A x \in Slot : /\ Takes(<<cur_tx[w], op_idx[w]>>, x) = 0
                          /\ Gives(<<cur_tx[w], op_idx[w]>>, x)
                             = IF x = <<Source(w), CurOp(w).asset>> THEN n ELSE 0
      BY <2>1, <2>2, <3>1 DEF Takes, Gives, Source, CurOp, Cur
    <3>7. \A x \in Slot : Settles(w, x) /\ Keeps(w, x)
      BY <2>1, <3>2, <3>5, <3>6, CreditEffect
    <3> QED
      BY <2>1, <2>2, <3>1, <3>2, <3>3, <3>4, <3>7 DEF Proceeds, Effect
  <2> QED
    BY <2>3, <2>4
<1>11. CASE OpMoneyPrinter(w)
  <2>1. /\ pc[w] = "op" /\ pc[w] \in Working /\ cur_tx[w] \in TxId
        /\ op_idx[w] \in 1 .. Len(Cur(w).operations)
        /\ CurOp(w).type = "MONEY_PRINTER" /\ CurOp(w).amount \in Int
    BY <1>11, CurType DEF OpMoneyPrinter, Working, TInv, LocInv, Located
  <2>2. /\ op_idx[w] \in 0 .. Len(Cur(w).operations) /\ ~IsCancel(cur_tx[w], op_idx[w])
        /\ op_idx[w] # 0
    BY <2>1, TxType DEF IsCancel, CurOp, Cur
  <2>3. CASE CurOp(w).amount < 0
    <3>1. OpRefused(w, "INVALID_PRINT_MONEY_AMOUNT")
      BY <1>11, <2>1, <2>3 DEF OpMoneyPrinter
    <3> QED
      BY <2>1, <3>1, RefusedAbandons DEF Effect
  <2>4. CASE CurOp(w).amount >= 0
    <3>1. PICK n : n = CurOp(w).amount
      OBVIOUS
    <3>2. /\ Advance(w)
          /\ available_buffer' = [available_buffer EXCEPT
                                    ![w][<<Source(w), CurOp(w).asset>>] = @ + n]
          /\ UNCHANGED <<status, cur_tx, result, sequence_number_vec, available,
                         available_side_effects, new_balance, reserved_account_ids,
                         uncommitted_db, new_accounts, trades, marked_for_deletion>>
      BY <1>11, <2>1, <2>4, <3>1 DEF OpMoneyPrinter, driver, balances, trades, reservations
    <3>3. MovesOn(w)
      BY <2>1, <2>2, <3>2, AdvanceMoves DEF MovesOn
    <3>4. n \in Nat
      BY <2>1, <2>4, <3>1
    <3>5. \A x \in Slot : /\ Takes(<<cur_tx[w], op_idx[w]>>, x) = 0
                          /\ Gives(<<cur_tx[w], op_idx[w]>>, x)
                             = IF x = <<Source(w), CurOp(w).asset>> THEN n ELSE 0
      BY <2>1, <2>2, <3>1 DEF Takes, Gives, Source, CurOp, Cur
    <3>6. \A x \in Slot : Settles(w, x) /\ Keeps(w, x)
      BY <2>1, <3>2, <3>4, <3>5, CreditEffect
    <3> QED
      BY <2>1, <2>2, <2>4, <3>2, <3>3, <3>6 DEF Proceeds, Effect
  <2> QED
    BY <2>1, <2>3, <2>4
<1>12. CASE UnwindOp(w)
  <2>1. /\ pc[w] = "unwind_ops" /\ cur_tx[w] \in TxId
        /\ op_idx[w] \in 1 .. Len(Cur(w).operations)
    BY <1>12 DEF UnwindOp, TInv, LocInv, Located
  <2>2. /\ op_idx'[w] = op_idx[w] - 1
        /\ pc'[w] = IF op_idx[w] = 1 THEN "unwind" ELSE "unwind_ops"
    BY <1>1, <1>12, <2>1 DEF UnwindOp
  <2>3. /\ IsCancel(cur_tx[w], op_idx[w]) <=> CurOp(w).type = "CANCEL_SELL_OFFER"
        /\ OpIs(cur_tx[w], op_idx[w], "CREATE_SELL_OFFER") <=> CurOp(w).type = "CREATE_SELL_OFFER"
    BY <2>1, TxType DEF IsCancel, OpIs, CurOp, Cur
  <2>4. marked_for_deletion' =
          IF IsCancel(cur_tx[w], op_idx[w])
          THEN marked_for_deletion \ {cancel_key(cur_tx[w], op_idx[w])}
          ELSE marked_for_deletion
    BY <1>12, <2>3 DEF UnwindOp
  <2>5. UNCHANGED <<status, cur_tx, result, sequence_number_vec, available,
                    reserved_account_ids, uncommitted_db, view, uncommitted_offers>>
    BY <1>12 DEF UnwindOp, driver, balances
  <2>6. Undoes(w)
    BY <2>1, <2>2, <2>4, <2>5 DEF Undoes
  <2>7. new_offers'[w] = IF OpIs(cur_tx[w], op_idx[w], "CREATE_SELL_OFFER")
                         THEN new_offers[w] \ {make_offer(cur_tx[w], op_idx[w])}
                         ELSE new_offers[w]
    BY <1>1, <1>12, <2>3 DEF UnwindOp
  <2> QED
    BY <2>1, <2>5, <2>6, <2>7 DEF TakesBack, Effect
<1>13. CASE UnwindBalance(w)
  <2>1. PICK y \in Slot :
          /\ available' = [available EXCEPT ![y] = @ - available_side_effects[w][y]]
          /\ available_side_effects' = [available_side_effects EXCEPT ![w][y] = 0]
    BY <1>13 DEF UnwindBalance
  <2>2. available_side_effects'[w] = [available_side_effects[w] EXCEPT ![y] = 0]
    BY <1>1, <2>1
  <2>3. available_side_effects[w] \in [Slot -> Int]
    BY <1>1
  <2>4. ASSUME NEW x \in Slot PROVE Keeps(w, x)
    <3>1. CASE x = y
      BY <1>1, <2>1, <2>2, <2>3, <3>1 DEF Keeps
    <3>2. CASE x # y
      BY <1>1, <2>1, <2>2, <2>3, <3>2 DEF Keeps
    <3> QED
      BY <3>1, <3>2
  <2> QED
    BY <1>13, <2>4 DEF UnwindBalance, Refunds, driver, trades, Effect
<1>14. CASE ReleaseAccount(w)
  <2>1. PICK a \in new_accounts[w] :
          /\ reserved_account_ids' = reserved_account_ids \ {a}
          /\ new_accounts' = [new_accounts EXCEPT ![w] = @ \ {a}]
    BY <1>14 DEF ReleaseAccount
  <2>2. new_accounts'[w] = new_accounts[w] \ {a}
    BY <1>1, <2>1
  <2> QED
    BY <1>14, <2>1, <2>2 DEF ReleaseAccount, Releases, driver, balances, trades, Effect
<1>15. CASE ReleaseSeqNum(w)
  <2>1. /\ pc[w] = "unwind" /\ cur_tx[w] \in TxId
        /\ result[w] \in Statuses \ {"SUCCESS"}
        /\ status' = [status EXCEPT ![cur_tx[w]] = result[w]]
    BY <1>1, <1>15 DEF ReleaseSeqNum, Return, TInv, LocInv, Located, OutcomeKnown
  <2>2. /\ cur_tx'[w] = NoTx /\ pc'[w] = "idle" /\ op_idx'[w] = 0
        /\ available_buffer'[w] = NoAmounts /\ available_side_effects'[w] = NoAmounts
        /\ new_accounts'[w] = {} /\ new_balance'[w] = NoAmounts
    BY <1>1, <1>15 DEF ReleaseSeqNum, Return
  <2> QED
    BY <1>15, <2>1, <2>2 DEF ReleaseSeqNum, Leaves, balances, trades, Effect
<1>16. CASE CommitBalance(w)
  <2>1. PICK y \in Slot :
          /\ available' = [available EXCEPT ![y] = @ + available_buffer[w][y]]
          /\ available_buffer' = [available_buffer EXCEPT ![w][y] = 0]
    BY <1>16 DEF CommitBalance
  <2>2. available_buffer'[w] = [available_buffer[w] EXCEPT ![y] = 0]
    BY <1>1, <2>1
  <2>3. available_buffer[w] \in [Slot -> Int]
    BY <1>1
  <2>4. ASSUME NEW x \in Slot
        PROVE  available'[x] + available_buffer'[w][x] = available[x] + available_buffer[w][x]
    <3>1. CASE x = y
      BY <1>1, <2>1, <2>2, <2>3, <3>1
    <3>2. CASE x # y
      BY <1>1, <2>1, <2>2, <2>3, <3>2
    <3> QED
      BY <3>1, <3>2
  <2> QED
    BY <1>16, <2>4 DEF CommitBalance, Flushes, driver, trades, Effect
<1>17. CASE CommitAccount(w)
  <2>1. PICK a \in new_accounts[w] :
          /\ uncommitted_db' = uncommitted_db \cup {NewEntry(a, cur_tx[w], new_balance[w])}
          /\ new_accounts' = [new_accounts EXCEPT ![w] = @ \ {a}]
    BY <1>17 DEF CommitAccount
  <2>2. new_accounts'[w] = new_accounts[w] \ {a}
    BY <1>1, <2>1
  <2>3. cur_tx[w] \in TxId
    BY <1>17 DEF CommitAccount, TInv, LocInv, Located
  <2> QED
    BY <1>17, <2>1, <2>2, <2>3 DEF CommitAccount, Publishes, driver, balances, trades, Effect
<1>18. CASE CommitDone(w)
  <2>1. /\ pc[w] = "commit" /\ cur_tx[w] \in TxId
        /\ status' = [status EXCEPT ![cur_tx[w]] = "SUCCESS"]
    BY <1>18 DEF CommitDone, Return, TInv, LocInv, Located
  <2>2. /\ cur_tx'[w] = NoTx /\ pc'[w] = "idle" /\ op_idx'[w] = 0
        /\ available_buffer'[w] = NoAmounts /\ available_side_effects'[w] = NoAmounts
        /\ new_accounts'[w] = {} /\ new_balance'[w] = NoAmounts
    BY <1>1, <1>18 DEF CommitDone, Return
  <2> QED
    BY <1>18, <2>1, <2>2 DEF CommitDone, Returns, balances, trades, Effect
<1> QED
  BY <1>2, <1>3, <1>4, <1>5, <1>6, <1>7, <1>8, <1>9, <1>10, <1>11, <1>12, <1>13,
     <1>14, <1>15, <1>16, <1>17, <1>18 DEF WorkerStep, Effect
-----------------------------------------------------------------------------
(***************************************************************************)
(* What the kinds of steps mean for the operations that stand and for the  *)
(* transactions that hold something.                                       *)
(***************************************************************************)
Bystands(w) ==
  \/ Retries(w) \/ Refuses(w) \/ Refunds(w) \/ Releases(w) \/ Flushes(w) \/ Publishes(w)

LEMMA HandStart ==
  ASSUME TInv, NEW w \in Worker, Starts(w) \/ Leaves(w) \/ Secures(w)
  PROVE  /\ InHand(w) = {} /\ InHand(w)' = {}
         /\ CompletedOps(w) = {} /\ CompletedOps(w)' = {}
<1>1. CASE Secures(w)
  <2>1. pc[w] = "reserve" /\ pc'[w] = "charge" /\ op_idx[w] = 0 /\ op_idx'[w] = 0
    BY <1>1 DEF Secures, Reserves
  <2> QED
    BY <2>1 DEF InHand, CompletedOps
<1>2. CASE Starts(w) \/ Leaves(w)
  <2>1. pc[w] \in {"idle", "reserve", "unwind"} /\ pc'[w] \in {"idle", "reserve", "unwind"}
    BY <1>2 DEF Starts, Leaves
  <2> QED
    BY <2>1 DEF InHand, CompletedOps
<1> QED
  BY <1>1, <1>2

LEMMA HandSame ==
  ASSUME TInv, NEW w \in Worker, Bystands(w)
  PROVE  InHand(w)' = InHand(w) /\ CompletedOps(w)' = CompletedOps(w)
<1>1. CASE Retries(w)
  <2>1. pc[w] \in {"charge", "cas"} /\ pc'[w] \in {"charge", "cas"} /\ op_idx'[w] = op_idx[w]
    BY <1>1 DEF Retries
  <2> QED
    BY <2>1 DEF InHand, CompletedOps
<1>2. CASE ~Retries(w)
  <2>1. pc' = pc /\ op_idx' = op_idx
    BY <1>2 DEF Bystands, Refuses, Refunds, Releases, Flushes, Publishes
  <2> QED
    BY <2>1 DEF InHand, CompletedOps
<1> QED
  BY <1>1, <1>2

LEMMA HandEnters ==
  ASSUME TInv, NEW w \in Worker, Enters(w)
  PROVE  /\ InHand(w) = 1 .. op_idx[w] - 1 /\ InHand(w)' = 1 .. op_idx[w]
         /\ CompletedOps(w) = 1 .. op_idx[w] - 1 /\ CompletedOps(w)' = CompletedOps(w)
<1>1. pc[w] = "op" /\ pc'[w] = "charge" /\ op_idx'[w] = op_idx[w]
  BY DEF Enters
<1> QED
  BY <1>1 DEF InHand, CompletedOps

LEMMA HandProceeds ==
  ASSUME TInv, NEW w \in Worker, Proceeds(w)
  PROVE  /\ InHand(w) = 1 .. (IF pc[w] = "op" THEN op_idx[w] - 1 ELSE op_idx[w])
         /\ CompletedOps(w) = 1 .. op_idx[w] - 1
         /\ InHand(w)' = 1 .. op_idx[w] /\ CompletedOps(w)' = 1 .. op_idx[w]
<1>1. /\ pc[w] \in Working /\ pc'[w] \in {"op", "commit"} /\ op_idx'[w] = op_idx[w] + 1
      /\ op_idx[w] \in Int
  BY DEF Proceeds, MovesOn, TInv, TypeOK
<1>2. op_idx'[w] - 1 = op_idx[w]
  BY <1>1
<1> QED
  BY <1>1, <1>2 DEF InHand, CompletedOps, Working

LEMMA HandAbandons ==
  ASSUME TInv, NEW w \in Worker, Abandons(w)
  PROVE  /\ InHand(w) = 1 .. (IF pc[w] = "op" THEN op_idx[w] - 1 ELSE op_idx[w])
         /\ CompletedOps(w) = 1 .. op_idx[w] - 1
         /\ InHand(w)' = 1 .. op_idx[w] - 1 /\ CompletedOps(w)' = 1 .. op_idx[w] - 1
<1>1. /\ pc[w] \in Working /\ op_idx'[w] = op_idx[w] - 1 /\ op_idx[w] \in Int
      /\ pc'[w] = IF op_idx[w] <= 1 THEN "unwind" ELSE "unwind_ops"
  BY DEF Abandons, GivesUp, TInv, TypeOK
<1>2. op_idx[w] <= 1 => 1 .. op_idx[w] - 1 = {}
  BY <1>1
<1>3. CASE op_idx[w] <= 1
  BY <1>1, <1>2, <1>3 DEF InHand, CompletedOps, Working
<1>4. CASE ~(op_idx[w] <= 1)
  BY <1>1, <1>4 DEF InHand, CompletedOps, Working
<1> QED
  BY <1>3, <1>4

LEMMA HandTakesBack ==
  ASSUME TInv, NEW w \in Worker, TakesBack(w)
  PROVE  /\ InHand(w) = 1 .. op_idx[w] /\ CompletedOps(w) = 1 .. op_idx[w]
         /\ InHand(w)' = 1 .. op_idx[w] - 1 /\ CompletedOps(w)' = 1 .. op_idx[w] - 1
<1>1. /\ pc[w] = "unwind_ops" /\ op_idx'[w] = op_idx[w] - 1 /\ op_idx[w] \in Int
      /\ pc'[w] = IF op_idx[w] = 1 THEN "unwind" ELSE "unwind_ops"
  BY DEF TakesBack, Undoes, TInv, TypeOK
<1>2. op_idx[w] = 1 => 1 .. op_idx[w] - 1 = {}
  BY <1>1
<1> QED
  BY <1>1, <1>2 DEF InHand, CompletedOps

LEMMA HandReturns ==
  ASSUME TInv, OutcomeKnown, NEW w \in Worker, Returns(w)
  PROVE  /\ InHand(w) = 1 .. Len(Cur(w).operations) /\ CompletedOps(w) = InHand(w)
         /\ InHand(w)' = {} /\ CompletedOps(w)' = {}
<1>1. /\ pc[w] = "commit" /\ pc'[w] = "idle" /\ op_idx[w] = Len(Cur(w).operations) + 1
      /\ cur_tx[w] \in TxId
  BY DEF Returns, OutcomeKnown
<1>2. op_idx[w] - 1 = Len(Cur(w).operations)
  BY <1>1, TxType DEF Cur
<1> QED
  BY <1>1, <1>2 DEF InHand, CompletedOps

\* The statuses of transactions, and who runs them.
LEMMA Runners ==
  ASSUME TInv, OneRunner, NEW w \in Worker, cur_tx[w] \in TxId
  PROVE  /\ status[cur_tx[w]] = "RUNNING"
         /\ \A v \in Worker : cur_tx[v] = cur_tx[w] => v = w
BY ConstantAssumption DEF OneRunner

LEMMA StatusStep ==
  ASSUME TInv, OneRunner, NEW w \in Worker, Effect(w), NEW t \in TxId
  PROVE  /\ status'[t] = "SUCCESS" <=> status[t] = "SUCCESS" \/ (Returns(w) /\ t = cur_tx[w])
         /\ cur_tx'[w] = cur_tx[w] \/ Starts(w) \/ Leaves(w) \/ Returns(w)
<1>1. status \in [TxId -> Statuses \cup {"ABSENT", "QUEUED", "RUNNING"}]
  BY DEF TInv, TypeOK
<1>2. CASE Returns(w)
  BY <1>1, <1>2 DEF Returns
<1>3. CASE Starts(w)
  <2>1. pc[w] = "idle" /\ \E u \in TxId : status[u] = "QUEUED" /\ status' = [status EXCEPT ![u] = "RUNNING"]
    BY <1>3 DEF Starts
  <2>2. ~Returns(w)
    BY <2>1 DEF Returns
  <2> QED
    BY <1>1, <1>3, <2>1, <2>2
<1>4. CASE Leaves(w)
  <2>1. /\ pc[w] # "commit" /\ cur_tx[w] \in TxId
        /\ \E s \in Statuses \ {"SUCCESS"} : status' = [status EXCEPT ![cur_tx[w]] = s]
    BY <1>4 DEF Leaves
  <2>2. ~Returns(w) /\ status[cur_tx[w]] = "RUNNING"
    BY <2>1, Runners DEF Returns
  <2> QED
    BY <1>1, <1>4, <2>1, <2>2
<1>5. CASE Refuses(w)
  <2>1. /\ cur_tx' = cur_tx /\ pc' = pc
        /\ \E u \in TxId, s \in Statuses \ {"SUCCESS"} :
             status[u] = "QUEUED" /\ status' = [status EXCEPT ![u] = s]
    BY <1>5 DEF Refuses
  <2>2. ~Returns(w)
    BY <2>1 DEF Returns
  <2> QED
    BY <1>1, <2>1, <2>2
<1>6. CASE /\ ~Returns(w) /\ ~Starts(w) /\ ~Leaves(w) /\ ~Refuses(w)
  <2>1. status' = status /\ cur_tx' = cur_tx
    BY <1>6 DEF Effect, Secures, Reserves, Retries, Enters, Proceeds, MovesOn, Abandons, GivesUp,
         TakesBack, Undoes, Refunds, Releases, Flushes, Publishes
  <2> QED
    BY <1>6, <2>1
<1> QED
  BY <1>2, <1>3, <1>4, <1>5, <1>6

\* A transaction takes effect when its last operation is done.
LEMMA EffectiveStep ==
  ASSUME TInv, OneRunner, NEW w \in Worker, Alone(w), Effect(w)
  PROVE  /\ pc'[w] = "commit" /\ pc[w] # "commit" =>
              /\ Proceeds(w) /\ cur_tx[w] \notin Effective
              /\ Effective' = Effective \cup {cur_tx[w]}
         /\ ~(pc'[w] = "commit" /\ pc[w] # "commit") => Effective' = Effective
<1>1. \A t \in TxId : t \in Effective' <=>
        \/ status'[t] = "SUCCESS" \/ (cur_tx'[w] = t /\ pc'[w] = "commit")
        \/ \E v \in Worker : v # w /\ cur_tx[v] = t /\ pc[v] = "commit"
  BY DEF Effective, Alone
<1>2. \A t \in TxId : t \in Effective <=>
        \/ status[t] = "SUCCESS" \/ (cur_tx[w] = t /\ pc[w] = "commit")
        \/ \E v \in Worker : v # w /\ cur_tx[v] = t /\ pc[v] = "commit"
  BY DEF Effective
<1>3. \A t \in TxId : status'[t] = "SUCCESS" <=>
         status[t] = "SUCCESS" \/ (Returns(w) /\ t = cur_tx[w])
  BY StatusStep
<1>4. Effective \subseteq TxId /\ Effective' \subseteq TxId
  BY DEF Effective
<1>5. CASE Proceeds(w)
  <2>1. cur_tx[w] \in TxId /\ cur_tx' = cur_tx /\ pc[w] # "commit" /\ ~Returns(w)
    BY <1>5 DEF Proceeds, MovesOn, Working, Returns
  <2>2. cur_tx[w] \notin Effective
    BY <1>2, <2>1, Runners
  <2>3. CASE pc'[w] = "commit"
    BY <1>1, <1>2, <1>3, <1>4, <1>5, <2>1, <2>2, <2>3
  <2>4. CASE pc'[w] # "commit"
    BY <1>1, <1>2, <1>3, <1>4, <1>5, <2>1, <2>4
  <2> QED
    BY <2>3, <2>4
<1>6. CASE Returns(w)
  <2>1. pc[w] = "commit" /\ pc'[w] # "commit" /\ cur_tx[w] \in TxId
    BY <1>6 DEF Returns
  <2> QED
    BY <1>1, <1>2, <1>3, <1>4, <1>6, <2>1
<1>7. CASE ~Proceeds(w) /\ ~Returns(w)
  <2>1. /\ pc'[w] = "commit" => pc[w] = "commit" /\ cur_tx' = cur_tx
        /\ pc[w] = "commit" => pc'[w] = "commit" /\ cur_tx' = cur_tx
    BY <1>7 DEF Effect, Starts, Leaves, Refuses, Secures, Reserves, Retries, Enters, Abandons,
         GivesUp, TakesBack, Undoes, Refunds, Releases, Flushes, Publishes, Working
  <2> QED
    BY <1>1, <1>2, <1>3, <1>4, <1>7, <2>1
<1> QED
  BY <1>5, <1>6, <1>7

LEMMA HoldersStep ==
  ASSUME TInv, OneRunner, NEW w \in Worker, Alone(w), Effect(w), NEW t \in TxId
  PROVE  /\ HoldsSeqNum(t)' => HoldsSeqNum(t) \/ (Secures(w) /\ t = cur_tx[w])
         /\ HoldsSeqNum(t) => HoldsSeqNum(t)' \/ (Leaves(w) /\ pc[w] = "unwind" /\ t = cur_tx[w])
<1>1. HoldsSeqNum(t)' <=>
        \/ status'[t] = "SUCCESS" \/ (cur_tx'[w] = t /\ pc'[w] \notin {"idle", "reserve"})
        \/ \E v \in Worker : v # w /\ cur_tx[v] = t /\ pc[v] \notin {"idle", "reserve"}
  BY DEF HoldsSeqNum, Alone
<1>2. HoldsSeqNum(t) <=>
        \/ status[t] = "SUCCESS" \/ (cur_tx[w] = t /\ pc[w] \notin {"idle", "reserve"})
        \/ \E v \in Worker : v # w /\ cur_tx[v] = t /\ pc[v] \notin {"idle", "reserve"}
  BY DEF HoldsSeqNum
<1>3. status'[t] = "SUCCESS" <=> status[t] = "SUCCESS" \/ (Returns(w) /\ t = cur_tx[w])
  BY StatusStep
<1>4. CASE Returns(w) \/ Starts(w) \/ Secures(w)
  <2>1. \/ Returns(w) /\ pc[w] = "commit" /\ pc'[w] = "idle"
        \/ ~Returns(w) /\ pc[w] \in {"idle", "reserve"} /\ pc'[w] = "reserve"
        \/ ~Returns(w) /\ Secures(w) /\ cur_tx' = cur_tx /\ pc[w] = "reserve"
    BY <1>4 DEF Returns, Starts, Secures, Reserves
  <2> QED
    BY <1>1, <1>2, <1>3, <2>1
<1>5. CASE Leaves(w)
  <2>1. pc[w] \in {"reserve", "unwind"} /\ pc'[w] = "idle" /\ ~Returns(w)
    BY <1>5 DEF Leaves, Returns
  <2> QED
    BY <1>1, <1>2, <1>3, <1>5, <2>1
<1>6. CASE ~Returns(w) /\ ~Starts(w) /\ ~Secures(w) /\ ~Leaves(w)
  <2>1. /\ cur_tx' = cur_tx
        /\ pc'[w] \notin {"idle", "reserve"} <=> pc[w] \notin {"idle", "reserve"}
    BY <1>6 DEF Effect, Refuses, Retries, Enters, Proceeds, MovesOn, Abandons,
         GivesUp, TakesBack, Undoes, Refunds, Releases, Flushes, Publishes, Working
  <2> QED
    BY <1>1, <1>2, <1>3, <1>6, <2>1
<1> QED
  BY <1>4, <1>5, <1>6

LEMMA WellFormedStep ==
  ASSUME TInv, OneRunner, WellFormed, NEW w \in Worker, Alone(w), Effect(w)
  PROVE  WellFormed'
<1>1. ASSUME NEW v \in Worker
      PROVE  (IF pc[v] = "idle" THEN cur_tx[v] = NoTx ELSE check_tx_format_parameters(cur_tx[v]))'
  <2>1. CASE v # w
    BY <2>1 DEF Alone, WellFormed, check_tx_format_parameters
  <2>2. CASE v = w
    <3>1. CASE Starts(w)
      <4>1. pc'[w] = "reserve" /\ EarlyStatus(cur_tx'[w]) = "SUCCESS"
        BY <3>1 DEF Starts
      <4> QED
        BY <2>2, <4>1 DEF EarlyStatus, check_tx_format_parameters
    <3>2. CASE Leaves(w) \/ Returns(w)
      BY <2>2, <3>2 DEF Leaves, Returns
    <3>3. CASE ~Starts(w) /\ ~Leaves(w) /\ ~Returns(w)
      <4>1. cur_tx' = cur_tx /\ (pc'[w] = "idle" <=> pc[w] = "idle")
        BY <3>3 DEF Effect, Refuses, Secures, Reserves, Retries, Enters, Proceeds, MovesOn, Abandons,
             GivesUp, TakesBack, Undoes, Refunds, Releases, Flushes, Publishes, Working
      <4> QED
        BY <2>2, <4>1 DEF WellFormed, check_tx_format_parameters
    <3> QED
      BY <3>1, <3>2, <3>3
  <2> QED
    BY <2>1, <2>2
<1>2. ASSUME NEW t \in TxId, HoldsSeqNum(t)'
      PROVE  check_tx_format_parameters(t) /\ SeqNumUsable(t)
  <2>1. CASE HoldsSeqNum(t)
    BY <2>1 DEF WellFormed
  <2>2. CASE Secures(w) /\ t = cur_tx[w]
    BY <2>2 DEF WellFormed, Secures, Reserves
  <2> QED
    BY <1>2, <2>1, <2>2, HoldersStep
<1>3. \A t \in TxId : HoldsSeqNum(t)' => check_tx_format_parameters(t)' /\ SeqNumUsable(t)'
  BY <1>2 DEF check_tx_format_parameters, SeqNumUsable, seq_num_in_range, seq_num_offset
<1> QED
  BY <1>1, <1>3 DEF WellFormed

LEMMA BitsExactStep ==
  ASSUME TInv, OneRunner, BitsExact, NEW w \in Worker, Alone(w), Effect(w)
  PROVE  BitsExact'
<1>1. sequence_number_vec \in [Account -> SUBSET Int]
  BY DEF TInv, TypeOK
<1> SUFFICES ASSUME NEW a \in Account, NEW o \in sequence_number_vec'[a]
             PROVE  \E t \in TxId : HoldsSeqNum(t)' /\ Tx[t].sourceAccount = a /\ seq_num_offset(t) = o
  BY DEF BitsExact, seq_num_offset
<1>2. CASE Secures(w) /\ o \notin sequence_number_vec[a]
  <2>1. /\ cur_tx[w] \in TxId /\ pc'[w] = "charge" /\ cur_tx'[w] = cur_tx[w]
        /\ sequence_number_vec' = [sequence_number_vec EXCEPT ![Source(w)] =
                                     @ \cup {seq_num_offset(cur_tx[w])}]
    BY <1>2 DEF Secures, Reserves
  <2>2. Source(w) = a /\ seq_num_offset(cur_tx[w]) = o
    BY <1>1, <1>2, <2>1
  <2>3. HoldsSeqNum(cur_tx[w])'
    BY <2>1 DEF HoldsSeqNum
  <2> QED
    BY <2>1, <2>2, <2>3 DEF Source, Cur
<1>3. CASE o \in sequence_number_vec[a]
  <2>1. PICK t \in TxId : HoldsSeqNum(t) /\ Tx[t].sourceAccount = a /\ seq_num_offset(t) = o
    BY <1>3 DEF BitsExact
  <2>2. CASE Leaves(w) /\ pc[w] = "unwind" /\ t = cur_tx[w]
    <3>1. sequence_number_vec' = [sequence_number_vec EXCEPT ![Source(w)] =
                                     @ \ {seq_num_offset(cur_tx[w])}]
      BY <2>2 DEF Leaves
    <3>2. Source(w) = a
      BY <2>1, <2>2 DEF Source, Cur
    <3> QED
      BY <1>1, <2>1, <2>2, <3>1, <3>2
  <2> QED
    BY <2>1, <2>2, HoldersStep
<1>4. CASE ~Secures(w) /\ o \notin sequence_number_vec[a]
  <2>1. CASE Leaves(w)
    <3>1. \/ sequence_number_vec' = sequence_number_vec
          \/ sequence_number_vec' = [sequence_number_vec EXCEPT ![Source(w)] =
                                     @ \ {seq_num_offset(cur_tx[w])}]
      BY <2>1 DEF Leaves
    <3> QED
      BY <1>1, <1>4, <3>1
  <2>2. CASE ~Leaves(w)
    <3>1. sequence_number_vec' = sequence_number_vec
      BY <1>4, <2>2 DEF Effect, Starts, Refuses, Retries, Enters, Proceeds, MovesOn, Abandons, GivesUp,
           TakesBack, Undoes, Refunds, Releases, Flushes, Publishes, Returns, reservations
    <3> QED
      BY <1>4, <3>1
  <2> QED
    BY <2>1, <2>2
<1> QED
  BY <1>2, <1>3, <1>4

\* A cancellation stands until it is taken back.
LEMMA CancelsStep ==
  ASSUME TInv, OneRunner, OutcomeKnown, NEW w \in Worker, Alone(w), Effect(w),
         NEW t \in TxId, NEW i \in Nat, HoldsCancel(t, i)
  PROVE  \/ HoldsCancel(t, i)'
         \/ TakesBack(w) /\ t = cur_tx[w] /\ i = op_idx[w]
<1>1. IsCancel(t, i) /\ IsCancel(t, i)'
  BY DEF HoldsCancel, IsCancel
<1>2. CASE status[t] = "SUCCESS"
  BY <1>1, <1>2, StatusStep DEF HoldsCancel
<1>3. ASSUME NEW v \in Worker, v # w, cur_tx[v] = t, i \in CompletedOps(v) PROVE HoldsCancel(t, i)'
  <2>1. cur_tx'[v] = t /\ i \in CompletedOps(v)'
    BY <1>3 DEF Alone, CompletedOps
  <2> QED
    BY <1>1, <2>1 DEF HoldsCancel
<1>4. CASE cur_tx[w] = t /\ i \in CompletedOps(w)
  <2>1. cur_tx'[w] = t /\ i \in CompletedOps(w)' => HoldsCancel(t, i)'
    BY <1>1 DEF HoldsCancel
  <2>2. cur_tx'[w] = cur_tx[w] \/ Starts(w) \/ Leaves(w) \/ Returns(w)
    BY StatusStep
  <2>3. CASE Starts(w) \/ Leaves(w) \/ Secures(w)
    BY <1>4, <2>3, HandStart
  <2>4. CASE Bystands(w)
    <3>1. CompletedOps(w)' = CompletedOps(w)
      BY <2>4, HandSame
    <3>2. cur_tx' = cur_tx
      BY <2>4 DEF Bystands, Retries, Refuses, Refunds, Releases, Flushes, Publishes
    <3> QED
      BY <1>4, <2>1, <3>1, <3>2
  <2>5. CASE Enters(w) \/ Proceeds(w) \/ Abandons(w)
    <3>1. op_idx[w] \in Int /\ cur_tx' = cur_tx
      BY <2>5 DEF TInv, TypeOK, Enters, Proceeds, MovesOn, Abandons, GivesUp
    <3>2. CompletedOps(w) \subseteq CompletedOps(w)'
      BY <2>5, <3>1, HandEnters, HandProceeds, HandAbandons
    <3> QED
      BY <1>4, <2>1, <3>1, <3>2
  <2>6. CASE TakesBack(w)
    <3>1. /\ op_idx[w] \in Int /\ cur_tx' = cur_tx /\ CompletedOps(w) = 1 .. op_idx[w]
          /\ CompletedOps(w)' = 1 .. op_idx[w] - 1
      BY <2>6, HandTakesBack DEF TInv, TypeOK, TakesBack, Undoes
    <3> QED
      BY <1>4, <2>1, <2>6, <3>1
  <2>7. CASE Returns(w)
    <3>1. status'[t] = "SUCCESS"
      BY <1>4, <2>7, StatusStep
    <3> QED
      BY <1>1, <3>1 DEF HoldsCancel
  <2> QED
    BY <2>3, <2>4, <2>5, <2>6, <2>7 DEF Effect, Bystands
<1> QED
  BY <1>2, <1>3, <1>4 DEF HoldsCancel

LEMMA MarksExactStep ==
  ASSUME TInv, OneRunner, OutcomeKnown, MarksExact, NEW w \in Worker, Alone(w), Effect(w)
  PROVE  MarksExact'
<1> SUFFICES ASSUME NEW k \in marked_for_deletion'
             PROVE  \E t \in TxId : \E i \in Nat : HoldsCancel(t, i)' /\ cancel_key(t, i) = k
  BY DEF MarksExact, cancel_key
<1>1. CASE k \in marked_for_deletion
  <2>1. PICK t \in TxId, i \in Nat : HoldsCancel(t, i) /\ cancel_key(t, i) = k
    BY <1>1 DEF MarksExact
  <2>2. CASE TakesBack(w) /\ t = cur_tx[w] /\ i = op_idx[w]
    <3>1. IsCancel(cur_tx[w], op_idx[w])
      BY <2>1, <2>2 DEF HoldsCancel
    <3>2. marked_for_deletion' = marked_for_deletion \ {cancel_key(cur_tx[w], op_idx[w])}
      BY <2>2, <3>1 DEF TakesBack, Undoes
    <3> QED
      BY <2>1, <2>2, <3>2
  <2> QED
    BY <2>1, <2>2, CancelsStep
<1>2. CASE k \notin marked_for_deletion
  <2>1. Proceeds(w)
    BY <1>2 DEF Effect, Starts, Leaves, Refuses, Secures, Reserves, Retries, Enters, Abandons,
         GivesUp, TakesBack, Undoes, Refunds, Releases, Flushes, Publishes, Returns, reservations
  <2>2. /\ IsCancel(cur_tx[w], op_idx[w]) /\ k = cancel_key(cur_tx[w], op_idx[w])
        /\ cur_tx[w] \in TxId /\ cur_tx' = cur_tx
    BY <1>2, <2>1 DEF Proceeds, MovesOn
  <2>3. op_idx[w] \in 1 .. Len(Tx[cur_tx[w]].operations) /\ Len(Tx[cur_tx[w]].operations) \in Nat
    BY <2>2, TxType DEF IsCancel
  <2>4. op_idx[w] \in Nat /\ op_idx[w] \in CompletedOps(w)'
    BY <2>1, <2>3, HandProceeds
  <2>5. PICK t \in TxId, i \in Nat : t = cur_tx[w] /\ i = op_idx[w]
    BY <2>2, <2>4
  <2>6. HoldsCancel(t, i)'
    BY <2>2, <2>4, <2>5 DEF HoldsCancel, IsCancel
  <2> QED
    BY <2>2, <2>5, <2>6
<1> QED
  BY <1>1, <1>2
-----------------------------------------------------------------------------
(***************************************************************************)
(* The account ids.                                                        *)
(***************************************************************************)
LEMMA IdsOwnedStep ==
  ASSUME TInv, IdsOwned, NEW w \in Worker, Alone(w), Effect(w)
  PROVE  IdsOwned'
<1>1. \A v \in Worker : v # w => new_accounts'[v] = new_accounts[v]
  BY DEF Alone
<1> SUFFICES ASSUME NEW a \in reserved_account_ids'
             PROVE  \/ \E e \in uncommitted_db' : e.id = a
                    \/ \E v \in Worker : a \in new_accounts'[v]
  BY DEF IdsOwned
<1>2. CASE Enters(w)
  <2>1. uncommitted_db' = uncommitted_db /\ new_accounts[w] \subseteq new_accounts'[w]
    BY <1>2 DEF Enters
  <2>2. a \in reserved_account_ids \/ a \in new_accounts'[w]
    BY <1>2 DEF Enters
  <2> QED
    BY <1>1, <2>1, <2>2 DEF IdsOwned
<1>3. CASE Releases(w)
  <2>1. PICK b \in new_accounts[w] : /\ reserved_account_ids' = reserved_account_ids \ {b}
                                     /\ new_accounts'[w] = new_accounts[w] \ {b}
    BY <1>3 DEF Releases
  <2>2. uncommitted_db' = uncommitted_db
    BY <1>3 DEF Releases
  <2> QED
    BY <1>1, <2>1, <2>2 DEF IdsOwned
<1>4. CASE Publishes(w)
  <2>1. PICK b \in new_accounts[w] :
          /\ uncommitted_db' = uncommitted_db \cup {NewEntry(b, cur_tx[w], new_balance[w])}
          /\ new_accounts'[w] = new_accounts[w] \ {b}
    BY <1>4 DEF Publishes
  <2>2. NewEntry(b, cur_tx[w], new_balance[w]).id = b /\ reserved_account_ids' = reserved_account_ids
    BY <1>4 DEF NewEntry, Publishes
  <2> QED
    BY <1>1, <2>1, <2>2 DEF IdsOwned
<1>5. CASE ~Enters(w) /\ ~Releases(w) /\ ~Publishes(w)
  <2>1. /\ reserved_account_ids' = reserved_account_ids /\ uncommitted_db' = uncommitted_db
        /\ new_accounts'[w] = new_accounts[w] \/ new_accounts[w] = {}
    BY <1>5 DEF Effect, Starts, Leaves, Refuses, Secures, Retries, Proceeds, Abandons,
         TakesBack, Refunds, Flushes, Returns, reservations, view
  <2> QED
    BY <1>1, <2>1 DEF IdsOwned
<1> QED
  BY <1>2, <1>3, <1>4, <1>5

LEMMA CreatedByStep ==
  ASSUME TInv, EmptyView, NEW w \in Worker, CreatedBy(w), Alone(w), Effect(w)
  PROVE  CreatedBy(w)'
<1>1. op_idx[w] \in Int /\ Working \subseteq Active /\ "commit" \in Active
  BY DEF TInv, TypeOK, Active
<1>2. PICK t : t = cur_tx[w]
  OBVIOUS
<1>3. ASSUME cur_tx'[w] = t,
             pc'[w] \in Active => \A a \in new_accounts'[w] : \E i \in InHand(w)' :
               OpIs(t, i, "CREATE_ACCOUNT") /\ Tx[t].operations[i].account = a,
             pc'[w] \in Working => \A i \in InHand(w)' : OpIs(t, i, "CREATE_ACCOUNT") =>
               Tx[t].operations[i].account \in new_accounts'[w]
      PROVE  CreatedBy(w)'
  <2>1. Active' = Active /\ Working' = Working
    BY DEF Active, Working
  <2> QED
    BY <1>3, <2>1 DEF CreatedBy, OpIs
<1>4. CASE Starts(w) \/ Leaves(w) \/ Returns(w) \/ Abandons(w) \/ TakesBack(w)
  <2>1. pc'[w] \notin {"op", "charge", "cas", "commit"}
    BY <1>4 DEF Starts, Leaves, Returns, Abandons, GivesUp, TakesBack, Undoes
  <2> QED
    BY <2>1 DEF CreatedBy, Active, Working
<1>5. CASE Secures(w)
  <2>1. new_accounts'[w] = {} /\ InHand(w)' = {} /\ cur_tx'[w] = t
    BY <1>2, <1>5, HandStart DEF Secures, Reserves, EmptyView, view
  <2> QED
    BY <1>3, <2>1
<1>6. CASE Bystands(w)
  <2>1. /\ InHand(w)' = InHand(w) /\ cur_tx'[w] = t /\ new_accounts'[w] \subseteq new_accounts[w]
        /\ \/ pc'[w] = pc[w] /\ (new_accounts'[w] = new_accounts[w] \/ pc[w] \in {"unwind", "commit"})
           \/ pc[w] \in Working /\ pc'[w] \in Working /\ new_accounts'[w] = new_accounts[w]
    BY <1>2, <1>6, HandSame DEF Bystands, Refuses, Retries, Refunds, Flushes, Releases, Publishes,
         view, Working
  <2>2. pc'[w] \in Active => pc[w] \in Active
    BY <2>1 DEF Active
  <2>3. pc'[w] \in Working => pc[w] \in Working /\ new_accounts'[w] = new_accounts[w]
    BY <2>1 DEF Working
  <2> QED
    BY <1>2, <1>3, <2>1, <2>2, <2>3 DEF CreatedBy
<1>7. CASE Enters(w)
  <2>1. /\ pc[w] \in Working /\ InHand(w) = 1 .. op_idx[w] - 1 /\ InHand(w)' = 1 .. op_idx[w]
        /\ cur_tx'[w] = t /\ op_idx[w] \in 1 .. Len(Tx[t].operations) /\ t \in TxId
    BY <1>2, <1>7, HandEnters DEF Enters, Working, Cur
  <2>2. /\ InHand(w) \subseteq InHand(w)' /\ op_idx[w] \in InHand(w)'
        /\ \A i \in InHand(w)' : i \in InHand(w) \/ i = op_idx[w]
    BY <1>1, <2>1
  <2>3. PICK i : i = op_idx[w]
    OBVIOUS
  <2>4. /\ OpIs(t, i, "CREATE_ACCOUNT") <=> CurOp(w).type = "CREATE_ACCOUNT"
        /\ Tx[t].operations[i] = CurOp(w)
    BY <1>2, <2>1, <2>3 DEF OpIs, CurOp, Cur
  <2>5. IF CurOp(w).type = "CREATE_ACCOUNT"
        THEN new_accounts'[w] = new_accounts[w] \cup {CurOp(w).account}
        ELSE new_accounts'[w] = new_accounts[w]
    BY <1>7 DEF Enters
  <2> HIDE <1>2
  <2>6. /\ \A a \in new_accounts[w] : \E j \in InHand(w) :
             OpIs(t, j, "CREATE_ACCOUNT") /\ Tx[t].operations[j].account = a
        /\ \A j \in InHand(w) : OpIs(t, j, "CREATE_ACCOUNT") =>
             Tx[t].operations[j].account \in new_accounts[w]
    BY <1>1, <1>2, <2>1 DEF CreatedBy
  <2>7. \A a \in new_accounts'[w] : \E j \in InHand(w)' :
               OpIs(t, j, "CREATE_ACCOUNT") /\ Tx[t].operations[j].account = a
    BY <2>2, <2>3, <2>4, <2>5, <2>6
  <2>8. \A j \in InHand(w)' : OpIs(t, j, "CREATE_ACCOUNT") =>
               Tx[t].operations[j].account \in new_accounts'[w]
    BY <2>2, <2>3, <2>4, <2>5, <2>6
  <2> QED
    BY <1>3, <2>1, <2>7, <2>8
<1>8. CASE Proceeds(w)
  <2>1. /\ pc[w] \in Working /\ InHand(w) = 1 .. (IF pc[w] = "op" THEN op_idx[w] - 1 ELSE op_idx[w])
        /\ InHand(w)' = 1 .. op_idx[w] /\ new_accounts'[w] = new_accounts[w]
        /\ cur_tx'[w] = t
    BY <1>2, <1>8, HandProceeds DEF Proceeds, MovesOn
  <2>2. /\ InHand(w) \subseteq InHand(w)'
        /\ \A j \in InHand(w)' : j \in InHand(w) \/ (j = op_idx[w] /\ pc[w] = "op")
    BY <1>1, <2>1
  <2>3. pc[w] = "op" => ~OpIs(t, op_idx[w], "CREATE_ACCOUNT")
    BY <1>2, <1>8 DEF Proceeds, OpIs, CurOp, Cur
  <2>4. /\ \A a \in new_accounts[w] : \E j \in InHand(w) :
             OpIs(t, j, "CREATE_ACCOUNT") /\ Tx[t].operations[j].account = a
        /\ \A j \in InHand(w) : OpIs(t, j, "CREATE_ACCOUNT") =>
             Tx[t].operations[j].account \in new_accounts[w]
    BY <1>1, <1>2, <2>1 DEF CreatedBy
  <2>5. \A j \in InHand(w)' : OpIs(t, j, "CREATE_ACCOUNT") =>
             Tx[t].operations[j].account \in new_accounts'[w]
    BY <2>1, <2>2, <2>3, <2>4
  <2>6. \A a \in new_accounts'[w] : \E j \in InHand(w)' :
               OpIs(t, j, "CREATE_ACCOUNT") /\ Tx[t].operations[j].account = a
    BY <2>1, <2>2, <2>4
  <2> QED
    BY <1>3, <2>1, <2>5, <2>6
<1> QED
  BY <1>4, <1>5, <1>6, <1>7, <1>8 DEF Effect, Bystands

LEMMA CreatedByOthers ==
  ASSUME NEW w \in Worker, Alone(w), NEW v \in Worker, v # w, CreatedBy(v)
  PROVE  CreatedBy(v)'
<1>1. /\ pc'[v] = pc[v] /\ cur_tx'[v] = cur_tx[v] /\ op_idx'[v] = op_idx[v]
      /\ new_accounts'[v] = new_accounts[v]
  BY DEF Alone
<1>2. InHand(v)' = InHand(v)
  BY <1>1 DEF InHand, CompletedOps
<1> QED
  BY <1>1, <1>2 DEF CreatedBy, OpIs, Active, Working

LEMMA IdsExactStep ==
  ASSUME TInv, OneRunner, EmptyView, IdsExact, NEW w \in Worker, Alone(w), Effect(w)
  PROVE  IdsExact'
<1>1. \A v \in Worker : CreatedBy(v)'
  BY CreatedByStep, CreatedByOthers DEF IdsExact
<1>2. IdsOwned'
  BY IdsOwnedStep DEF IdsExact
<1>3. Effective \subseteq Effective' /\ Effective \subseteq TxId
  BY EffectiveStep DEF Effective
<1>4. \A v \in Worker : v # w => new_accounts'[v] = new_accounts[v] /\ pc'[v] = pc[v]
  BY DEF Alone
<1>5. uncommitted_db \subseteq uncommitted_db' /\ (~Publishes(w) => uncommitted_db' = uncommitted_db)
  BY DEF Effect, Starts, Leaves, Refuses, Secures, Retries, Enters, Proceeds, Abandons,
         TakesBack, Refunds, Releases, Flushes, Publishes, Returns, reservations
<1>6. EntriesBacked'
  <2> SUFFICES ASSUME NEW e \in uncommitted_db'
               PROVE  /\ e.by \in Effective'
                      /\ \E i \in Nat : /\ OpIs(e.by, i, "CREATE_ACCOUNT")
                                        /\ Tx[e.by].operations[i].account = e.id
    BY DEF EntriesBacked, OpIs
  <2>1. CASE e \in uncommitted_db
    BY <1>3, <2>1 DEF IdsExact, EntriesBacked
  <2>2. CASE e \notin uncommitted_db
    <3>1. Publishes(w)
      BY <1>5, <2>2
    <3>2. PICK a \in new_accounts[w] : e = NewEntry(a, cur_tx[w], new_balance[w])
      BY <2>2, <3>1 DEF Publishes
    <3>3. e.id = a /\ e.by = cur_tx[w]
      BY <3>2 DEF NewEntry
    <3>4. pc[w] \in Active /\ cur_tx[w] \in TxId /\ cur_tx[w] \in Effective
      BY <3>1 DEF Publishes, Active, Effective
    <3>5. PICK i \in InHand(w) : OpIs(cur_tx[w], i, "CREATE_ACCOUNT") /\ Tx[cur_tx[w]].operations[i].account = a
      BY <3>4 DEF IdsExact, CreatedBy
    <3>6. i \in Nat
      BY <3>4, <3>5, TxType DEF OpIs
    <3> QED
      BY <1>3, <3>3, <3>4, <3>5, <3>6
  <2> QED
    BY <2>1, <2>2
<1>7. CreationsKept'
  <2> SUFFICES ASSUME NEW t \in Effective', NEW i \in Nat, OpIs(t, i, "CREATE_ACCOUNT"), NEW a,
                      a = Tx[t].operations[i].account
               PROVE  \/ \E e \in uncommitted_db' : e.id = a
                      \/ \E v \in Worker : pc'[v] = "commit" /\ a \in new_accounts'[v]
    BY DEF CreationsKept, OpIs
  <2>1. CASE t \notin Effective
    <3>1. Proceeds(w) /\ pc'[w] = "commit" /\ t = cur_tx[w]
      BY <2>1, EffectiveStep
    <3>2. /\ op_idx[w] = Len(Tx[t].operations) /\ t \in TxId /\ new_accounts' = new_accounts
          /\ InHand(w) = 1 .. (IF pc[w] = "op" THEN op_idx[w] - 1 ELSE op_idx[w])
          /\ pc[w] \in Working
      BY <3>1, HandProceeds DEF Proceeds, MovesOn, Cur
    <3>3. i \in 1 .. Len(Tx[t].operations) /\ Len(Tx[t].operations) \in Nat
      BY <3>2, TxType DEF OpIs
    <3>4. i \in InHand(w)
      <4>1. pc[w] = "op" => i # op_idx[w]
        BY <3>1 DEF Proceeds, OpIs, CurOp, Cur
      <4> QED
        BY <3>2, <3>3, <4>1
    <3> QED
      BY <3>1, <3>2, <3>4 DEF IdsExact, CreatedBy
  <2>2. CASE t \in Effective
    <3>1. \/ \E e \in uncommitted_db : e.id = a
          \/ \E v \in Worker : pc[v] = "commit" /\ a \in new_accounts[v]
      BY <2>2 DEF IdsExact, CreationsKept
    <3>2. CASE pc[w] = "commit" /\ a \in new_accounts[w]
      <4>1. CASE Publishes(w)
        <5>1. PICK b \in new_accounts[w] :
                /\ uncommitted_db' = uncommitted_db \cup {NewEntry(b, cur_tx[w], new_balance[w])}
                /\ new_accounts'[w] = new_accounts[w] \ {b}
          BY <4>1 DEF Publishes
        <5>2. NewEntry(b, cur_tx[w], new_balance[w]).id = b /\ pc' = pc
          BY <4>1 DEF NewEntry, Publishes
        <5> QED
          BY <3>2, <5>1, <5>2
      <4>2. CASE ~Publishes(w)
        <5>1. pc'[w] = "commit" /\ new_accounts' = new_accounts
          BY <3>2, <4>2 DEF Effect, Starts, Leaves, Refuses, Secures, Reserves, Retries, Enters,
               Proceeds, MovesOn, Abandons, GivesUp, TakesBack, Undoes, Refunds, Releases, Flushes,
               Returns, Working, view
        <5> QED
          BY <3>2, <5>1
      <4> QED
        BY <4>1, <4>2
    <3> QED
      BY <1>4, <1>5, <3>1, <3>2
  <2> QED
    BY <2>1, <2>2
<1> QED
  BY <1>1, <1>2, <1>6, <1>7 DEF IdsExact
-----------------------------------------------------------------------------
(***************************************************************************)
(* The offers.  An offer id belongs to one operation of one transaction.   *)
(***************************************************************************)
LEMMA OfferIds ==
  ASSUME NEW t \in TxId, NEW u \in TxId, NEW i \in 1 .. Len(Tx[t].operations),
         NEW j \in 1 .. Len(Tx[u].operations), check_tx_format_parameters(t),
         check_tx_format_parameters(u), make_offer(t, i) = make_offer(u, j)
  PROVE  /\ i = j /\ Tx[t].sourceAccount = Tx[u].sourceAccount
         /\ Tx[t].sequenceNumber = Tx[u].sequenceNumber
<1>1. PICK a, b, m, p, q : /\ a = Tx[t].sequenceNumber /\ b = Tx[u].sequenceNumber
                           /\ m = MAX_OPS_PER_TX /\ p = i - 1 /\ q = j - 1
  OBVIOUS
<1>2. /\ Len(Tx[t].operations) \in Nat /\ Len(Tx[u].operations) \in Nat
      /\ Len(Tx[t].operations) <= m /\ Len(Tx[u].operations) <= m
      /\ a \in Nat /\ b \in Nat /\ m \in Nat \ {0}
  BY <1>1, TxType, ConstantAssumption
<1>3. p \in 0 .. m - 1 /\ q \in 0 .. m - 1
  BY <1>1, <1>2
<1>4. a % m = 0 /\ b % m = 0
  BY <1>1 DEF check_tx_format_parameters
<1>5. a + i - 1 = b + j - 1 /\ Tx[t].sourceAccount = Tx[u].sourceAccount
  BY <1>1 DEF make_offer
<1>6. a + p = b + q
  BY <1>1, <1>2, <1>5
<1>7. a = b /\ p = q
  BY <1>2, <1>3, <1>4, <1>6, ModUnique
<1> QED
  BY <1>1, <1>5, <1>7

LEMMA OfferOwners ==
  ASSUME TInv, ResInv, WellFormed, NEW t \in TxId, NEW u \in TxId, NEW i, NEW j, NEW type, NEW kind,
         OpIs(t, i, type), OpIs(u, j, kind), HoldsSeqNum(t), HoldsSeqNum(u),
         make_offer(t, i) = make_offer(u, j)
  PROVE  t = u /\ i = j
<1>1. /\ check_tx_format_parameters(t) /\ check_tx_format_parameters(u)
      /\ i \in 1 .. Len(Tx[t].operations) /\ j \in 1 .. Len(Tx[u].operations)
  BY DEF WellFormed, OpIs
<1>2. /\ i = j /\ Tx[t].sourceAccount = Tx[u].sourceAccount
      /\ Tx[t].sequenceNumber = Tx[u].sequenceNumber
  BY <1>1, OfferIds
<1>3. SeqNumHeldOnce
  BY ResImplies DEF ReservationsHeldOnce
<1> QED
  BY <1>2, <1>3 DEF SeqNumHeldOnce

\* What becomes of the worker's offers, and of the operations behind them.
OfferStays(w) ==
  /\ new_offers'[w] = new_offers[w]
  /\ \A i : OpIs(cur_tx[w], i, "CREATE_SELL_OFFER") => (i \in InHand(w)' <=> i \in InHand(w))
OfferAdded(w) ==
  /\ OpIs(cur_tx[w], op_idx[w], "CREATE_SELL_OFFER")
  /\ new_offers'[w] = new_offers[w] \cup {make_offer(cur_tx[w], op_idx[w])}
  /\ InHand(w)' = InHand(w) \cup {op_idx[w]}
  /\ cur_tx[w] \in TxId
OfferDropped(w) ==
  /\ OpIs(cur_tx[w], op_idx[w], "CREATE_SELL_OFFER")
  /\ new_offers'[w] = new_offers[w] \ {make_offer(cur_tx[w], op_idx[w])}
  /\ InHand(w)' = InHand(w) \ {op_idx[w]}
  /\ pc[w] \notin {"idle", "reserve"} /\ cur_tx[w] \in TxId

LEMMA OfferMoves ==
  ASSUME TInv, NEW w \in Worker, Effect(w), ~Starts(w), ~Leaves(w), ~Returns(w)
  PROVE  /\ cur_tx'[w] = cur_tx[w]
         /\ OfferStays(w) \/ OfferAdded(w) \/ OfferDropped(w)
<1>1. op_idx[w] \in Int
  BY DEF TInv, TypeOK
<1>2. CASE Secures(w)
  BY <1>2, HandStart DEF Secures, Reserves, OfferStays, trades
<1>3. CASE Bystands(w)
  BY <1>3, HandSame DEF OfferStays, Bystands, Retries, Refuses, Refunds, Releases, Flushes,
     Publishes, trades
<1>4. CASE Enters(w)
  <2>1. /\ InHand(w) = 1 .. op_idx[w] - 1 /\ InHand(w)' = 1 .. op_idx[w]
        /\ op_idx[w] \in 1 .. Len(Tx[cur_tx[w]].operations) /\ cur_tx'[w] = cur_tx[w]
        /\ cur_tx[w] \in TxId
    BY <1>4, HandEnters DEF Enters, Cur
  <2>2. InHand(w)' = InHand(w) \cup {op_idx[w]}
    BY <1>1, <2>1
  <2>3. OpIs(cur_tx[w], op_idx[w], "CREATE_SELL_OFFER") <=> CurOp(w).type = "CREATE_SELL_OFFER"
    BY <2>1 DEF OpIs, CurOp, Cur
  <2>4. CASE CurOp(w).type = "CREATE_SELL_OFFER"
    <3>1. new_offers'[w] = new_offers[w] \cup {make_offer(cur_tx[w], op_idx[w])}
      BY <1>4, <2>4 DEF Enters
    <3> QED
      BY <2>1, <2>2, <2>3, <2>4, <3>1 DEF OfferAdded
  <2>5. CASE CurOp(w).type # "CREATE_SELL_OFFER"
    <3>1. new_offers' = new_offers
      BY <1>4, <2>5 DEF Enters
    <3> QED
      BY <2>1, <2>2, <2>3, <2>5, <3>1 DEF OfferStays
  <2> QED
    BY <2>4, <2>5
<1>5. CASE Proceeds(w)
  <2>1. /\ InHand(w) = 1 .. (IF pc[w] = "op" THEN op_idx[w] - 1 ELSE op_idx[w])
        /\ InHand(w)' = 1 .. op_idx[w] /\ cur_tx'[w] = cur_tx[w] /\ new_offers' = new_offers
    BY <1>5, HandProceeds DEF Proceeds, MovesOn, trades
  <2>2. pc[w] = "op" => ~OpIs(cur_tx[w], op_idx[w], "CREATE_SELL_OFFER")
    BY <1>5 DEF Proceeds, OpIs, CurOp, Cur
  <2>3. \A i : i \in InHand(w)' <=> i \in InHand(w) \/ (i = op_idx[w] /\ i \in InHand(w)' /\ pc[w] = "op")
    BY <1>1, <2>1
  <2> QED
    BY <2>1, <2>2, <2>3 DEF OfferStays
<1>6. CASE Abandons(w)
  <2>1. /\ InHand(w) = 1 .. (IF pc[w] = "op" THEN op_idx[w] - 1 ELSE op_idx[w])
        /\ InHand(w)' = 1 .. op_idx[w] - 1 /\ cur_tx'[w] = cur_tx[w]
        /\ pc[w] \in Working /\ cur_tx[w] \in TxId
        /\ new_offers'[w] =
             IF pc[w] \in {"charge", "cas"} /\ OpIs(cur_tx[w], op_idx[w], "CREATE_SELL_OFFER")
             THEN new_offers[w] \ {make_offer(cur_tx[w], op_idx[w])} ELSE new_offers[w]
    BY <1>6, HandAbandons DEF Abandons, GivesUp
  <2>2. CASE pc[w] = "op"
    BY <2>1, <2>2 DEF OfferStays
  <2>3. CASE pc[w] # "op"
    <3>1. pc[w] \in {"charge", "cas"} /\ InHand(w)' = InHand(w) \ {op_idx[w]}
      BY <1>1, <2>1, <2>3 DEF Working
    <3> QED
      BY <2>1, <3>1 DEF OfferStays, OfferDropped
  <2> QED
    BY <2>2, <2>3
<1>7. CASE TakesBack(w)
  <2>1. /\ InHand(w) = 1 .. op_idx[w] /\ InHand(w)' = 1 .. op_idx[w] - 1
        /\ cur_tx'[w] = cur_tx[w] /\ pc[w] = "unwind_ops" /\ cur_tx[w] \in TxId
        /\ new_offers'[w] =
             IF OpIs(cur_tx[w], op_idx[w], "CREATE_SELL_OFFER")
             THEN new_offers[w] \ {make_offer(cur_tx[w], op_idx[w])} ELSE new_offers[w]
    BY <1>7, HandTakesBack DEF TakesBack, Undoes
  <2>2. InHand(w)' = InHand(w) \ {op_idx[w]}
    BY <1>1, <2>1
  <2> QED
    BY <2>1, <2>2 DEF OfferStays, OfferDropped
<1> QED
  BY <1>2, <1>3, <1>4, <1>5, <1>6, <1>7 DEF Effect, Bystands

LEMMA OffersOthers ==
  ASSUME TInv, OneRunner, NEW w \in Worker, Alone(w), Effect(w), NEW v \in Worker, v # w,
         OffersBacked(v), OffersPlaced(v)
  PROVE  OffersBacked(v)' /\ OffersPlaced(v)'
<1>1. /\ pc'[v] = pc[v] /\ cur_tx'[v] = cur_tx[v] /\ op_idx'[v] = op_idx[v]
      /\ new_offers'[v] = new_offers[v]
  BY DEF Alone
<1>2. InHand(v)' = InHand(v)
  BY <1>1 DEF InHand, CompletedOps
<1>3. \A t \in TxId : status[t] = "SUCCESS" => status'[t] = "SUCCESS"
  BY StatusStep
<1>4. OffersBacked(v)'
  <2> SUFFICES ASSUME NEW o \in new_offers[v]
               PROVE  \E t \in TxId : \E i \in Nat :
                        /\ Placed(t, i, o)
                        /\ status'[t] = "SUCCESS" \/ (cur_tx[v] = t /\ i \in InHand(v))
    BY <1>1, <1>2 DEF OffersBacked, Placed, OpIs, make_offer
  <2> QED
    BY <1>3 DEF OffersBacked
<1>5. OffersPlaced(v)'
  BY <1>1, <1>2 DEF OffersPlaced, OpIs, make_offer
<1> QED
  BY <1>4, <1>5

LEMMA OffersOwn ==
  ASSUME TInv, ResInv, WellFormed, NEW w \in Worker, Alone(w), Effect(w),
         OffersBacked(w), OffersPlaced(w)
  PROVE  OffersBacked(w)' /\ OffersPlaced(w)'
<1>1. \A t \in TxId : status[t] = "SUCCESS" => status'[t] = "SUCCESS"
  BY StatusStep DEF ResInv
<1>2. PICK u, k : u = cur_tx[w] /\ k = op_idx[w]
  OBVIOUS
<1>3. ASSUME NEW H, H = InHand(w)', NEW c, c = cur_tx'[w],
             \A o \in new_offers'[w] : \E t \in TxId : \E i \in Nat :
               Placed(t, i, o) /\ (status'[t] = "SUCCESS" \/ (c = t /\ i \in H)),
             \A i \in H : OpIs(c, i, "CREATE_SELL_OFFER") => make_offer(c, i) \in new_offers'[w]
      PROVE  OffersBacked(w)' /\ OffersPlaced(w)'
  BY <1>3 DEF OffersBacked, OffersPlaced, Placed, OpIs, make_offer
<1>4. CASE Starts(w) \/ Leaves(w)
  <2>1. InHand(w) = {} /\ InHand(w)' = {} /\ new_offers' = new_offers
    BY <1>4, HandStart DEF Starts, Leaves, trades
  <2>2. \A o \in new_offers[w] : \E t \in TxId : \E i \in Nat : Placed(t, i, o) /\ status'[t] = "SUCCESS"
    BY <1>1, <2>1 DEF OffersBacked
  <2> QED
    BY <1>3, <2>1, <2>2
<1>5. CASE Returns(w)
  <2>1. InHand(w)' = {} /\ new_offers' = new_offers /\ cur_tx[w] \in TxId /\ status'[cur_tx[w]] = "SUCCESS"
    BY <1>5, HandReturns, StatusStep DEF Returns, trades, ResInv
  <2>2. \A o \in new_offers[w] : \E t \in TxId : \E i \in Nat : Placed(t, i, o) /\ status'[t] = "SUCCESS"
    BY <1>1, <2>1 DEF OffersBacked
  <2> QED
    BY <1>3, <2>1, <2>2
<1>6. CASE ~Starts(w) /\ ~Leaves(w) /\ ~Returns(w)
  <2>1. cur_tx'[w] = u /\ (OfferStays(w) \/ OfferAdded(w) \/ OfferDropped(w))
    BY <1>2, <1>6, OfferMoves
  <2>2. /\ \A o \in new_offers[w] : \E t \in TxId : \E i \in Nat :
             Placed(t, i, o) /\ (status'[t] = "SUCCESS" \/ (u = t /\ i \in InHand(w)))
        /\ \A i \in InHand(w) : OpIs(u, i, "CREATE_SELL_OFFER") => make_offer(u, i) \in new_offers[w]
    BY <1>1, <1>2 DEF OffersBacked, OffersPlaced
  <2>3. PICK N, M, G, H : N = new_offers[w] /\ M = new_offers'[w] /\ G = InHand(w) /\ H = InHand(w)'
    OBVIOUS
  <2>4. /\ \A o \in N : \E t \in TxId : \E i \in Nat :
             Placed(t, i, o) /\ (status'[t] = "SUCCESS" \/ (u = t /\ i \in G))
        /\ \A i \in G : OpIs(u, i, "CREATE_SELL_OFFER") => make_offer(u, i) \in N
    BY <2>2, <2>3
  <2>5. ASSUME \A o \in M : \E t \in TxId : \E i \in Nat :
                 Placed(t, i, o) /\ (status'[t] = "SUCCESS" \/ (u = t /\ i \in H)),
               \A i \in H : OpIs(u, i, "CREATE_SELL_OFFER") => make_offer(u, i) \in M
        PROVE  OffersBacked(w)' /\ OffersPlaced(w)'
    BY <1>3, <2>1, <2>3, <2>5
  <2>6. CASE OfferStays(w)
    <3>1. M = N /\ \A i : OpIs(u, i, "CREATE_SELL_OFFER") => (i \in H <=> i \in G)
      BY <1>2, <2>3, <2>6 DEF OfferStays
    <3> QED
      BY <2>4, <2>5, <3>1 DEF Placed
  <2>7. CASE OfferAdded(w)
    <3>1. OpIs(u, k, "CREATE_SELL_OFFER") /\ M = N \cup {make_offer(u, k)} /\ H = G \cup {k}
      BY <1>2, <2>3, <2>7 DEF OfferAdded
    <3>2. u \in TxId /\ k \in Nat
      <4>1. k \in 1 .. Len(Tx[u].operations) /\ k \in Int
        BY <1>2, <3>1 DEF OpIs, TInv, TypeOK
      <4> QED
        BY <1>2, <2>7, <4>1 DEF OfferAdded
    <3> QED
      BY <2>4, <2>5, <3>1, <3>2 DEF Placed
  <2>8. CASE OfferDropped(w)
    <3>1. /\ OpIs(u, k, "CREATE_SELL_OFFER") /\ M = N \ {make_offer(u, k)} /\ H = G \ {k}
          /\ u \in TxId /\ pc[w] \notin {"idle", "reserve"}
      BY <1>2, <2>3, <2>8 DEF OfferDropped
    <3>2. HoldsSeqNum(u)
      BY <1>2, <3>1 DEF HoldsSeqNum
    <3>3. \A i : OpIs(u, i, "CREATE_SELL_OFFER") /\ i # k => make_offer(u, i) # make_offer(u, k)
      BY <3>1, <3>2, OfferOwners
    <3> QED
      BY <2>4, <2>5, <3>1, <3>3 DEF Placed
  <2> QED
    BY <2>1, <2>6, <2>7, <2>8
<1> QED
  BY <1>4, <1>5, <1>6

LEMMA OffersExactStep ==
  ASSUME TInv, ResInv, AllReturned, WellFormed, OffersExact, NEW w \in Worker, Alone(w), Effect(w)
  PROVE  OffersExact'
<1>1. \A v \in Worker : OffersBacked(v)' /\ OffersPlaced(v)'
  BY OffersOthers, OffersOwn DEF OffersExact, ResInv
<1>2. \A t \in TxId : status[t] = "SUCCESS" => status'[t] = "SUCCESS"
  BY StatusStep DEF ResInv
<1>3. phase' = phase /\ uncommitted_offers' = uncommitted_offers
  BY DEF Alone, Effect, Starts, Leaves, Refuses, Secures, Retries, Enters, Proceeds, Abandons,
     TakesBack, Refunds, Releases, Flushes, Publishes, Returns, trades
<1>4. \A v \in Worker : v # w => new_offers'[v] = new_offers[v]
  BY DEF Alone
<1>5. OffersMerged'
  <2>1. \A o \in uncommitted_offers' : \E t \in TxId : \E i \in Nat :
          Placed(t, i, o) /\ status'[t] = "SUCCESS"
    BY <1>2, <1>3 DEF OffersExact, OffersMerged
  <2>2. phase' = "process" => uncommitted_offers' = {}
    BY <1>3 DEF OffersExact, OffersMerged
  <2>3. phase' = "done" => \A v \in Worker : new_offers'[v] = {}
    <3> SUFFICES ASSUME phase = "done" PROVE new_offers'[w] = {}
      BY <1>3, <1>4 DEF OffersExact, OffersMerged
    <3>1. new_offers[w] = {}
      BY DEF OffersExact, OffersMerged
    <3>2. CASE OfferAdded(w)
      <4>1. make_offer(cur_tx[w], op_idx[w]) \in new_offers'[w]
        BY <3>2 DEF OfferAdded
      <4>2. Enters(w)
        BY <3>1, <4>1 DEF Effect, Starts, Leaves, Refuses, Secures, Retries, Proceeds, Abandons,
           TakesBack, Refunds, Releases, Flushes, Publishes, Returns, trades
      <4> QED
        BY <4>2 DEF Enters, AllReturned
    <3>3. CASE Starts(w) \/ Leaves(w) \/ Returns(w)
      BY <3>1, <3>3 DEF Starts, Leaves, Returns, trades
    <3> QED
      BY <3>1, <3>2, <3>3, OfferMoves DEF OfferStays, OfferDropped
  <2> QED
    BY <2>1, <2>2, <2>3 DEF OffersMerged, Placed, OpIs, make_offer
<1>6. OffersKept'
  <2> SUFFICES ASSUME NEW t \in TxId, NEW i \in Nat, OpIs(t, i, "CREATE_SELL_OFFER"),
                      status'[t] = "SUCCESS"
               PROVE  make_offer(t, i) \in uncommitted_offers'
                        \/ \E v \in Worker : make_offer(t, i) \in new_offers'[v]
    BY DEF OffersKept, OpIs, make_offer
  <2>1. CASE status[t] # "SUCCESS"
    <3>1. Returns(w) /\ t = cur_tx[w]
      BY <2>1, StatusStep DEF ResInv
    <3>2. i \in InHand(w) /\ new_offers' = new_offers
      BY <3>1, HandReturns DEF OpIs, Cur, Returns, trades, ResInv
    <3> QED
      BY <3>1, <3>2 DEF OffersExact, OffersPlaced
  <2>2. CASE status[t] = "SUCCESS"
    <3>1. make_offer(t, i) \in uncommitted_offers \/ \E v \in Worker : make_offer(t, i) \in new_offers[v]
      BY <2>2 DEF OffersExact, OffersKept
    <3>2. ASSUME make_offer(t, i) \in new_offers[w] PROVE make_offer(t, i) \in new_offers'[w]
      <4>1. CASE Starts(w) \/ Leaves(w) \/ Returns(w)
        BY <3>2, <4>1 DEF Starts, Leaves, Returns, trades
      <4>2. CASE OfferStays(w) \/ OfferAdded(w)
        BY <3>2, <4>2 DEF OfferStays, OfferAdded
      <4>3. CASE OfferDropped(w)
        <5>1. PICK u, k : u = cur_tx[w] /\ k = op_idx[w]
          OBVIOUS
        <5>2. /\ OpIs(u, k, "CREATE_SELL_OFFER") /\ u \in TxId
              /\ new_offers'[w] = new_offers[w] \ {make_offer(u, k)}
              /\ cur_tx[w] = u /\ pc[w] \notin {"idle", "reserve"}
          BY <4>3, <5>1 DEF OfferDropped
        <5>3. HoldsSeqNum(u) /\ HoldsSeqNum(t) /\ status[u] = "RUNNING"
          BY <2>2, <5>2, Runners DEF HoldsSeqNum, ResInv
        <5>4. make_offer(t, i) # make_offer(u, k)
          BY <2>2, <5>2, <5>3, OfferOwners
        <5> QED
          BY <3>2, <5>2, <5>4
      <4> QED
        BY <4>1, <4>2, <4>3, OfferMoves
    <3> QED
      BY <1>3, <1>4, <3>1, <3>2
  <2> QED
    BY <2>1, <2>2
<1> QED
  BY <1>1, <1>5, <1>6 DEF OffersExact

-----------------------------------------------------------------------------
(***************************************************************************)
(* The checks that operations passed.                                      *)
(***************************************************************************)
OpsSoundOf(w) == pc[w] \in Active => \A i \in InHand(w) : Sound(cur_tx[w], i)

LEMMA SoundConstant ==
  ASSUME NEW t, NEW i
  PROVE  Sound(t, i)' <=> Sound(t, i)
BY DEF Sound, Ledger!Creates, Ledger!Cancels, Ledger!OpsOf, cancel_key

LEMMA SoundStep ==
  ASSUME TInv, ResInv, IdsExact, NEW w \in Worker, Alone(w), Effect(w), OpsSoundOf(w)
  PROVE  OpsSoundOf(w)'
<1>1. op_idx[w] \in Int
  BY DEF TInv, TypeOK
<1>2. PICK t, k : t = cur_tx[w] /\ k = op_idx[w]
  OBVIOUS
<1>3. ASSUME cur_tx'[w] = t, NEW H, H = InHand(w)', \A i \in H : Sound(t, i) PROVE OpsSoundOf(w)'
  BY <1>3, SoundConstant DEF OpsSoundOf
<1>4. CASE Starts(w) \/ Leaves(w) \/ Returns(w) \/ Abandons(w) \/ TakesBack(w)
  <2>1. pc'[w] \notin {"op", "charge", "cas", "commit"}
    BY <1>4 DEF Starts, Leaves, Returns, Abandons, GivesUp, TakesBack, Undoes
  <2> QED
    BY <2>1 DEF OpsSoundOf, Active, Working
<1>5. CASE Secures(w)
  <2>1. InHand(w)' = {} /\ cur_tx'[w] = t
    BY <1>2, <1>5, HandStart DEF Secures, Reserves
  <2> QED
    BY <1>3, <2>1
<1>6. CASE Bystands(w) /\ pc'[w] \in Active
  <2>1. /\ InHand(w)' = InHand(w) /\ cur_tx'[w] = t
        /\ pc'[w] = pc[w] \/ (pc[w] \in Working /\ pc'[w] \in Working)
    BY <1>2, <1>6, HandSame DEF Bystands, Refuses, Retries, Refunds, Flushes, Releases, Publishes, Working
  <2>2. pc[w] \in Active
    BY <1>6, <2>1 DEF Active
  <2> QED
    BY <1>2, <1>3, <2>1, <2>2 DEF OpsSoundOf
<1>7. CASE Enters(w) \/ Proceeds(w)
  <2>1. /\ pc[w] \in Working /\ cur_tx'[w] = t /\ t \in TxId
        /\ InHand(w) = 1 .. (IF pc[w] = "op" THEN k - 1 ELSE k) /\ InHand(w)' = 1 .. k
        /\ \A i \in InHand(w) : Sound(t, i)
    BY <1>2, <1>7, HandEnters, HandProceeds DEF Enters, Proceeds, MovesOn, Working, Active, OpsSoundOf
  <2>2. pc[w] = "op" => Sound(t, k)
    <3> SUFFICES ASSUME pc[w] = "op" PROVE Sound(t, k)
      OBVIOUS
    <3>1. /\ k \in 1 .. Len(Tx[t].operations) /\ CurOp(w) = Tx[t].operations[k]
          /\ Len(Tx[t].operations) \in Nat /\ InHand(w) = 1 .. k - 1 /\ CompletedOps(w) = 1 .. k - 1
      BY <1>2, <2>1, TxType DEF TInv, LocInv, Located, CurOp, Cur, InHand, CompletedOps
    <3>2. ASSUME NEW i \in 1 .. k - 1, Tx[t].operations[i].type = "CREATE_ACCOUNT"
          PROVE  Tx[t].operations[i].account \in new_accounts[w]
      <4>1. i \in InHand(w) /\ OpIs(t, i, "CREATE_ACCOUNT")
        BY <3>1, <3>2 DEF OpIs
      <4> QED
        BY <1>2, <2>1, <4>1 DEF IdsExact, CreatedBy
    <3>3. Ledger!Creates(t, k - 1) = new_accounts[w]
      <4>1. Ledger!Creates(t, k - 1) \subseteq new_accounts[w]
        BY <3>2 DEF Ledger!Creates, Ledger!OpsOf
      <4>2. ASSUME NEW a \in new_accounts[w] PROVE a \in Ledger!Creates(t, k - 1)
        <5>1. PICK i \in InHand(w) : OpIs(t, i, "CREATE_ACCOUNT") /\ Tx[t].operations[i].account = a
          BY <1>2, <2>1 DEF IdsExact, CreatedBy, Active
        <5> QED
          BY <3>1, <5>1 DEF Ledger!Creates, Ledger!OpsOf, OpIs
      <4> QED
        BY <4>1, <4>2
    <3>4. CASE Enters(w)
      <4>1. /\ CurOp(w).amount > 0
            /\ \/ /\ CurOp(w).type = "PAYMENT" /\ CurOp(w).account \in Existing \cup new_accounts[w]
               \/ CurOp(w).type = "CREATE_SELL_OFFER"
               \/ /\ CurOp(w).type = "CREATE_ACCOUNT"
                  /\ CurOp(w).account \notin Existing \cup reserved_account_ids
        BY <3>4 DEF Enters
      <4>2. new_accounts[w] \subseteq reserved_account_ids
        BY DEF ResInv, IdsHeld
      <4> QED
        BY <3>1, <3>3, <4>1, <4>2 DEF Sound
    <3>5. CASE Proceeds(w)
      <4>1. CASE CurOp(w).type = "MONEY_PRINTER" /\ CurOp(w).amount >= 0
        BY <3>1, <4>1 DEF Sound
      <4>2. CASE /\ CurOp(w).type = "CANCEL_SELL_OFFER" /\ cancel_key(t, k) \in DOMAIN RestingOffer
                 /\ RestingOffer[cancel_key(t, k)].sellAsset = CurOp(w).asset
        <5>1. cancel_key(t, k) \notin marked_for_deletion
          <6>1. IsCancel(t, k)
            BY <2>1, <3>1, <4>2, TxType DEF IsCancel
          <6> QED
            BY <1>2, <3>5, <6>1 DEF Proceeds, MovesOn
        <5>2. ASSUME NEW i \in 1 .. k - 1, Tx[t].operations[i].type = "CANCEL_SELL_OFFER"
              PROVE  cancel_key(t, i) \in marked_for_deletion
          <6>1. i \in Nat /\ i \in DOMAIN Tx[t].operations /\ i \in CompletedOps(w)
            BY <2>1, <3>1, TxType
          <6>2. HoldsCancel(t, i)
            BY <1>2, <5>2, <6>1 DEF HoldsCancel, IsCancel
          <6> QED
            BY <2>1, <6>1, <6>2 DEF ResInv, MarksHeld
        <5>3. cancel_key(t, k) \notin Ledger!Cancels(t, k - 1)
          BY <5>1, <5>2 DEF Ledger!Cancels, Ledger!OpsOf, cancel_key
        <5> QED
          BY <3>1, <4>2, <5>3 DEF Sound
      <4> QED
        BY <1>2, <3>5, <4>1, <4>2 DEF Proceeds
    <3> QED
      BY <1>7, <3>4, <3>5
  <2>3. ASSUME NEW i \in 1 .. k PROVE Sound(t, i)
    <3>1. i \in InHand(w) \/ (pc[w] = "op" /\ i = k)
      BY <1>1, <1>2, <2>1
    <3> QED
      BY <2>1, <2>2, <3>1
  <2> QED
    BY <1>3, <2>1, <2>3
<1> QED
  BY <1>4, <1>5, <1>6, <1>7 DEF Effect, Bystands, OpsSoundOf

LEMMA OpsSoundStep ==
  ASSUME TInv, ResInv, IdsExact, NEW w \in Worker, Alone(w), Effect(w), OpsSound
  PROVE  OpsSound'
<1>1. ASSUME NEW v \in Worker, v # w PROVE OpsSoundOf(v)'
  <2>1. /\ pc'[v] = pc[v] /\ cur_tx'[v] = cur_tx[v] /\ op_idx'[v] = op_idx[v]
    BY <1>1 DEF Alone
  <2>2. InHand(v)' = InHand(v)
    BY <2>1 DEF InHand, CompletedOps
  <2> QED
    BY <2>1, <2>2, SoundConstant DEF OpsSoundOf, OpsSound, Active, Working
<1>2. OpsSoundOf(w)'
  BY SoundStep DEF OpsSound, OpsSoundOf
<1> QED
  BY <1>1, <1>2 DEF OpsSound, OpsSoundOf
-----------------------------------------------------------------------------
(***************************************************************************)
(* The money in a worker's view.                                           *)
(***************************************************************************)
LEMMA SumsConstant ==
  ASSUME NEW t, NEW k, NEW x
  PROVE  /\ Taken(UpTo(t, k), x)' = Taken(UpTo(t, k), x)
         /\ Given(UpTo(t, k), x)' = Given(UpTo(t, k), x)
<1>1. UpTo(t, k)' = UpTo(t, k)
  BY DEF UpTo
<1>2. \A c : Takes(c, x)' = Takes(c, x) /\ Gives(c, x)' = Gives(c, x)
  BY DEF Takes, Gives, fee_required, cancel_key
<1> QED
  BY <1>1 DEF Taken, Given, Cells, Takes, Gives, fee_required, cancel_key

LEMMA ViewTypes ==
  ASSUME TInv, NEW w \in Worker, NEW x \in Slot
  PROVE  /\ available[x] \in Int /\ available_buffer[w][x] \in Int /\ new_balance[w][x] \in Int
         /\ available_side_effects[w][x] \in Int /\ Net(w, x) \in Int
BY DEF TInv, TypeOK, Net

\* After each part, and so after the last: what was taken and given adds up,
\* and every part could be paid for.
LEMMA ProceedsNet ==
  ASSUME TInv, TInv', NEW w \in Worker, Proceeds(w), Tracked(w), Afforded(w),
         NEW t, t = cur_tx[w], NEW n, n = op_idx[w], \A i \in 1 .. n : Sound(t, i),
         NEW x \in Slot
  PROVE  /\ \A k \in 0 .. n : AddUp(t, k, x)
         /\ Net(w, x)' + Taken(UpTo(t, n), x) = Given(UpTo(t, n), x)
         /\ new_balance'[w][x] # 0 => x[1] \in new_accounts[w]
         /\ \A k \in 0 .. n : Taken(UpTo(t, k), x) + available_side_effects'[w][x]
                              <= Given(UpTo(t, k - 1), x)
<1>1. t \in TxId /\ n \in 0 .. Len(Tx[t].operations) /\ pc[w] \in Working
  BY DEF Proceeds, MovesOn, Cur
<1>2. n \in Nat
  BY <1>1, TxType
<1>3. \A k \in 0 .. n : AddUp(t, k, x)
  BY <1>1, PartsAddUp
<1>4. PICK tk, gv, se, nt, s1, n1, T, G :
        /\ tk = Takes(<<t, n>>, x) /\ gv = Gives(<<t, n>>, x)
        /\ se = available_side_effects[w][x] /\ nt = Net(w, x)
        /\ s1 = available_side_effects'[w][x] /\ n1 = Net(w, x)'
        /\ T = Taken(UpTo(t, n - 1), x) /\ G = Given(UpTo(t, n - 1), x)
  OBVIOUS
<1>5. /\ n1 = nt - tk + gv /\ s1 <= se /\ tk + s1 <= nt
      /\ new_balance'[w][x] = new_balance[w][x] \/ x[1] \in new_accounts[w]
  BY <1>4 DEF Proceeds, Settles
<1>6. /\ nt \in Int /\ se \in Int /\ s1 \in Int
  BY <1>4, ViewTypes DEF TInv, TypeOK
<1>7. nt + T = G /\ (new_balance[w][x] # 0 => x[1] \in new_accounts[w])
  BY <1>1, <1>4 DEF Tracked
<1>8. AddUp(t, n, x)
  BY <1>2, <1>3
<1>9. /\ tk \in Nat /\ gv \in Nat /\ T \in Nat /\ G \in Nat
      /\ Taken(UpTo(t, n), x) = T + tk /\ Given(UpTo(t, n), x) = G + gv
  BY <1>4, <1>8 DEF AddUp
<1>10. n1 + (T + tk) = G + gv
  BY <1>5, <1>6, <1>7, <1>9
<1>11. Net(w, x)' + Taken(UpTo(t, n), x) = Given(UpTo(t, n), x)
  BY <1>4, <1>9, <1>10
<1>12. ASSUME NEW k \in 0 .. n PROVE Taken(UpTo(t, k), x) + s1 <= Given(UpTo(t, k - 1), x)
  <2>1. CASE k = n
    <3>1. (T + tk) + s1 <= G
      BY <1>5, <1>6, <1>7, <1>9
    <3> QED
      BY <1>4, <1>9, <2>1, <3>1
  <2>2. CASE k # n
    <3>1. k \in 0 .. n - 1 /\ AddUp(t, k, x)
      BY <1>2, <1>3, <2>2
    <3>2. Taken(UpTo(t, k), x) + se <= Given(UpTo(t, k - 1), x)
      BY <1>1, <1>4, <3>1 DEF Afforded, Active
    <3>3. Taken(UpTo(t, k), x) \in Nat /\ Given(UpTo(t, k - 1), x) \in Nat
      BY <3>1 DEF AddUp
    <3> QED
      BY <1>5, <1>6, <3>2, <3>3
  <2> QED
    BY <2>1, <2>2
<1> QED
  BY <1>3, <1>4, <1>5, <1>7, <1>11, <1>12

LEMMA ViewOwn ==
  ASSUME TInv, TInv', EmptyView, NEW w \in Worker, Alone(w), Effect(w), Tracked(w), Afforded(w),
         OpsSoundOf(w)'
  PROVE  Tracked(w)' /\ Afforded(w)'
<1>1. op_idx[w] \in Int
  BY DEF TInv, TypeOK
<1>2. PICK t, n : t = cur_tx[w] /\ n = op_idx[w]
  OBVIOUS
<1>3. ASSUME NEW m, cur_tx'[w] = t, op_idx'[w] = m, pc'[w] \notin {"idle", "reserve"},
             pc'[w] \in Working => \A x \in Slot :
               /\ Net(w, x)' + Taken(UpTo(t, m - 1), x) = Given(UpTo(t, m - 1), x)
               /\ new_balance'[w][x] # 0 => x[1] \in new_accounts'[w],
             pc'[w] \in Active => \A x \in Slot : \A k \in 0 .. m - 1 :
               Taken(UpTo(t, k), x) + available_side_effects'[w][x] <= Given(UpTo(t, k - 1), x)
      PROVE  Tracked(w)' /\ Afforded(w)'
  <2>1. \A y, z \in {pc'[w]} : y \in Working' <=> z \in Working
    BY DEF Working
  <2>2. pc'[w] \in Active' <=> pc'[w] \in Active
    BY DEF Active, Working
  <2>3. /\ pc'[w] \in Working => \A x \in Slot :
             /\ Net(w, x)' + Taken(UpTo(cur_tx'[w], op_idx'[w] - 1), x)
                = Given(UpTo(cur_tx'[w], op_idx'[w] - 1), x)
             /\ new_balance'[w][x] # 0 => x[1] \in new_accounts'[w]
        /\ pc'[w] \in Active => \A x \in Slot : \A k \in 0 .. op_idx'[w] - 1 :
             Taken(UpTo(cur_tx'[w], k), x) + available_side_effects'[w][x]
               <= Given(UpTo(cur_tx'[w], k - 1), x)
    BY <1>3
  <2>4. Slot' = Slot
    BY DEF Slot
  <2>5. Tracked(w)'
    BY <1>3, <2>1, <2>3, <2>4, SumsConstant DEF Tracked
  <2>6. Afforded(w)'
    BY <2>2, <2>3, <2>4, SumsConstant DEF Afforded
  <2> QED
    BY <2>5, <2>6
<1>4. CASE Starts(w) \/ Leaves(w) \/ Returns(w)
  <2>1. pc'[w] \in {"idle", "reserve"} /\ new_balance'[w] = NoAmounts
    BY <1>4 DEF Starts, Leaves, Returns, Tracked, view
  <2> QED
    BY <2>1 DEF Tracked, Afforded, Working, Active, NoAmounts, Slot
<1>5. CASE Abandons(w) \/ TakesBack(w) \/ Refunds(w) \/ Releases(w)
  <2>1. pc'[w] \in {"unwind", "unwind_ops"}
    BY <1>5 DEF Abandons, GivesUp, TakesBack, Undoes, Refunds, Releases
  <2> QED
    BY <2>1 DEF Tracked, Afforded, Working, Active
<1>6. CASE Refuses(w)
  <2>1. UNCHANGED <<view, pc, cur_tx, op_idx>>
    BY <1>6 DEF Refuses
  <2>2. \A x \in Slot : Net(w, x)' = Net(w, x)
    BY <2>1 DEF Net, view
  <2>3. CASE pc[w] \in {"idle", "reserve"}
    BY <2>1, <2>3 DEF Tracked, Afforded, Working, Active, view, NoAmounts, Slot
  <2>4. CASE pc[w] \notin {"idle", "reserve"}
    <3>1. /\ pc'[w] \in Working => \A x \in Slot :
               /\ Net(w, x)' + Taken(UpTo(t, n - 1), x) = Given(UpTo(t, n - 1), x)
               /\ new_balance'[w][x] # 0 => x[1] \in new_accounts'[w]
          /\ pc'[w] \in Active => \A x \in Slot : \A k \in 0 .. n - 1 :
               Taken(UpTo(t, k), x) + available_side_effects'[w][x] <= Given(UpTo(t, k - 1), x)
      BY <1>2, <2>1, <2>2 DEF Tracked, Afforded, view
    <3> QED
      BY <1>2, <1>3, <2>1, <2>4, <3>1
  <2> QED
    BY <2>3, <2>4
<1>7. CASE Retries(w) \/ Enters(w)
  <2>1. /\ UNCHANGED <<available_buffer, available_side_effects, new_balance, cur_tx, op_idx>>
        /\ pc[w] \in Working /\ pc'[w] \in Working /\ new_accounts[w] \subseteq new_accounts'[w]
    BY <1>7 DEF Retries, Enters, view, Working
  <2>2. \A x \in Slot : Net(w, x)' = Net(w, x)
    BY <2>1 DEF Net
  <2>3. /\ \A x \in Slot :
             /\ Net(w, x)' + Taken(UpTo(t, n - 1), x) = Given(UpTo(t, n - 1), x)
             /\ new_balance'[w][x] # 0 => x[1] \in new_accounts'[w]
        /\ \A x \in Slot : \A k \in 0 .. n - 1 :
             Taken(UpTo(t, k), x) + available_side_effects'[w][x] <= Given(UpTo(t, k - 1), x)
    BY <1>2, <2>1, <2>2 DEF Tracked, Afforded, Active
  <2>4. pc'[w] \notin {"idle", "reserve"} /\ cur_tx'[w] = t /\ op_idx'[w] = n
    BY <1>2, <2>1 DEF Working
  <2> QED
    BY <1>3, <2>3, <2>4
<1>8. CASE Flushes(w) \/ Publishes(w)
  <2>1. /\ UNCHANGED <<available_side_effects, cur_tx, op_idx, pc>> /\ pc[w] = "commit"
    BY <1>8 DEF Flushes, Publishes
  <2>2. \A x \in Slot : \A k \in 0 .. n - 1 :
          Taken(UpTo(t, k), x) + available_side_effects'[w][x] <= Given(UpTo(t, k - 1), x)
    BY <1>2, <2>1 DEF Afforded, Active
  <2>3. pc'[w] \notin {"idle", "reserve"} /\ cur_tx'[w] = t /\ op_idx'[w] = n /\ pc'[w] \notin Working
    BY <1>2, <2>1 DEF Working
  <2> QED
    BY <1>3, <2>2, <2>3
<1>9. CASE Secures(w)
  <2>1. /\ pc[w] = "reserve" /\ pc'[w] = "charge" /\ cur_tx'[w] = t /\ op_idx'[w] = 0
        /\ UNCHANGED view
    BY <1>2, <1>9 DEF Secures, Reserves
  <2>2. ASSUME NEW x \in Slot PROVE Net(w, x)' = 0 /\ new_balance'[w][x] = 0
    <3>1. /\ available_buffer'[w] = NoAmounts /\ available_side_effects'[w] = NoAmounts
          /\ new_balance'[w] = NoAmounts
      BY <2>1 DEF EmptyView, Tracked, view
    <3>2. NoAmounts[x] = 0
      BY DEF NoAmounts
    <3> QED
      BY <3>1, <3>2 DEF Net
  <2>3. \A x \in Slot : /\ Net(w, x)' + Taken(UpTo(t, 0 - 1), x) = Given(UpTo(t, 0 - 1), x)
                        /\ new_balance'[w][x] # 0 => x[1] \in new_accounts'[w]
    <3>1. 0 - 1 = -1
      OBVIOUS
    <3> QED
      BY <2>2, <3>1, NoParts
  <2>4. \A k \in 0 .. 0 - 1 : FALSE
    OBVIOUS
  <2> QED
    BY <1>3, <2>1, <2>3, <2>4
<1>10. CASE Proceeds(w)
  <2>1. /\ cur_tx'[w] = t /\ op_idx'[w] = n + 1 /\ pc'[w] \in {"op", "commit"}
        /\ InHand(w)' = 1 .. n /\ new_accounts' = new_accounts /\ n \in Int
    BY <1>1, <1>2, <1>10, HandProceeds DEF Proceeds, MovesOn
  <2>2. \A i \in 1 .. n : Sound(t, i)
    BY <2>1, SoundConstant DEF OpsSoundOf, Active, Working
  <2>3. \A x \in Slot :
          /\ Net(w, x)' + Taken(UpTo(t, n), x) = Given(UpTo(t, n), x)
          /\ new_balance'[w][x] # 0 => x[1] \in new_accounts[w]
          /\ \A k \in 0 .. n : Taken(UpTo(t, k), x) + available_side_effects'[w][x]
                               <= Given(UpTo(t, k - 1), x)
    BY <1>2, <1>10, <2>2, ProceedsNet
  <2>4. (n + 1) - 1 = n
    BY <2>1
  <2>5. pc'[w] \notin {"idle", "reserve"}
    BY <2>1
  <2>6. PICK m : m = n + 1
    OBVIOUS
  <2>7. /\ \A x \in Slot : /\ Net(w, x)' + Taken(UpTo(t, m - 1), x) = Given(UpTo(t, m - 1), x)
                           /\ new_balance'[w][x] # 0 => x[1] \in new_accounts'[w]
        /\ \A x \in Slot : \A k \in 0 .. m - 1 :
             Taken(UpTo(t, k), x) + available_side_effects'[w][x] <= Given(UpTo(t, k - 1), x)
    BY <2>1, <2>3, <2>4, <2>6
  <2> QED
    BY <1>3, <2>1, <2>5, <2>6, <2>7
<1> QED
  BY <1>4, <1>5, <1>6, <1>7, <1>8, <1>9, <1>10 DEF Effect

LEMMA ViewOthers ==
  ASSUME NEW w \in Worker, Alone(w), NEW v \in Worker, v # w, Tracked(v), Afforded(v)
  PROVE  Tracked(v)' /\ Afforded(v)'
<1>1. /\ pc'[v] = pc[v] /\ cur_tx'[v] = cur_tx[v] /\ op_idx'[v] = op_idx[v]
      /\ available_buffer'[v] = available_buffer[v]
      /\ available_side_effects'[v] = available_side_effects[v]
      /\ new_accounts'[v] = new_accounts[v] /\ new_balance'[v] = new_balance[v]
  BY DEF Alone
<1>2. \A x : Net(v, x)' = Net(v, x)
  BY <1>1 DEF Net
<1>3. Working' = Working /\ Active' = Active /\ Slot' = Slot /\ NoAmounts' = NoAmounts
  BY DEF Working, Active, Slot, NoAmounts
<1>4. PICK t, n : t = cur_tx[v] /\ n = op_idx[v]
  OBVIOUS
<1>5. /\ pc'[v] \in Working => \A x \in Slot :
           /\ Net(v, x)' + Taken(UpTo(t, n - 1), x) = Given(UpTo(t, n - 1), x)
           /\ new_balance'[v][x] # 0 => x[1] \in new_accounts'[v]
      /\ pc'[v] \in Active => \A x \in Slot : \A k \in 0 .. n - 1 :
           Taken(UpTo(t, k), x) + available_side_effects'[v][x] <= Given(UpTo(t, k - 1), x)
      /\ pc'[v] \in {"idle", "reserve"} => new_balance'[v] = NoAmounts
  BY <1>1, <1>2, <1>4 DEF Tracked, Afforded
<1>6. cur_tx'[v] = t /\ op_idx'[v] = n
  BY <1>1, <1>4
<1>7. Tracked(v)'
  BY <1>3, <1>5, <1>6, SumsConstant DEF Tracked
<1>8. Afforded(v)'
  BY <1>3, <1>5, <1>6, SumsConstant DEF Afforded
<1> QED
  BY <1>7, <1>8
-----------------------------------------------------------------------------
(***************************************************************************)
(* The money of the ledger: a step moves it between the shared balance,    *)
(* the views and the new accounts, and only a transaction that takes       *)
(* effect changes how much there is.                                       *)
(***************************************************************************)
LEMMA PendingType ==
  ASSUME TInv, NoOverdraft, NEW w \in Worker, NEW x \in Slot
  PROVE  Pending(w, x) \in Nat
<1>1. PICK b, s, n : /\ b = available_buffer[w][x] /\ s = available_side_effects[w][x]
                     /\ n = new_balance[w][x]
  OBVIOUS
<1>2. b \in Int /\ s \in Int /\ n \in Int
  BY <1>1, ViewTypes
<1>3. b >= 0 /\ s <= 0 /\ n >= 0
  BY <1>1 DEF NoOverdraft
<1> QED
  BY <1>1, <1>2, <1>3 DEF Pending

LEMMA PendingStep ==
  ASSUME TInv, NoOverdraft, TInv', NoOverdraft', NEW w \in Worker, Alone(w), NEW x \in Slot,
         IsFiniteSet(Cells(PendingUnits(x)))
  PROVE  /\ Pending(w, x) \in Nat /\ Pending(w, x)' \in Nat
         /\ IsFiniteSet(Cells(PendingUnits(x)'))
         /\ Cardinality(Cells(PendingUnits(x))) \in Nat
         /\ Cardinality(Cells(PendingUnits(x)'))
            = Cardinality(Cells(PendingUnits(x))) - Pending(w, x) + Pending(w, x)'
<1>1. PICK f, g, p, q : /\ f = PendingUnits(x) /\ g = PendingUnits(x)'
                        /\ p = Pending(w, x) /\ q = Pending(w, x)'
  OBVIOUS
<1>2. p \in Nat
  BY <1>1, PendingType
<1>3. q \in Nat
  <2>1. PICK b, s, n : /\ b = available_buffer'[w][x] /\ s = available_side_effects'[w][x]
                       /\ n = new_balance'[w][x]
    OBVIOUS
  <2>2. b \in Int /\ s \in Int /\ n \in Int
    BY <2>1 DEF TInv, TypeOK, Slot
  <2>3. b >= 0 /\ s <= 0 /\ n >= 0
    BY <2>1 DEF NoOverdraft, Slot
  <2> QED
    BY <1>1, <2>1, <2>2, <2>3 DEF Pending, Committing
<1>4. ASSUME NEW v \in Worker, v # w PROVE Pending(v, x)' = Pending(v, x)
  BY <1>4 DEF Pending, Committing, Alone
<1>5. /\ DOMAIN f = Worker /\ DOMAIN g = DOMAIN f /\ w \in DOMAIN f
      /\ f[w] = 1 .. p /\ g[w] = 1 .. q
  BY <1>1 DEF PendingUnits
<1>6. \A v \in DOMAIN f : v # w => g[v] = f[v]
  BY <1>1, <1>4, <1>5 DEF PendingUnits
<1>7. /\ IsFiniteSet(f[w]) /\ Cardinality(f[w]) = p /\ IsFiniteSet(g[w]) /\ Cardinality(g[w]) = q
  BY <1>2, <1>3, <1>5, SizeUpTo
<1>8. IsFiniteSet(Cells(f))
  BY <1>1
<1>9. /\ IsFiniteSet(Cells(g))
      /\ Cardinality(Cells(g)) = Cardinality(Cells(f)) - Cardinality(f[w]) + Cardinality(g[w])
  BY <1>5, <1>6, <1>7, <1>8, CellsUpdate
<1>10. Cardinality(Cells(f)) \in Nat
  BY <1>8, FS_CardinalityType
<1> QED
  BY <1>1, <1>2, <1>3, <1>7, <1>9, <1>10

\* Publishing an account moves its balance from the view to uncommitted_db.
LEMMA NewUnitsStep ==
  ASSUME TInv, IdsHeld, NEW w \in Worker, NEW a \in new_accounts[w], NEW t, NEW x \in Slot,
         NoOverdraft, IsFiniteSet(Cells(NewUnits(x))),
         uncommitted_db' = uncommitted_db \cup {NewEntry(a, t, new_balance[w])}
  PROVE  /\ IsFiniteSet(Cells(NewUnits(x)'))
         /\ Cardinality(Cells(NewUnits(x)'))
            = Cardinality(Cells(NewUnits(x))) + (IF x[1] = a THEN new_balance[w][x] ELSE 0)
<1>1. PICK e, m, f, g, h : /\ e = NewEntry(a, t, new_balance[w])
                           /\ m = (IF x[1] = a THEN new_balance[w][x] ELSE 0)
                           /\ f = NewUnits(x) /\ g = [d \in {e} |-> 1 .. m] /\ h = NewUnits(x)'
  OBVIOUS
<1>2. x = <<x[1], x[2]>> /\ x[2] \in Asset
  BY DEF Slot
<1>3. e.id = a /\ (x[1] = a => e.balance[x[2]] = new_balance[w][x])
  BY <1>1, <1>2 DEF NewEntry
<1>4. e \notin uncommitted_db
  BY <1>3 DEF IdsHeld
<1>5. m \in Nat
  <2>1. new_balance[w][x] \in Int /\ new_balance[w][x] >= 0
    BY ViewTypes DEF NoOverdraft
  <2> QED
    BY <1>1, <2>1
<1>6. /\ DOMAIN f = uncommitted_db /\ DOMAIN g = {e} /\ DOMAIN h = uncommitted_db \cup {e}
      /\ DOMAIN h = DOMAIN f \cup DOMAIN g /\ DOMAIN f \cap DOMAIN g = {}
  BY <1>1, <1>4 DEF NewUnits
<1>7. \A c \in DOMAIN f : h[c] = f[c]
  BY <1>1, <1>6 DEF NewUnits
<1>8. h[e] = 1 .. m
  BY <1>1, <1>3, <1>6 DEF NewUnits
<1>9. \A c \in DOMAIN g : h[c] = g[c]
  BY <1>1, <1>6, <1>8
<1>10. IsFiniteSet(Cells(g)) /\ Cardinality(Cells(g)) = m
  BY <1>1, <1>5, CellsOne
<1>11. IsFiniteSet(Cells(f))
  BY <1>1
<1>12. IsFiniteSet(Cells(h)) /\ Cardinality(Cells(h)) = Cardinality(Cells(f)) + Cardinality(Cells(g))
  BY <1>6, <1>7, <1>9, <1>10, <1>11, CellsJoined
<1> QED
  BY <1>1, <1>10, <1>12

\* A worker whose transaction has no effect yet, or none any more.
LEMMA PendingKept ==
  ASSUME TInv, TInv', EmptyView, NEW w \in Worker, Effect(w), pc[w] # "commit", pc'[w] # "commit",
         NEW x \in Slot
  PROVE  /\ available'[x] + Pending(w, x)' = available[x] + Pending(w, x)
         /\ uncommitted_db' = uncommitted_db
<1>1. /\ Pending(w, x) = 0 - available_side_effects[w][x]
      /\ Pending(w, x)' = 0 - available_side_effects'[w][x]
  BY DEF Pending, Committing
<1>2. Keeps(w, x) /\ uncommitted_db' = uncommitted_db
  <2>1. CASE Proceeds(w) \/ Abandons(w) \/ Refunds(w)
    BY <2>1 DEF Proceeds, Abandons, Refunds, reservations
  <2>2. CASE Leaves(w)
    BY <2>2 DEF Leaves, Keeps
  <2>3. CASE ~Proceeds(w) /\ ~Abandons(w) /\ ~Refunds(w) /\ ~Leaves(w)
    <3>1. available' = available /\ available_side_effects' = available_side_effects
          /\ uncommitted_db' = uncommitted_db
      BY <2>3 DEF Effect, Starts, Refuses, Secures, Retries, Enters, TakesBack, Releases, Flushes,
           Publishes, Returns, view, reservations
    <3> QED
      BY <3>1 DEF Keeps
  <2> QED
    BY <2>1, <2>2, <2>3
<1>3. PICK a, a1, s, s1 : /\ a = available[x] /\ a1 = available'[x]
                          /\ s = available_side_effects[w][x] /\ s1 = available_side_effects'[w][x]
  OBVIOUS
<1>4. a \in Int /\ a1 \in Int /\ s \in Int /\ s1 \in Int
  BY <1>3 DEF TInv, TypeOK, Slot
<1>5. a1 - s1 = a - s
  BY <1>2, <1>3 DEF Keeps
<1>6. a1 + (0 - s1) = a + (0 - s)
  BY <1>4, <1>5
<1> QED
  BY <1>1, <1>2, <1>3, <1>6

LEMMA PendingEnters ==
  ASSUME TInv, TInv', NEW w \in Worker, Proceeds(w), pc'[w] = "commit",
         Tracked(w), Afforded(w), NEW t, t = cur_tx[w], NEW n, n = op_idx[w],
         \A i \in 1 .. n : Sound(t, i), NEW x \in Slot
  PROVE  /\ available'[x] + Pending(w, x)' + Taken(UpTo(t, n), x)
            = available[x] + Pending(w, x) + Given(UpTo(t, n), x)
         /\ AddUp(t, n, x)
<1>1. /\ \A k \in 0 .. n : AddUp(t, k, x)
      /\ Net(w, x)' + Taken(UpTo(t, n), x) = Given(UpTo(t, n), x)
      /\ new_balance'[w][x] # 0 => x[1] \in new_accounts[w]
  BY ProceedsNet
<1>2. n \in Nat
  BY TxType DEF Proceeds, MovesOn, Cur
<1>3. AddUp(t, n, x)
  BY <1>1, <1>2
<1>4. PICK a, a1, s, s1, b1, m1, T, G, q :
        /\ a = available[x] /\ a1 = available'[x]
        /\ s = available_side_effects[w][x] /\ s1 = available_side_effects'[w][x]
        /\ b1 = available_buffer'[w][x] /\ m1 = new_balance'[w][x]
        /\ T = Taken(UpTo(t, n), x) /\ G = Given(UpTo(t, n), x)
        /\ q = (IF x[1] \in new_accounts[w] THEN m1 ELSE 0)
  OBVIOUS
<1>5. a \in Int /\ a1 \in Int /\ s \in Int /\ s1 \in Int /\ b1 \in Int /\ m1 \in Int
  BY <1>4 DEF TInv, TypeOK, Slot
<1>6. T \in Nat /\ G \in Nat
  BY <1>3, <1>4 DEF AddUp
<1>7. a1 - s1 = a - s /\ pc[w] # "commit" /\ new_accounts' = new_accounts
  BY <1>4 DEF Proceeds, MovesOn, Keeps, Working
<1>8. (b1 + m1 + s1) + T = G
  BY <1>1, <1>4 DEF Net
<1>9. q = m1
  BY <1>1, <1>4
<1>10. Pending(w, x) = 0 - s /\ Pending(w, x)' = b1 + q
  BY <1>4, <1>7 DEF Pending, Committing
<1>11. (a1 + (b1 + m1)) + T = (a + (0 - s)) + G
  BY <1>5, <1>6, <1>7, <1>8
<1> QED
  BY <1>3, <1>4, <1>9, <1>10, <1>11

LEMMA PendingFlushed ==
  ASSUME TInv, TInv', NoOverdraft, NEW w \in Worker, Flushes(w) \/ Returns(w) \/ (Refuses(w) /\ pc[w] = "commit"),
         NEW x \in Slot
  PROVE  /\ available'[x] + Pending(w, x)' = available[x] + Pending(w, x)
         /\ uncommitted_db' = uncommitted_db
<1>1. CASE Flushes(w)
  <2>1. /\ available'[x] + available_buffer'[w][x] = available[x] + available_buffer[w][x]
        /\ pc' = pc /\ new_accounts' = new_accounts /\ new_balance' = new_balance /\ pc[w] = "commit"
        /\ uncommitted_db' = uncommitted_db
    BY <1>1 DEF Flushes, reservations
  <2>2. PICK a, a1, b, b1, q :
          /\ a = available[x] /\ a1 = available'[x] /\ b = available_buffer[w][x]
          /\ b1 = available_buffer'[w][x]
          /\ q = (IF x[1] \in new_accounts[w] THEN new_balance[w][x] ELSE 0)
    OBVIOUS
  <2>3. a \in Int /\ a1 \in Int /\ b \in Int /\ b1 \in Int /\ q \in Int
    BY <2>2 DEF TInv, TypeOK, Slot
  <2>4. Pending(w, x) = b + q /\ Pending(w, x)' = b1 + q
    BY <2>1, <2>2 DEF Pending, Committing
  <2>5. a1 + (b1 + q) = a + (b + q)
    BY <2>1, <2>2, <2>3
  <2> QED
    BY <2>1, <2>2, <2>4, <2>5
<1>2. CASE Returns(w)
  <2>1. /\ pc[w] = "commit" /\ pc'[w] = "idle" /\ available_buffer[w] = NoAmounts
        /\ new_accounts[w] = {} /\ available_side_effects'[w] = NoAmounts
        /\ available' = available /\ uncommitted_db' = uncommitted_db
    BY <1>2 DEF Returns, reservations
  <2>2. NoAmounts[x] = 0
    BY DEF NoAmounts
  <2>3. Pending(w, x) = 0
    BY <2>1, <2>2 DEF Pending, Committing
  <2>4. Pending(w, x)' = 0
    BY <2>1, <2>2 DEF Pending, Committing
  <2> QED
    BY <2>1, <2>3, <2>4
<1>3. CASE Refuses(w)
  <2>1. Pending(w, x)' = Pending(w, x)
    BY <1>3 DEF Refuses, Pending, Committing, view
  <2> QED
    BY <1>3, <2>1 DEF Refuses, reservations
<1> QED
  BY <1>1, <1>2, <1>3

LEMMA MoneyStep ==
  ASSUME TInv, NoOverdraft, TInv', NoOverdraft', IdsHeld, EmptyView,
         NEW w \in Worker, Alone(w), Effect(w), Tracked(w), Afforded(w), OpsSoundOf(w)',
         NEW x \in Slot, IsFiniteSet(Cells(PendingUnits(x))), IsFiniteSet(Cells(NewUnits(x))),
         NEW t, t = cur_tx[w], NEW n, n = op_idx[w]
  PROVE  /\ IsFiniteSet(Cells(PendingUnits(x)')) /\ IsFiniteSet(Cells(NewUnits(x)'))
         /\ LedgerBalance[x] \in Int /\ LedgerBalance'[x] \in Int
         /\ pc[w] = "commit" \/ pc'[w] # "commit" => LedgerBalance'[x] = LedgerBalance[x]
         /\ pc[w] # "commit" /\ pc'[w] = "commit" =>
              /\ LedgerBalance'[x] + Taken(UpTo(t, n), x) = LedgerBalance[x] + Given(UpTo(t, n), x)
              /\ AddUp(t, n, x)
<1>1. PICK a, a1, p, p1, c, c1, d, d1, T, G :
        /\ a = available[x] /\ a1 = available'[x] /\ p = Pending(w, x) /\ p1 = Pending(w, x)'
        /\ c = Cardinality(Cells(PendingUnits(x))) /\ c1 = Cardinality(Cells(PendingUnits(x)'))
        /\ d = Cardinality(Cells(NewUnits(x))) /\ d1 = Cardinality(Cells(NewUnits(x)'))
        /\ T = Taken(UpTo(t, n), x) /\ G = Given(UpTo(t, n), x)
  OBVIOUS
<1>2. /\ p \in Nat /\ p1 \in Nat /\ c \in Nat /\ c1 = c - p + p1
      /\ IsFiniteSet(Cells(PendingUnits(x)'))
  BY <1>1, PendingStep
<1>3. a \in Int /\ a1 \in Int /\ d \in Nat
  BY <1>1, FS_CardinalityType DEF TInv, TypeOK, Slot
<1>4. LedgerBalance[x] = a + c + d /\ LedgerBalance'[x] = a1 + c1 + d1
  BY <1>1 DEF LedgerBalance, Slot, Cells
<1>5. CASE Publishes(w)
  <2>1. PICK z \in new_accounts[w] :
          /\ uncommitted_db' = uncommitted_db \cup {NewEntry(z, cur_tx[w], new_balance[w])}
          /\ new_accounts'[w] = new_accounts[w] \ {z}
    BY <1>5 DEF Publishes
  <2>2. PICK m : m = (IF x[1] = z THEN new_balance[w][x] ELSE 0)
    OBVIOUS
  <2>3. IsFiniteSet(Cells(NewUnits(x)')) /\ d1 = d + m
    BY <1>1, <2>1, <2>2, NewUnitsStep
  <2>4. /\ pc[w] = "commit" /\ pc' = pc /\ available_buffer' = available_buffer
        /\ new_balance' = new_balance /\ available' = available
    BY <1>5 DEF Publishes
  <2>5. PICK b, s : b = available_buffer[w][x] /\ s = new_balance[w][x]
    OBVIOUS
  <2>6. b \in Int /\ s \in Int
    BY <2>5, ViewTypes
  <2>7. p = b + (IF x[1] \in new_accounts[w] THEN s ELSE 0)
    BY <1>1, <2>4, <2>5 DEF Pending, Committing
  <2>8. p1 = b + (IF x[1] \in new_accounts[w] \ {z} THEN s ELSE 0)
    BY <1>1, <2>1, <2>4, <2>5 DEF Pending, Committing
  <2>9. p = p1 + m /\ m \in Int
    BY <2>1, <2>2, <2>5, <2>6, <2>7, <2>8
  <2>10. a1 = a
    BY <1>1, <2>4
  <2>11. a1 + c1 + d1 = a + c + d
    BY <1>2, <1>3, <2>3, <2>9, <2>10
  <2>12. a + c + d \in Int
    BY <1>2, <1>3
  <2> QED
    BY <1>2, <1>4, <2>3, <2>4, <2>11, <2>12
<1>6. CASE ~Publishes(w)
  <2>1. /\ uncommitted_db' = uncommitted_db
        /\ pc[w] = "commit" \/ pc'[w] # "commit" => a1 + p1 = a + p
        /\ pc[w] # "commit" /\ pc'[w] = "commit" =>
             (a1 + p1) + T = (a + p) + G /\ AddUp(t, n, x) /\ T \in Nat /\ G \in Nat
    <3>1. CASE pc[w] # "commit" /\ pc'[w] # "commit"
      BY <1>1, <3>1, PendingKept
    <3>2. CASE pc[w] = "commit"
      <4>1. Flushes(w) \/ Returns(w) \/ Refuses(w)
        BY <1>6, <3>2 DEF Effect, Starts, Leaves, Secures, Reserves, Retries, Enters, Proceeds, MovesOn,
             Abandons, GivesUp, TakesBack, Undoes, Refunds, Releases, Working
      <4> QED
        BY <1>1, <3>2, <4>1, PendingFlushed
    <3>3. CASE pc[w] # "commit" /\ pc'[w] = "commit"
      <4>1. Proceeds(w)
        BY <3>3 DEF Effect, Starts, Leaves, Refuses, Secures, Reserves, Retries, Enters, Returns, Flushes,
             Publishes, Abandons, GivesUp, TakesBack, Undoes, Refunds, Releases, Working
      <4>2. \A i \in 1 .. n : Sound(t, i)
        <5>1. InHand(w)' = 1 .. n /\ cur_tx'[w] = t
          BY <4>1, HandProceeds DEF Proceeds, MovesOn
        <5> QED
          BY <3>3, <5>1, SoundConstant DEF OpsSoundOf, Active
      <4>3. (a1 + p1) + T = (a + p) + G /\ AddUp(t, n, x)
        BY <1>1, <3>3, <4>1, <4>2, PendingEnters
      <4>4. T \in Nat /\ G \in Nat
        BY <1>1, <4>3 DEF AddUp
      <4>5. uncommitted_db' = uncommitted_db
        BY <4>1 DEF Proceeds
      <4> QED
        BY <3>3, <4>3, <4>4, <4>5
    <3> QED
      BY <3>1, <3>2, <3>3
  <2>2. NewUnits(x)' = NewUnits(x)
    BY <2>1 DEF NewUnits
  <2>3. d1 = d
    BY <1>1, <2>2
  <2>4. a + c + d \in Int /\ a1 + c1 + d1 \in Int
    BY <1>2, <1>3, <2>3
  <2>5. pc[w] = "commit" \/ pc'[w] # "commit" => a1 + c1 + d1 = a + c + d
    BY <1>2, <1>3, <2>1, <2>3
  <2>6. pc[w] # "commit" /\ pc'[w] = "commit" => (a1 + c1 + d1) + T = (a + c + d) + G
    <3> SUFFICES ASSUME pc[w] # "commit", pc'[w] = "commit"
                 PROVE  (a1 + c1 + d1) + T = (a + c + d) + G
      OBVIOUS
    <3>1. (a1 + p1) + T = (a + p) + G /\ T \in Nat /\ G \in Nat
      BY <2>1
    <3> QED
      BY <1>2, <1>3, <2>3, <3>1
  <2> QED
    BY <1>1, <1>2, <1>4, <2>1, <2>2, <2>4, <2>5, <2>6
<1> QED
  BY <1>5, <1>6

\* What the effective transactions take and give, before and after a step.
LEMMA PartsPrimed ==
  ASSUME NEW E, E = Effective', NEW x
  PROVE  /\ Taken(PartsOf(Effective), x)' = Taken(PartsOf(E), x)
         /\ Given(PartsOf(Effective), x)' = Given(PartsOf(E), x)
         /\ FiniteParts(PartsOf(Effective), x)' <=> FiniteParts(PartsOf(E), x)
<1>1. PartsOf(Effective)' = PartsOf(E)
  BY DEF PartsOf, Parts
<1>2. PICK P : P = PartsOf(E)
  OBVIOUS
<1>3. /\ [c \in PartsOf(Effective) |-> 1 .. Takes(c, x)]' = [c \in P |-> 1 .. Takes(c, x)]
      /\ [c \in PartsOf(Effective) |-> 1 .. Gives(c, x)]' = [c \in P |-> 1 .. Gives(c, x)]
  BY <1>1, <1>2 DEF Takes, Gives, fee_required, cancel_key
<1> QED
  BY <1>2, <1>3 DEF Taken, Given, FiniteParts, TakenCells, GivenCells, Cells

LEMMA OnePart ==
  ASSUME NEW t, NEW E, t \notin E
  PROVE  /\ PartsOf(E \cup {t}) = PartsOf(E) \cup UpTo(t, Len(Tx[t].operations))
         /\ PartsOf(E) \cap UpTo(t, Len(Tx[t].operations)) = {}
<1>1. Parts(t) = UpTo(t, Len(Tx[t].operations))
  BY DEF Parts, UpTo
<1>2. \A c : c \in PartsOf(E) <=> \E u \in E : c \in Parts(u)
  BY DEF PartsOf
<1>3. \A c : c \in PartsOf(E \cup {t}) <=> \E u \in E \cup {t} : c \in Parts(u)
  BY DEF PartsOf
<1>4. \A u : \A c \in Parts(u) : c[1] = u
  BY DEF Parts
<1>5. PartsOf(E \cup {t}) = PartsOf(E) \cup Parts(t)
  BY <1>2, <1>3
<1>6. ASSUME NEW c, c \in PartsOf(E), c \in Parts(t) PROVE FALSE
  BY <1>2, <1>4, <1>6
<1> QED
  BY <1>1, <1>5, <1>6

LEMMA BalancedStep ==
  ASSUME TInv, NoOverdraft, TInv', NoOverdraft', OneRunner, IdsHeld, EmptyView,
         NEW w \in Worker, Alone(w), Effect(w), Tracked(w), Afforded(w), OpsSoundOf(w)', Balanced
  PROVE  Balanced'
<1>1. PICK E, D, t, n : E = Effective' /\ D = Effective /\ t = cur_tx[w] /\ n = op_idx[w]
  OBVIOUS
<1>2. ASSUME NEW x \in Slot
      PROVE  /\ IsFiniteSet(Cells(PendingUnits(x)')) /\ IsFiniteSet(Cells(NewUnits(x)'))
             /\ FiniteParts(PartsOf(E), x)
             /\ LedgerBalance'[x] + Taken(PartsOf(E), x) = InitAvailable[x] + Given(PartsOf(E), x)
  <2>1. /\ IsFiniteSet(Cells(PendingUnits(x))) /\ IsFiniteSet(Cells(NewUnits(x)))
        /\ FiniteParts(PartsOf(D), x)
        /\ LedgerBalance[x] + Taken(PartsOf(D), x) = InitAvailable[x] + Given(PartsOf(D), x)
    BY <1>1 DEF Balanced, Finite, FiniteParts, TakenCells, GivenCells
  <2>2. /\ IsFiniteSet(Cells(PendingUnits(x)')) /\ IsFiniteSet(Cells(NewUnits(x)'))
        /\ LedgerBalance[x] \in Int /\ LedgerBalance'[x] \in Int
        /\ pc[w] = "commit" \/ pc'[w] # "commit" => LedgerBalance'[x] = LedgerBalance[x]
        /\ pc[w] # "commit" /\ pc'[w] = "commit" =>
             /\ LedgerBalance'[x] + Taken(UpTo(t, n), x) = LedgerBalance[x] + Given(UpTo(t, n), x)
             /\ AddUp(t, n, x)
    BY <1>1, <2>1, MoneyStep
  <2>3. CASE pc[w] = "commit" \/ pc'[w] # "commit"
    <3>1. E = D
      BY <1>1, <2>3, EffectiveStep
    <3> QED
      BY <2>1, <2>2, <2>3, <3>1
  <2>4. CASE pc[w] # "commit" /\ pc'[w] = "commit"
    <3>1. Proceeds(w) /\ t \notin D /\ E = D \cup {t}
      BY <1>1, <2>4, EffectiveStep
    <3>2. n = Len(Tx[t].operations)
      BY <1>1, <2>4, <3>1 DEF Proceeds, MovesOn, Cur
    <3>3. /\ PartsOf(E) = PartsOf(D) \cup UpTo(t, n) /\ PartsOf(D) \cap UpTo(t, n) = {}
      BY <3>1, <3>2, OnePart
    <3>4. PICK P, Q, R : P = PartsOf(D) /\ Q = UpTo(t, n) /\ R = PartsOf(E)
      OBVIOUS
    <3>5. FiniteParts(P, x) /\ FiniteParts(Q, x) /\ P \cap Q = {} /\ R = P \cup Q
      BY <2>1, <2>2, <2>4, <3>3, <3>4 DEF AddUp
    <3>6. /\ FiniteParts(R, x) /\ Taken(R, x) = Taken(P, x) + Taken(Q, x)
          /\ Given(R, x) = Given(P, x) + Given(Q, x)
      BY <3>5, PartsJoined
    <3>7. /\ Taken(P, x) \in Nat /\ Taken(Q, x) \in Nat /\ Given(P, x) \in Nat /\ Given(Q, x) \in Nat
      BY <3>5, PartsTypes
    <3>8. PICK l, l1, i, tp, tq, gp, gq :
            /\ l = LedgerBalance[x] /\ l1 = LedgerBalance'[x] /\ i = InitAvailable[x]
            /\ tp = Taken(P, x) /\ tq = Taken(Q, x) /\ gp = Given(P, x) /\ gq = Given(Q, x)
      OBVIOUS
    <3>9. /\ l \in Int /\ l1 \in Int /\ i \in Nat /\ tp \in Nat /\ tq \in Nat /\ gp \in Nat /\ gq \in Nat
      BY <2>2, <3>7, <3>8, ConstantAssumption
    <3>10. l + tp = i + gp /\ l1 + tq = l + gq
      BY <2>1, <2>2, <2>4, <3>4, <3>8
    <3>11. l1 + (tp + tq) = i + (gp + gq)
      BY <3>9, <3>10
    <3> QED
      BY <2>2, <3>4, <3>6, <3>8, <3>11
  <2> QED
    BY <2>3, <2>4
<1>3. ASSUME NEW x \in Slot
      PROVE  /\ Finite(x)'
             /\ (LedgerBalance[x] + Taken(PartsOf(Effective), x)
                 = InitAvailable[x] + Given(PartsOf(Effective), x))'
  <2>1. FiniteParts(PartsOf(Effective), x)'
    BY <1>1, <1>2, PartsPrimed
  <2>2. Finite(x)'
    BY <1>2, <2>1 DEF Finite, FiniteParts, TakenCells, GivenCells, Cells
  <2>3. /\ Taken(PartsOf(Effective), x)' = Taken(PartsOf(E), x)
        /\ Given(PartsOf(Effective), x)' = Given(PartsOf(E), x)
    BY <1>1, PartsPrimed
  <2> QED
    BY <1>2, <2>2, <2>3
<1> QED
  BY <1>3 DEF Balanced, Slot
-----------------------------------------------------------------------------
(***************************************************************************)
(* The invariant.                                                          *)
(***************************************************************************)
LEMMA EffectsStep ==
  ASSUME TInv, NoOverdraft, ResInv, LogInv, EInv, TInv', NoOverdraft',
         NEW w \in Worker, Alone(w), Effect(w)
  PROVE  EInv'
<1>1. /\ OneRunner /\ OutcomeKnown /\ IdsHeld /\ EmptyView /\ AllReturned
      /\ WellFormed /\ BitsExact /\ MarksExact /\ IdsExact /\ OffersExact /\ OpsSound /\ Balanced
      /\ \A v \in Worker : Tracked(v) /\ Afforded(v)
  BY DEF ResInv, LogInv, EInv
<1>2. WellFormed' /\ BitsExact' /\ MarksExact' /\ IdsExact'
  BY <1>1, WellFormedStep, BitsExactStep, MarksExactStep, IdsExactStep
<1>3. OffersExact'
  BY <1>1, OffersExactStep
<1>4. OpsSound' /\ OpsSoundOf(w)'
  BY <1>1, OpsSoundStep, SoundStep DEF OpsSound, OpsSoundOf
<1>5. \A v \in Worker : Tracked(v)' /\ Afforded(v)'
  BY <1>1, <1>4, ViewOwn, ViewOthers
<1>6. Balanced'
  BY <1>1, <1>4, BalancedStep
<1> QED
  BY <1>2, <1>3, <1>4, <1>5, <1>6 DEF EInv

\* Nothing but the offers changes hands when the reduce is over.
LEMMA EffectsStill ==
  ASSUME TInv, EInv, UNCHANGED <<balances, reservations, status, cur_tx, view, pc, op_idx>>
  PROVE  /\ WellFormed' /\ BitsExact' /\ MarksExact' /\ IdsExact' /\ OpsSound' /\ Balanced'
         /\ \A v \in Worker : Tracked(v)' /\ Afforded(v)'
         /\ \A v \in Worker : InHand(v)' = InHand(v)
<1>1. /\ available' = available /\ sequence_number_vec' = sequence_number_vec
      /\ reserved_account_ids' = reserved_account_ids /\ uncommitted_db' = uncommitted_db
      /\ marked_for_deletion' = marked_for_deletion /\ status' = status /\ cur_tx' = cur_tx
      /\ available_buffer' = available_buffer /\ available_side_effects' = available_side_effects
      /\ new_accounts' = new_accounts /\ new_balance' = new_balance /\ pc' = pc /\ op_idx' = op_idx
  BY DEF balances, reservations, view
<1>2. /\ \A v \in Worker : InHand(v)' = InHand(v) /\ CompletedOps(v)' = CompletedOps(v)
      /\ \A t : HoldsSeqNum(t)' <=> HoldsSeqNum(t)
      /\ Effective' = Effective
  BY <1>1 DEF InHand, CompletedOps, HoldsSeqNum, Effective
<1>3. \A t, i : HoldsCancel(t, i)' <=> HoldsCancel(t, i)
  BY <1>1, <1>2 DEF HoldsCancel, IsCancel
<1>4. WellFormed'
  BY <1>1, <1>2 DEF EInv, WellFormed, check_tx_format_parameters, SeqNumUsable, seq_num_in_range,
     seq_num_offset
<1>5. BitsExact'
  BY <1>1, <1>2 DEF EInv, BitsExact, seq_num_offset
<1>6. MarksExact'
  BY <1>1, <1>3 DEF EInv, MarksExact, cancel_key
<1>7. IdsExact'
  <2>1. IdsOwned' /\ EntriesBacked' /\ CreationsKept'
    BY <1>1, <1>2 DEF EInv, IdsExact, IdsOwned, EntriesBacked, CreationsKept, OpIs
  <2>2. \A v \in Worker : CreatedBy(v)'
    BY <1>1, <1>2 DEF EInv, IdsExact, CreatedBy, OpIs, Active, Working
  <2> QED
    BY <2>1, <2>2 DEF IdsExact
<1>8. OpsSound'
  BY <1>1, <1>2, SoundConstant DEF EInv, OpsSound, Active, Working
<1>9. ASSUME NEW v \in Worker PROVE Tracked(v)' /\ Afforded(v)'
  <2>1. PICK t, n : t = cur_tx[v] /\ n = op_idx[v]
    OBVIOUS
  <2>2. \A x : Net(v, x)' = Net(v, x)
    BY <1>1 DEF Net
  <2>3. /\ pc'[v] \in Working => \A x \in Slot :
             /\ Net(v, x)' + Taken(UpTo(t, n - 1), x) = Given(UpTo(t, n - 1), x)
             /\ new_balance'[v][x] # 0 => x[1] \in new_accounts'[v]
        /\ pc'[v] \in Active => \A x \in Slot : \A k \in 0 .. n - 1 :
             Taken(UpTo(t, k), x) + available_side_effects'[v][x] <= Given(UpTo(t, k - 1), x)
        /\ pc'[v] \in {"idle", "reserve"} => new_balance'[v] = NoAmounts
    BY <1>1, <2>1, <2>2 DEF EInv, Tracked, Afforded
  <2>4. cur_tx'[v] = t /\ op_idx'[v] = n
    BY <1>1, <2>1
  <2>5. Working' = Working /\ Active' = Active /\ Slot' = Slot /\ NoAmounts' = NoAmounts
    BY DEF Working, Active, Slot, NoAmounts
  <2>6. Tracked(v)'
    BY <2>3, <2>4, <2>5, SumsConstant DEF Tracked
  <2>7. Afforded(v)'
    BY <2>3, <2>4, <2>5, SumsConstant DEF Afforded
  <2> QED
    BY <2>6, <2>7
<1>10. Balanced'
  <2>1. PICK E : E = Effective /\ E = Effective'
    BY <1>2
  <2>2. LedgerBalance' = LedgerBalance /\ \A x : PendingUnits(x)' = PendingUnits(x)
        /\ NewUnits(x)' = NewUnits(x)
    BY <1>1 DEF LedgerBalance, PendingUnits, NewUnits, Pending, Committing, Slot, Cells
  <2>3. ASSUME NEW x \in Slot
        PROVE  /\ IsFiniteSet(Cells(PendingUnits(x)')) /\ IsFiniteSet(Cells(NewUnits(x)'))
               /\ FiniteParts(PartsOf(E), x)
               /\ LedgerBalance'[x] + Taken(PartsOf(E), x) = InitAvailable[x] + Given(PartsOf(E), x)
    BY <2>1, <2>2 DEF EInv, Balanced, Finite, FiniteParts, TakenCells, GivenCells
  <2>4. ASSUME NEW x \in Slot
        PROVE  /\ Finite(x)'
               /\ (LedgerBalance[x] + Taken(PartsOf(Effective), x)
                   = InitAvailable[x] + Given(PartsOf(Effective), x))'
    <3>1. FiniteParts(PartsOf(Effective), x)'
      BY <2>1, <2>3, PartsPrimed
    <3>2. Finite(x)'
      BY <2>3, <3>1 DEF Finite, FiniteParts, TakenCells, GivenCells, Cells
    <3>3. /\ Taken(PartsOf(Effective), x)' = Taken(PartsOf(E), x)
          /\ Given(PartsOf(Effective), x)' = Given(PartsOf(E), x)
      BY <2>1, PartsPrimed
    <3> QED
      BY <2>3, <3>2, <3>3
  <2> QED
    BY <2>4 DEF Balanced, Slot
<1> QED
  BY <1>2, <1>4, <1>5, <1>6, <1>7, <1>8, <1>9, <1>10

LEMMA EffectsFinish ==
  ASSUME TInv, EInv, FinishBuild
  PROVE  EInv'
<1>1. /\ phase = "process" /\ phase' = "done" /\ \A w \in Worker : pc[w] = "idle"
      /\ uncommitted_offers' = UNION {new_offers[w] : w \in Worker}
      /\ new_offers' = [w \in Worker |-> {}] /\ status' = status
      /\ UNCHANGED <<balances, reservations, status, cur_tx, view, pc, op_idx>>
  BY DEF FinishBuild
<1>2. /\ WellFormed' /\ BitsExact' /\ MarksExact' /\ IdsExact' /\ OpsSound' /\ Balanced'
      /\ \A v \in Worker : Tracked(v)' /\ Afforded(v)'
      /\ \A v \in Worker : InHand(v)' = InHand(v)
  BY <1>1, EffectsStill
<1>3. \A w \in Worker : InHand(w) = {} /\ new_offers'[w] = {}
  BY <1>1 DEF InHand, CompletedOps
<1>4. \A w \in Worker : OffersBacked(w)' /\ OffersPlaced(w)'
  BY <1>2, <1>3 DEF OffersBacked, OffersPlaced
<1>5. \A o \in uncommitted_offers' : \E t \in TxId : \E i \in Nat :
        Placed(t, i, o) /\ status'[t] = "SUCCESS"
  <2> SUFFICES ASSUME NEW o \in uncommitted_offers'
               PROVE  \E t \in TxId : \E i \in Nat : Placed(t, i, o) /\ status'[t] = "SUCCESS"
    OBVIOUS
  <2>1. PICK w \in Worker : o \in new_offers[w]
    BY <1>1
  <2>2. OffersBacked(w)
    BY DEF EInv, OffersExact
  <2> QED
    BY <1>1, <1>3, <2>1, <2>2 DEF OffersBacked
<1>6. OffersMerged'
  BY <1>1, <1>3, <1>5 DEF OffersMerged, Placed, OpIs, make_offer
<1>7. OffersKept'
  <2>1. uncommitted_offers = {}
    BY <1>1 DEF EInv, OffersExact, OffersMerged
  <2>2. ASSUME NEW t \in TxId, NEW i \in Nat, OpIs(t, i, "CREATE_SELL_OFFER"), status'[t] = "SUCCESS"
        PROVE  make_offer(t, i) \in uncommitted_offers'
    <3>1. PICK w \in Worker : make_offer(t, i) \in new_offers[w]
      BY <1>1, <2>1, <2>2 DEF EInv, OffersExact, OffersKept
    <3> QED
      BY <1>1, <3>1
  <2> QED
    BY <2>2 DEF OffersKept, OpIs, make_offer
<1> QED
  BY <1>2, <1>4, <1>6, <1>7 DEF EInv, OffersExact

LEMMA EffectsInductive ==
  ASSUME TInv, NoOverdraft, ResInv, LogInv, EInv, [Next]_vars, TInv', NoOverdraft'
  PROVE  EInv'
<1>1. ASSUME NEW w \in Worker, WorkerStep(w) PROVE EInv'
  <2>1. Alone(w)
    BY <1>1, StepAlone
  <2>2. Effect(w)
    BY <1>1, StepEffect DEF ResInv, LogInv, EInv
  <2> QED
    BY <2>1, <2>2, EffectsStep
<1>2. CASE FinishBuild
  BY <1>2, EffectsFinish
<1>3. CASE UNCHANGED vars
  <2>1. UNCHANGED <<balances, reservations, status, cur_tx, view, pc, op_idx>>
    BY <1>3 DEF vars, driver
  <2>2. phase' = phase /\ new_offers' = new_offers /\ uncommitted_offers' = uncommitted_offers
        /\ status' = status /\ cur_tx' = cur_tx
    BY <1>3 DEF vars, driver
  <2>3. /\ WellFormed' /\ BitsExact' /\ MarksExact' /\ IdsExact' /\ OpsSound' /\ Balanced'
        /\ \A v \in Worker : Tracked(v)' /\ Afforded(v)'
        /\ \A v \in Worker : InHand(v)' = InHand(v)
    BY <2>1, EffectsStill
  <2>4. \A w \in Worker : OffersBacked(w)' /\ OffersPlaced(w)'
    BY <2>2, <2>3 DEF EInv, OffersExact, OffersBacked, OffersPlaced, Placed, OpIs, make_offer
  <2>5. OffersMerged' /\ OffersKept'
    BY <2>2 DEF EInv, OffersExact, OffersMerged, OffersKept, Placed, OpIs, make_offer
  <2> QED
    BY <2>3, <2>4, <2>5 DEF EInv, OffersExact
<1> QED
  BY <1>1, <1>2, <1>3 DEF Next, Finished

\* With no worker in a transaction, nothing is pending.
LEMMA NothingPending ==
  ASSUME \A w \in Worker : pc[w] = "idle" /\ available_side_effects[w] = NoAmounts, NEW x \in Slot
  PROVE  IsFiniteSet(Cells(PendingUnits(x))) /\ Cardinality(Cells(PendingUnits(x))) = 0
<1>1. PICK f : f = PendingUnits(x)
  OBVIOUS
<1>2. \A w \in Worker : Pending(w, x) = 0
  BY DEF Pending, Committing, NoAmounts
<1>3. 1 .. 0 = {}
  OBVIOUS
<1>4. \A w \in DOMAIN f : f[w] = {}
  BY <1>1, <1>2, <1>3 DEF PendingUnits
<1> QED
  BY <1>1, <1>4, CellsEmpty

LEMMA EffectsInit == Init => EInv
<1> SUFFICES ASSUME Init PROVE EInv
  OBVIOUS
<1>1. /\ available = InitAvailable /\ sequence_number_vec = [a \in Account |-> {}]
      /\ reserved_account_ids = {} /\ uncommitted_db = {} /\ marked_for_deletion = {}
      /\ uncommitted_offers = {} /\ phase = "process" /\ new_offers = [w \in Worker |-> {}]
      /\ \A t \in TxId : status[t] # "SUCCESS"
      /\ \A w \in Worker : /\ pc[w] = "idle" /\ cur_tx[w] = NoTx /\ new_accounts[w] = {}
                           /\ available_side_effects[w] = NoAmounts /\ new_balance[w] = NoAmounts
  BY DEF Init
<1>2. /\ Effective = {} /\ \A w \in Worker : InHand(w) = {} /\ new_offers[w] = {}
      /\ \A t \in TxId : ~HoldsSeqNum(t)
  BY <1>1 DEF Effective, InHand, CompletedOps, HoldsSeqNum
<1>3. WellFormed
  BY <1>1, <1>2 DEF WellFormed
<1>4. BitsExact /\ MarksExact
  BY <1>1 DEF BitsExact, MarksExact
<1>5. IdsExact
  <2>1. IdsOwned /\ EntriesBacked /\ CreationsKept
    BY <1>1, <1>2 DEF IdsOwned, EntriesBacked, CreationsKept
  <2>2. \A w \in Worker : CreatedBy(w)
    BY <1>1, <1>2 DEF CreatedBy, Active, Working
  <2> QED
    BY <2>1, <2>2 DEF IdsExact
<1>6. OffersExact
  <2>1. \A w \in Worker : OffersBacked(w) /\ OffersPlaced(w)
    BY <1>2 DEF OffersBacked, OffersPlaced
  <2>2. OffersMerged /\ OffersKept
    BY <1>1 DEF OffersMerged, OffersKept
  <2> QED
    BY <2>1, <2>2 DEF OffersExact
<1>7. OpsSound /\ \A w \in Worker : Tracked(w) /\ Afforded(w)
  BY <1>1 DEF OpsSound, Tracked, Afforded, Active, Working
<1>8. Balanced
  <2> SUFFICES ASSUME NEW x \in Slot
               PROVE  /\ Finite(x)
                      /\ LedgerBalance[x] + Taken(PartsOf(Effective), x)
                         = InitAvailable[x] + Given(PartsOf(Effective), x)
    BY DEF Balanced
  <2>1. PartsOf(Effective) = {}
    BY <1>2 DEF PartsOf
  <2>2. FiniteParts({}, x) /\ Taken({}, x) = 0 /\ Given({}, x) = 0
    BY PartsNone
  <2>3. IsFiniteSet(Cells(PendingUnits(x))) /\ Cardinality(Cells(PendingUnits(x))) = 0
    BY <1>1, NothingPending
  <2>4. IsFiniteSet(Cells(NewUnits(x))) /\ Cardinality(Cells(NewUnits(x))) = 0
    <3>1. PICK f : f = NewUnits(x)
      OBVIOUS
    <3>2. \A c \in DOMAIN f : f[c] = {}
      BY <1>1, <3>1 DEF NewUnits
    <3> QED
      BY <3>1, <3>2, CellsEmpty
  <2>5. InitAvailable[x] \in Nat
    BY ConstantAssumption
  <2>6. LedgerBalance[x] = InitAvailable[x]
    BY <1>1, <2>3, <2>4, <2>5 DEF LedgerBalance
  <2> QED
    BY <2>1, <2>2, <2>3, <2>4, <2>5, <2>6 DEF Finite, FiniteParts, TakenCells, GivenCells
<1> QED
  BY <1>3, <1>4, <1>5, <1>6, <1>7, <1>8 DEF EInv

\* An operation of the block, as OpsInBlock has it.
LEMMA BlockOps ==
  ASSUME NEW type
  PROVE  /\ \A t \in TxId : \A i : status[t] = "SUCCESS" /\ OpIs(t, i, type)
              => <<t, i>> \in OpsInBlock(type)
         /\ \A c \in OpsInBlock(type) : /\ c[1] \in TxId /\ c[2] \in Nat
                                        /\ status[c[1]] = "SUCCESS" /\ OpIs(c[1], c[2], type)
<1>1. ASSUME NEW t \in TxId, NEW i, status[t] = "SUCCESS", OpIs(t, i, type)
      PROVE  <<t, i>> \in OpsInBlock(type)
  <2>1. PICK n, m : n = Len(Tx[t].operations) /\ m = MAX_OPS_PER_TX
    OBVIOUS
  <2>2. n \in Nat /\ m \in Nat /\ n <= m /\ i \in 1 .. n
    BY <1>1, <2>1, TxType, ConstantAssumption DEF OpIs
  <2>3. i \in 1 .. m
    BY <2>2
  <2>4. i \in DOMAIN Tx[t].operations /\ Tx[t].operations[i].type = type
    BY <1>1, TxType DEF OpIs
  <2> QED
    BY <1>1, <2>1, <2>3, <2>4 DEF OpsInBlock, InBlock
<1>2. ASSUME NEW c \in OpsInBlock(type)
      PROVE  c[1] \in TxId /\ c[2] \in Nat /\ status[c[1]] = "SUCCESS" /\ OpIs(c[1], c[2], type)
  <2>1. /\ c[1] \in InBlock /\ c[2] \in 1 .. MAX_OPS_PER_TX
        /\ c[2] \in DOMAIN Tx[c[1]].operations /\ Tx[c[1]].operations[c[2]].type = type
    BY DEF OpsInBlock
  <2>2. c[1] \in TxId /\ status[c[1]] = "SUCCESS"
    BY <2>1 DEF InBlock
  <2>3. c[2] \in 1 .. Len(Tx[c[1]].operations) /\ c[2] \in Nat
    BY <2>1, <2>2, TxType, ConstantAssumption
  <2> QED
    BY <2>1, <2>2, <2>3 DEF OpIs
<1> QED
  BY <1>1, <1>2

LEMMA EffectsImply ==
  ASSUME TInv, ResInv, LogInv, EInv
  PROVE  OnlyCommittedEffects
<1> SUFFICES ASSUME phase = "done"
             PROVE  /\ \A x \in Slot :
                         available[x] + Cardinality(Cells(NewUnits(x))) + Taken(PartsOf(InBlock), x)
                         = InitAvailable[x] + Given(PartsOf(InBlock), x)
                    /\ uncommitted_offers =
                         {make_offer(c[1], c[2]) : c \in OpsInBlock("CREATE_SELL_OFFER")}
                    /\ marked_for_deletion =
                         {cancel_key(c[1], c[2]) : c \in OpsInBlock("CANCEL_SELL_OFFER")}
                    /\ {e.id : e \in uncommitted_db} =
                         {Tx[c[1]].operations[c[2]].account : c \in OpsInBlock("CREATE_ACCOUNT")}
                    /\ reserved_account_ids = {e.id : e \in uncommitted_db}
                    /\ \A a \in Account :
                         sequence_number_vec[a] =
                           {seq_num_offset(t) : t \in {u \in InBlock : Tx[u].sourceAccount = a}}
  BY DEF OnlyCommittedEffects
<1>1. \A w \in Worker : /\ pc[w] = "idle" /\ available_side_effects[w] = NoAmounts
                        /\ new_accounts[w] = {} /\ new_offers[w] = {} /\ cur_tx[w] = NoTx
  BY DEF LogInv, AllReturned, EmptyView, EInv, OffersExact, OffersMerged, WellFormed
<1>2. Effective = InBlock
  BY <1>1 DEF Effective, InBlock
<1>3. \A t \in TxId : HoldsSeqNum(t) <=> status[t] = "SUCCESS"
  BY <1>1 DEF HoldsSeqNum
<1>4. \A t \in TxId : \A i : HoldsCancel(t, i) <=>
        status[t] = "SUCCESS" /\ OpIs(t, i, "CANCEL_SELL_OFFER")
  BY <1>1, TxType DEF HoldsCancel, CompletedOps, IsCancel, OpIs
<1>5. ASSUME NEW x \in Slot
      PROVE  available[x] + Cardinality(Cells(NewUnits(x))) + Taken(PartsOf(InBlock), x)
             = InitAvailable[x] + Given(PartsOf(InBlock), x)
  <2>1. /\ Finite(x)
        /\ LedgerBalance[x] + Taken(PartsOf(InBlock), x) = InitAvailable[x] + Given(PartsOf(InBlock), x)
    BY <1>2 DEF EInv, Balanced
  <2>2. Cardinality(Cells(PendingUnits(x))) = 0
    BY <1>1, NothingPending
  <2>3. available[x] \in Int /\ Cardinality(Cells(NewUnits(x))) \in Nat
    BY <2>1, FS_CardinalityType DEF Finite, TInv, TypeOK
  <2>4. LedgerBalance[x] = available[x] + Cardinality(Cells(NewUnits(x)))
    BY <2>2, <2>3 DEF LedgerBalance
  <2> QED
    BY <2>1, <2>4
<1>6. uncommitted_offers = {make_offer(c[1], c[2]) : c \in OpsInBlock("CREATE_SELL_OFFER")}
  <2>1. ASSUME NEW o \in uncommitted_offers
        PROVE  \E c \in OpsInBlock("CREATE_SELL_OFFER") : o = make_offer(c[1], c[2])
    <3>1. PICK t \in TxId, i \in Nat : Placed(t, i, o) /\ status[t] = "SUCCESS"
      BY DEF EInv, OffersExact, OffersMerged
    <3>2. <<t, i>> \in OpsInBlock("CREATE_SELL_OFFER") /\ o = make_offer(t, i)
      BY <3>1, BlockOps DEF Placed
    <3> QED
      BY <3>2
  <2>2. ASSUME NEW c \in OpsInBlock("CREATE_SELL_OFFER")
        PROVE  make_offer(c[1], c[2]) \in uncommitted_offers
    BY <1>1, BlockOps DEF EInv, OffersExact, OffersKept
  <2> QED
    BY <2>1, <2>2
<1>7. marked_for_deletion = {cancel_key(c[1], c[2]) : c \in OpsInBlock("CANCEL_SELL_OFFER")}
  <2>1. ASSUME NEW k \in marked_for_deletion
        PROVE  \E c \in OpsInBlock("CANCEL_SELL_OFFER") : k = cancel_key(c[1], c[2])
    <3>1. PICK t \in TxId, i \in Nat : HoldsCancel(t, i) /\ cancel_key(t, i) = k
      BY DEF EInv, MarksExact
    <3>2. <<t, i>> \in OpsInBlock("CANCEL_SELL_OFFER")
      BY <1>4, <3>1, BlockOps
    <3> QED
      BY <3>1, <3>2
  <2>2. ASSUME NEW c \in OpsInBlock("CANCEL_SELL_OFFER")
        PROVE  cancel_key(c[1], c[2]) \in marked_for_deletion
    <3>1. c[1] \in TxId /\ c[2] \in Nat /\ HoldsCancel(c[1], c[2])
      BY <1>4, BlockOps
    <3> QED
      BY <3>1 DEF ResInv, MarksHeld
  <2> QED
    BY <2>1, <2>2
<1>8. {e.id : e \in uncommitted_db}
      = {Tx[c[1]].operations[c[2]].account : c \in OpsInBlock("CREATE_ACCOUNT")}
  <2>1. ASSUME NEW e \in uncommitted_db
        PROVE  \E c \in OpsInBlock("CREATE_ACCOUNT") : e.id = Tx[c[1]].operations[c[2]].account
    <3>1. PICK i \in Nat : /\ OpIs(e.by, i, "CREATE_ACCOUNT")
                           /\ Tx[e.by].operations[i].account = e.id
      BY DEF EInv, IdsExact, EntriesBacked
    <3>2. e.by \in TxId /\ status[e.by] = "SUCCESS"
      BY <1>2 DEF EInv, IdsExact, EntriesBacked, InBlock
    <3>3. <<e.by, i>> \in OpsInBlock("CREATE_ACCOUNT")
      BY <3>1, <3>2, BlockOps
    <3> QED
      BY <3>1, <3>3
  <2>2. ASSUME NEW c \in OpsInBlock("CREATE_ACCOUNT")
        PROVE  \E e \in uncommitted_db : e.id = Tx[c[1]].operations[c[2]].account
    <3>1. c[1] \in Effective /\ c[2] \in Nat /\ OpIs(c[1], c[2], "CREATE_ACCOUNT")
      BY <1>2, BlockOps DEF InBlock
    <3> QED
      BY <1>1, <3>1 DEF EInv, IdsExact, CreationsKept
  <2> QED
    BY <2>1, <2>2
<1>9. reserved_account_ids = {e.id : e \in uncommitted_db}
  <2>1. \A a \in reserved_account_ids : \E e \in uncommitted_db : e.id = a
    BY <1>1 DEF EInv, IdsExact, IdsOwned
  <2>2. \A e \in uncommitted_db : e.id \in reserved_account_ids
    BY DEF ResInv, IdsHeld
  <2> QED
    BY <2>1, <2>2
<1>10. ASSUME NEW a \in Account
       PROVE  sequence_number_vec[a]
              = {seq_num_offset(t) : t \in {u \in InBlock : Tx[u].sourceAccount = a}}
  <2>1. \A o \in sequence_number_vec[a] : \E t \in InBlock :
          Tx[t].sourceAccount = a /\ o = seq_num_offset(t)
    BY <1>3 DEF EInv, BitsExact, InBlock
  <2>2. \A t \in InBlock : Tx[t].sourceAccount = a => seq_num_offset(t) \in sequence_number_vec[a]
    BY <1>3 DEF ResInv, BitsHeld, InBlock
  <2> QED
    BY <2>1, <2>2
<1> QED
  BY <1>5, <1>6, <1>7, <1>8, <1>9, <1>10

\* Everything that is known of the states of block production.
Reachable == TInv /\ NoOverdraft /\ ResInv /\ LogInv /\ EInv

LEMMA ReachableInit == Init => Reachable
<1>1. Init => NoOverdraft
  <2>1. \A x \in Slot : NoAmounts[x] = 0
    BY DEF NoAmounts
  <2> QED
    BY <2>1, ConstantAssumption DEF Init, NoOverdraft
<1> QED
  BY <1>1, TypeInit, ResInit, LogInit, EffectsInit DEF Reachable

LEMMA ReachableInductive ==
  ASSUME Reachable, [Next]_vars
  PROVE  Reachable'
BY TypeInductive, SolventInductive, ResInductive, LogInductive, EffectsInductive DEF Reachable

\* When block production is done, balances, offers, marks, ids and sequence
\* numbers are exactly what the transactions of the block amount to.
\* Code: commit and unwind of BufferedMemoryDatabaseView, unwind_transaction.
THEOREM OnlyCommittedCorrect == Spec => []OnlyCommittedEffects
<1>1. Spec => []Reachable
  BY ReachableInit, ReachableInductive, PTL DEF Spec
<1>2. Reachable => OnlyCommittedEffects
  BY EffectsImply DEF Reachable
<1> QED
  BY <1>1, <1>2, PTL
-----------------------------------------------------------------------------
(***************************************************************************)
(* The mapping.  In every state it shows what the effective transactions   *)
(* amount to: what is held speculatively is taken out exactly.             *)
(***************************************************************************)
CreatedExact ==
  \A a : a \in LedgerCreated <=>
    \E t \in Effective : \E i \in Nat :
      OpIs(t, i, "CREATE_ACCOUNT") /\ Tx[t].operations[i].account = a

UsedExact ==
  \A z : z \in LedgerUsed <=>
    \E t \in Effective : z = <<Tx[t].sourceAccount, Tx[t].sequenceNumber>>

CancelledExact ==
  \A k : k \in LedgerCancelled <=>
    \E t \in Effective : \E i \in Nat : OpIs(t, i, "CANCEL_SELL_OFFER") /\ cancel_key(t, i) = k

SoldExact ==
  \A o : o \in LedgerOffers <=> \E t \in Effective : \E i \in Nat : Placed(t, i, o)

LEMMA NotEffective ==
  ASSUME TInv, OneRunner, WellFormed, NEW w \in Worker, Speculating(w)
  PROVE  /\ cur_tx[w] \in TxId /\ cur_tx[w] \notin Effective /\ pc[w] # "idle"
         /\ pc[w] # "reserve" => HoldsSeqNum(cur_tx[w])
<1>1. cur_tx[w] # NoTx /\ pc[w] # "commit"
  BY DEF Speculating
<1>2. cur_tx[w] \in TxId /\ pc[w] # "idle"
  BY <1>1 DEF TInv, TypeOK, WellFormed
<1>3. status[cur_tx[w]] = "RUNNING" /\ \A v \in Worker : cur_tx[v] = cur_tx[w] => v = w
  BY <1>1 DEF OneRunner
<1>4. cur_tx[w] \notin Effective
  BY <1>1, <1>3 DEF Effective
<1> QED
  BY <1>2, <1>4 DEF HoldsSeqNum

LEMMA EffectiveHolds ==
  ASSUME TInv, OutcomeKnown, NEW t \in Effective
  PROVE  /\ t \in TxId /\ HoldsSeqNum(t)
         /\ \/ status[t] = "SUCCESS"
            \/ \E w \in Worker : /\ cur_tx[w] = t /\ pc[w] = "commit"
                                 /\ InHand(w) = 1 .. Len(Tx[t].operations)
                                 /\ CompletedOps(w) = 1 .. Len(Tx[t].operations)
<1>1. t \in TxId /\ HoldsSeqNum(t)
  BY DEF Effective, HoldsSeqNum
<1>2. ASSUME NEW w \in Worker, cur_tx[w] = t, pc[w] = "commit"
      PROVE  /\ InHand(w) = 1 .. Len(Tx[t].operations)
             /\ CompletedOps(w) = 1 .. Len(Tx[t].operations)
  <2>1. op_idx[w] = Len(Tx[t].operations) + 1 /\ Len(Tx[t].operations) \in Nat
    BY <1>1, <1>2, TxType DEF OutcomeKnown, Cur
  <2>2. op_idx[w] - 1 = Len(Tx[t].operations)
    BY <2>1
  <2> QED
    BY <1>2, <2>2 DEF InHand, CompletedOps
<1> QED
  BY <1>1, <1>2 DEF Effective

LEMMA CreatedIs == Reachable => CreatedExact
<1> SUFFICES ASSUME Reachable, NEW a
             PROVE  a \in LedgerCreated <=>
                      \E t \in Effective : \E i \in Nat :
                        OpIs(t, i, "CREATE_ACCOUNT") /\ Tx[t].operations[i].account = a
  BY DEF CreatedExact
<1>1. IdsHeld /\ IdsOwned /\ EntriesBacked /\ CreationsKept /\ \A w \in Worker : CreatedBy(w)
  BY DEF Reachable, ResInv, EInv, IdsExact
<1>2. a \in LedgerCreated <=> /\ a \in reserved_account_ids
                              /\ \A v \in Worker : ~Committing(v) => a \notin new_accounts[v]
  BY DEF LedgerCreated
<1>3. ASSUME a \in LedgerCreated
      PROVE  \E t \in Effective : \E i \in Nat :
               OpIs(t, i, "CREATE_ACCOUNT") /\ Tx[t].operations[i].account = a
  <2>1. CASE \E e \in uncommitted_db : e.id = a
    BY <1>1, <2>1 DEF EntriesBacked
  <2>2. CASE \E w \in Worker : a \in new_accounts[w]
    <3>1. PICK w \in Worker : a \in new_accounts[w]
      BY <2>2
    <3>2. pc[w] = "commit"
      BY <1>2, <1>3, <3>1 DEF Committing
    <3>3. PICK i \in InHand(w) : OpIs(cur_tx[w], i, "CREATE_ACCOUNT")
                                 /\ Tx[cur_tx[w]].operations[i].account = a
      BY <1>1, <3>1, <3>2 DEF CreatedBy, Active
    <3>4. cur_tx[w] \in TxId
      BY <3>2 DEF Reachable, TInv, LocInv, Located
    <3>5. cur_tx[w] \in Effective /\ i \in Nat
      BY <3>2, <3>3, <3>4, TxType DEF Effective, OpIs
    <3> QED
      BY <3>3, <3>5
  <2> QED
    BY <1>1, <1>2, <1>3, <2>1, <2>2 DEF IdsOwned
<1>4. ASSUME NEW t \in Effective, NEW i \in Nat, OpIs(t, i, "CREATE_ACCOUNT"),
             Tx[t].operations[i].account = a
      PROVE  a \in LedgerCreated
  <2>1. CASE \E e \in uncommitted_db : e.id = a
    BY <1>1, <1>2, <2>1 DEF IdsHeld
  <2>2. CASE \E w \in Worker : pc[w] = "commit" /\ a \in new_accounts[w]
    <3>1. PICK w \in Worker : pc[w] = "commit" /\ a \in new_accounts[w]
      BY <2>2
    <3>2. a \in reserved_account_ids /\ \A v \in Worker : v # w => a \notin new_accounts[v]
      BY <1>1, <3>1 DEF IdsHeld
    <3> QED
      BY <1>2, <3>1, <3>2 DEF Committing
  <2> QED
    BY <1>1, <1>4, <2>1, <2>2 DEF CreationsKept
<1> QED
  BY <1>3, <1>4

LEMMA NumberOfBit ==
  ASSUME NEW t \in TxId, check_tx_format_parameters(t)
  PROVE  SeqNumOf(Tx[t].sourceAccount, seq_num_offset(t)) = Tx[t].sequenceNumber
<1>1. PICK a, b, m : /\ a = Tx[t].sequenceNumber /\ b = LastCommittedId[Tx[t].sourceAccount]
                     /\ m = MAX_OPS_PER_TX
  OBVIOUS
<1>2. a \in Nat /\ b \in Nat /\ m \in Nat \ {0} /\ a % m = 0 /\ b % m = 0
  BY <1>1, TxType, ConstantAssumption DEF check_tx_format_parameters
<1>3. b + (((a - b) \div m) - 1 + 1) * m = a
  BY <1>2, OffsetInverse
<1> QED
  BY <1>1, <1>3 DEF SeqNumOf, seq_num_offset

LEMMA UsedIs == Reachable => UsedExact
<1> SUFFICES ASSUME Reachable, NEW z
             PROVE  z \in LedgerUsed <=>
                      \E t \in Effective : z = <<Tx[t].sourceAccount, Tx[t].sequenceNumber>>
  BY DEF UsedExact
<1>1. /\ TInv /\ ResInv /\ OneRunner /\ OutcomeKnown /\ BitsHeld /\ WellFormed /\ BitsExact
  BY DEF Reachable, ResInv, EInv
<1>2. PICK Bits, Tentative :
        /\ Bits = UNION {{<<a, SeqNumOf(a, o)>> : o \in sequence_number_vec[a]} : a \in Account}
        /\ Tentative = {<<Source(w), Cur(w).sequenceNumber>> : w \in
                      {v \in Worker : Speculating(v) /\ pc[v] # "reserve"}}
  OBVIOUS
<1>3. LedgerUsed = Bits \ Tentative
  BY <1>2, Zenon DEF LedgerUsed
<1>4. ASSUME z \in Bits, z \notin Tentative
      PROVE  \E t \in Effective : z = <<Tx[t].sourceAccount, Tx[t].sequenceNumber>>
  <2>1. PICK a \in Account : \E o \in sequence_number_vec[a] : z = <<a, SeqNumOf(a, o)>>
    BY <1>2, <1>4
  <2>2. PICK o \in sequence_number_vec[a] : z = <<a, SeqNumOf(a, o)>>
    BY <2>1
  <2>3. PICK t \in TxId : HoldsSeqNum(t) /\ Tx[t].sourceAccount = a /\ seq_num_offset(t) = o
    BY <1>1 DEF BitsExact
  <2>4. check_tx_format_parameters(t)
    BY <1>1, <2>3 DEF WellFormed
  <2>5. z = <<Tx[t].sourceAccount, Tx[t].sequenceNumber>>
    BY <2>2, <2>3, <2>4, NumberOfBit
  <2>6. ASSUME NEW w \in Worker, cur_tx[w] = t, pc[w] \notin {"idle", "reserve"} PROVE pc[w] = "commit"
    <3> SUFFICES ASSUME pc[w] # "commit" PROVE FALSE
      OBVIOUS
    <3>1. Speculating(w)
      BY <2>6, ConstantAssumption DEF Speculating
    <3>2. <<Source(w), Cur(w).sequenceNumber>> \in Tentative
      BY <1>2, <2>6, <3>1
    <3> QED
      BY <1>4, <2>5, <2>6, <3>2 DEF Source, Cur
  <2>7. t \in Effective
    BY <2>3, <2>6 DEF HoldsSeqNum, Effective
  <2> QED
    BY <2>5, <2>7
<1>5. ASSUME NEW t \in Effective, z = <<Tx[t].sourceAccount, Tx[t].sequenceNumber>>
      PROVE  z \in Bits /\ z \notin Tentative
  <2>1. t \in TxId /\ HoldsSeqNum(t)
    BY <1>1, EffectiveHolds
  <2>2. check_tx_format_parameters(t)
    BY <1>1, <2>1 DEF WellFormed
  <2>3. PICK a, o : a = Tx[t].sourceAccount /\ o = seq_num_offset(t)
    OBVIOUS
  <2>4. z = <<a, SeqNumOf(a, o)>> /\ a \in Account /\ o \in sequence_number_vec[a]
    BY <1>1, <1>5, <2>1, <2>2, <2>3, NumberOfBit, TxType DEF BitsHeld
  <2>5. z \in Bits
    BY <1>2, <2>4
  <2>6. ASSUME z \in Tentative PROVE FALSE
    <3>1. PICK w \in Worker : /\ Speculating(w) /\ pc[w] # "reserve"
                              /\ z = <<Source(w), Cur(w).sequenceNumber>>
      BY <1>2, <2>6
    <3>2. PICK u : u = cur_tx[w]
      OBVIOUS
    <3>3. u \in TxId /\ u \notin Effective /\ HoldsSeqNum(u)
      BY <1>1, <3>1, <3>2, NotEffective
    <3>4. /\ Tx[u].sourceAccount = Tx[t].sourceAccount /\ Tx[u].sequenceNumber = Tx[t].sequenceNumber
      BY <1>5, <3>1, <3>2 DEF Source, Cur
    <3>5. SeqNumHeldOnce
      BY <1>1, ResImplies DEF ReservationsHeldOnce
    <3>6. u = t
      BY <2>1, <3>3, <3>4, <3>5 DEF SeqNumHeldOnce
    <3> QED
      BY <3>3, <3>6
  <2> QED
    BY <2>5, <2>6
<1> QED
  BY <1>3, <1>4, <1>5

LEMMA CancelledIs == Reachable => CancelledExact
<1> SUFFICES ASSUME Reachable, NEW k
             PROVE  k \in LedgerCancelled <=>
                      \E t \in Effective : \E i \in Nat :
                        OpIs(t, i, "CANCEL_SELL_OFFER") /\ cancel_key(t, i) = k
  BY DEF CancelledExact
<1>1. TInv /\ OneRunner /\ OutcomeKnown /\ MarksHeld /\ WellFormed /\ MarksExact
  BY DEF Reachable, ResInv, EInv
<1>2. \A t \in TxId : \A i : IsCancel(t, i) <=> OpIs(t, i, "CANCEL_SELL_OFFER")
  BY TxType DEF IsCancel, OpIs
<1>3. k \in LedgerCancelled <=>
        /\ k \in marked_for_deletion
        /\ \A w \in Worker : Speculating(w) =>
             \A j \in CompletedOps(w) : IsCancel(cur_tx[w], j) => k # cancel_key(cur_tx[w], j)
  BY DEF LedgerCancelled
<1>4. ASSUME k \in LedgerCancelled
      PROVE  \E t \in Effective : \E i \in Nat :
               OpIs(t, i, "CANCEL_SELL_OFFER") /\ cancel_key(t, i) = k
  <2>1. PICK t \in TxId, i \in Nat : HoldsCancel(t, i) /\ cancel_key(t, i) = k
    BY <1>1, <1>3, <1>4 DEF MarksExact
  <2>2. ASSUME NEW w \in Worker, cur_tx[w] = t, i \in CompletedOps(w) PROVE pc[w] = "commit"
    <3> SUFFICES ASSUME pc[w] # "commit" PROVE FALSE
      OBVIOUS
    <3>1. Speculating(w)
      BY <2>2, ConstantAssumption DEF Speculating
    <3> QED
      BY <1>3, <1>4, <2>1, <2>2, <3>1 DEF HoldsCancel
  <2>3. t \in Effective /\ IsCancel(t, i)
    BY <2>1, <2>2 DEF HoldsCancel, Effective
  <2> QED
    BY <1>2, <2>1, <2>3
<1>5. ASSUME NEW t \in Effective, NEW i \in Nat, OpIs(t, i, "CANCEL_SELL_OFFER"), cancel_key(t, i) = k
      PROVE  k \in LedgerCancelled
  <2>1. /\ t \in TxId
        /\ \/ status[t] = "SUCCESS"
           \/ \E w \in Worker : /\ cur_tx[w] = t /\ pc[w] = "commit"
                                /\ CompletedOps(w) = 1 .. Len(Tx[t].operations)
    BY <1>1, EffectiveHolds
  <2>2. HoldsCancel(t, i)
    BY <1>2, <1>5, <2>1 DEF HoldsCancel, OpIs
  <2>3. k \in marked_for_deletion
    BY <1>1, <1>5, <2>1, <2>2 DEF MarksHeld
  <2>4. ASSUME NEW w \in Worker, Speculating(w), NEW j \in CompletedOps(w), IsCancel(cur_tx[w], j),
               k = cancel_key(cur_tx[w], j)
        PROVE  FALSE
    <3>1. PICK u : u = cur_tx[w]
      OBVIOUS
    <3>2. u \in TxId /\ u \notin Effective
      BY <1>1, <2>4, <3>1, NotEffective
    <3>3. HoldsCancel(u, j) /\ j \in Nat
      BY <1>2, <2>4, <3>1, <3>2, TxType DEF HoldsCancel, OpIs
    <3>4. u = t
      BY <1>1, <1>5, <2>1, <2>2, <2>4, <3>1, <3>2, <3>3 DEF MarksHeld
    <3> QED
      BY <3>2, <3>4
  <2> QED
    BY <1>3, <2>3, <2>4
<1> QED
  BY <1>4, <1>5

LEMMA SoldIs == Reachable => SoldExact
<1> SUFFICES ASSUME Reachable, NEW o
             PROVE  o \in LedgerOffers <=> \E t \in Effective : \E i \in Nat : Placed(t, i, o)
  BY DEF SoldExact
<1>1. /\ TInv /\ ResInv /\ OneRunner /\ OutcomeKnown /\ WellFormed
      /\ \A w \in Worker : OffersBacked(w) /\ OffersPlaced(w)
      /\ OffersMerged /\ OffersKept
  BY DEF Reachable, ResInv, EInv, OffersExact
<1>2. PICK All, Tentative :
        /\ All = uncommitted_offers \cup UNION {new_offers[w] : w \in Worker}
        /\ Tentative = UNION {{make_offer(cur_tx[w], i) : i \in DOMAIN Cur(w).operations} :
                                w \in {v \in Worker : Speculating(v) /\ pc[v] # "reserve"}}
  OBVIOUS
<1>3. LedgerOffers = All \ Tentative
  BY <1>2, Zenon DEF LedgerOffers
<1>4. o \in Tentative <=> \E w \in Worker : /\ Speculating(w) /\ pc[w] # "reserve"
                                            /\ \E i \in DOMAIN Cur(w).operations : o = make_offer(cur_tx[w], i)
  BY <1>2
<1>5. ASSUME o \in All, o \notin Tentative
      PROVE  \E t \in Effective : \E i \in Nat : Placed(t, i, o)
  <2>1. CASE o \in uncommitted_offers
    BY <1>1, <2>1 DEF OffersMerged, Effective
  <2>2. CASE o \notin uncommitted_offers
    <3>1. PICK w \in Worker : o \in new_offers[w]
      BY <1>2, <1>5, <2>2
    <3>2. PICK t \in TxId, i \in Nat : /\ Placed(t, i, o)
                                       /\ status[t] = "SUCCESS" \/ (cur_tx[w] = t /\ i \in InHand(w))
      BY <1>1, <3>1 DEF OffersBacked
    <3>3. ASSUME cur_tx[w] = t, i \in InHand(w) PROVE pc[w] = "commit"
      <4> SUFFICES ASSUME pc[w] # "commit" PROVE FALSE
        OBVIOUS
      <4>1. Speculating(w) /\ pc[w] # "reserve"
        BY <3>3, ConstantAssumption DEF Speculating, InHand, CompletedOps
      <4>2. i \in DOMAIN Cur(w).operations /\ o = make_offer(cur_tx[w], i)
        BY <3>2, <3>3, TxType DEF Placed, OpIs, Cur
      <4> QED
        BY <1>4, <1>5, <4>1, <4>2
    <3> QED
      BY <3>2, <3>3 DEF Effective
  <2> QED
    BY <2>1, <2>2
<1>6. ASSUME NEW t \in Effective, NEW i \in Nat, Placed(t, i, o)
      PROVE  o \in All /\ o \notin Tentative
  <2>1. /\ t \in TxId /\ HoldsSeqNum(t)
        /\ \/ status[t] = "SUCCESS"
           \/ \E w \in Worker : /\ cur_tx[w] = t /\ pc[w] = "commit"
                                /\ InHand(w) = 1 .. Len(Tx[t].operations)
    BY <1>1, EffectiveHolds
  <2>2. OpIs(t, i, "CREATE_SELL_OFFER") /\ o = make_offer(t, i)
    BY <1>6 DEF Placed
  <2>3. o \in uncommitted_offers \/ \E w \in Worker : o \in new_offers[w]
    <3>1. CASE status[t] = "SUCCESS"
      BY <1>1, <2>1, <2>2, <3>1 DEF OffersKept
    <3>2. CASE \E w \in Worker : cur_tx[w] = t /\ InHand(w) = 1 .. Len(Tx[t].operations)
      BY <1>1, <2>2, <3>2 DEF OffersPlaced, OpIs
    <3> QED
      BY <2>1, <3>1, <3>2
  <2>4. o \in All
    BY <1>2, <2>3
  <2>5. ASSUME o \in Tentative PROVE FALSE
    <3>1. PICK w \in Worker : /\ Speculating(w) /\ pc[w] # "reserve"
                              /\ \E j \in DOMAIN Cur(w).operations : o = make_offer(cur_tx[w], j)
      BY <1>4, <2>5
    <3>2. PICK j \in DOMAIN Cur(w).operations : o = make_offer(cur_tx[w], j)
      BY <3>1
    <3>3. PICK u : u = cur_tx[w]
      OBVIOUS
    <3>4. u \in TxId /\ u \notin Effective /\ HoldsSeqNum(u)
      BY <1>1, <3>1, <3>3, NotEffective
    <3>5. j \in 1 .. Len(Tx[u].operations) /\ OpIs(u, j, Tx[u].operations[j].type)
      BY <3>2, <3>3, <3>4, TxType DEF Cur, OpIs
    <3>6. make_offer(t, i) = make_offer(u, j)
      BY <2>2, <3>2, <3>3
    <3>7. t = u
      BY <1>1, <2>1, <2>2, <3>4, <3>5, <3>6, OfferOwners
    <3> QED
      BY <3>4, <3>7
  <2> QED
    BY <2>4, <2>5
<1> QED
  BY <1>3, <1>5, <1>6

\* A step that lets no transaction take effect leaves the ledger as it is.
LEMMA SameHoldings ==
  ASSUME Reachable, Reachable', Effective' = Effective
  PROVE  /\ LedgerCreated' = LedgerCreated /\ LedgerUsed' = LedgerUsed
         /\ LedgerCancelled' = LedgerCancelled /\ LedgerOffers' = LedgerOffers
<1>1. CreatedExact /\ UsedExact /\ CancelledExact /\ SoldExact
  BY CreatedIs, UsedIs, CancelledIs, SoldIs
<1>2. CreatedExact' /\ UsedExact' /\ CancelledExact' /\ SoldExact'
  BY CreatedIs, UsedIs, CancelledIs, SoldIs, PTL
<1>3. LedgerCreated' = LedgerCreated
  BY <1>1, <1>2 DEF CreatedExact, OpIs
<1>4. LedgerUsed' = LedgerUsed
  BY <1>1, <1>2 DEF UsedExact
<1>5. LedgerCancelled' = LedgerCancelled
  BY <1>1, <1>2 DEF CancelledExact, OpIs, cancel_key
<1>6. LedgerOffers' = LedgerOffers
  BY <1>1, <1>2 DEF SoldExact, Placed, OpIs, make_offer
<1> QED
  BY <1>3, <1>4, <1>5, <1>6

\* When t takes effect, what its operations bring about is added.
LEMMA MoreHoldings ==
  ASSUME Reachable, Reachable', NEW t \in TxId, Effective' = Effective \cup {t},
         NEW n, n = Len(Tx[t].operations)
  PROVE  /\ LedgerCreated' = LedgerCreated \cup Ledger!Creates(t, n)
         /\ LedgerUsed' = LedgerUsed \cup {<<Tx[t].sourceAccount, Tx[t].sequenceNumber>>}
         /\ LedgerCancelled' = LedgerCancelled \cup Ledger!Cancels(t, n)
         /\ LedgerOffers' = LedgerOffers \cup Ledger!Sells(t, n)
<1>1. CreatedExact /\ UsedExact /\ CancelledExact /\ SoldExact
  BY CreatedIs, UsedIs, CancelledIs, SoldIs
<1>2. CreatedExact' /\ UsedExact' /\ CancelledExact' /\ SoldExact'
  BY CreatedIs, UsedIs, CancelledIs, SoldIs, PTL
<1>3. n \in Nat /\ \A i \in 1 .. n : i \in Nat
  BY TxType
<1>4. \A type : \A i : i \in Ledger!OpsOf(t, type, n) <=> i \in Nat /\ OpIs(t, i, type)
  BY <1>3 DEF Ledger!OpsOf, OpIs
<1>5. LedgerCreated' = LedgerCreated \cup Ledger!Creates(t, n)
  <2>1. \A a : a \in Ledger!Creates(t, n) <=>
          \E i \in Nat : OpIs(t, i, "CREATE_ACCOUNT") /\ Tx[t].operations[i].account = a
    BY <1>4 DEF Ledger!Creates
  <2>2. \A a : a \in LedgerCreated' <=> a \in LedgerCreated \/ a \in Ledger!Creates(t, n)
    BY <1>1, <1>2, <2>1 DEF CreatedExact, OpIs
  <2> QED
    BY <2>2
<1>6. LedgerUsed' = LedgerUsed \cup {<<Tx[t].sourceAccount, Tx[t].sequenceNumber>>}
  <2>1. \A z : z \in LedgerUsed' <=>
          z \in LedgerUsed \/ z = <<Tx[t].sourceAccount, Tx[t].sequenceNumber>>
    BY <1>1, <1>2 DEF UsedExact
  <2> QED
    BY <2>1
<1>7. LedgerCancelled' = LedgerCancelled \cup Ledger!Cancels(t, n)
  <2>1. \A k : k \in Ledger!Cancels(t, n) <=>
          \E i \in Nat : OpIs(t, i, "CANCEL_SELL_OFFER") /\ cancel_key(t, i) = k
    BY <1>4 DEF Ledger!Cancels, cancel_key
  <2>2. \A k : k \in LedgerCancelled' <=> k \in LedgerCancelled \/ k \in Ledger!Cancels(t, n)
    BY <1>1, <1>2, <2>1 DEF CancelledExact, OpIs, cancel_key
  <2> QED
    BY <2>2
<1>8. LedgerOffers' = LedgerOffers \cup Ledger!Sells(t, n)
  <2>1. \A o : o \in Ledger!Sells(t, n) <=> \E i \in Nat : Placed(t, i, o)
    BY <1>4 DEF Ledger!Sells, Placed, make_offer
  <2>2. \A o : o \in LedgerOffers' <=> o \in LedgerOffers \/ o \in Ledger!Sells(t, n)
    BY <1>1, <1>2, <2>1 DEF SoldExact, Placed, OpIs, make_offer
  <2> QED
    BY <2>2
<1> QED
  BY <1>5, <1>6, <1>7, <1>8
-----------------------------------------------------------------------------
(***************************************************************************)
(* A transaction that takes effect: its steps could have been paid for one *)
(* after the other, and leave the ledger's balances as they come to be.    *)
(***************************************************************************)
\* The balances after part k of t.
After(t, k) ==
  [x \in Slot |-> (LedgerBalance[x] + Given(UpTo(t, k), x)) - Taken(UpTo(t, k), x)]

\* One operation, slot by slot.
LEMMA ApplySlots ==
  ASSUME NEW b, b \in [Slot -> Int], NEW t \in TxId, NEW i \in 1 .. Len(Tx[t].operations), Sound(t, i)
  PROVE  /\ DOMAIN Ledger!Apply(b, t, i) = Slot
         /\ \A x \in Slot : Ledger!Apply(b, t, i)[x] = (b[x] - Takes(<<t, i>>, x)) + Gives(<<t, i>>, x)
<1>1. PICK op, src, ref : /\ op = Tx[t].operations[i] /\ src = Tx[t].sourceAccount
                          /\ ref = RestingOffer[<<src, op.offerId>>].amount
  OBVIOUS
<1>2. op \in Operation /\ src \in Account
  BY <1>1, TxType
<1>3. op.type \in OpType /\ op.account \in Account /\ op.asset \in Asset /\ op.amount \in Int
  BY <1>2 DEF Operation
<1>4. PICK S, N, D, E : /\ S = <<src, op.asset>> /\ N = <<src, NATIVE_ASSET>>
                        /\ D = <<op.account, op.asset>> /\ E = <<op.account, NATIVE_ASSET>>
  OBVIOUS
<1>5. S \in Slot /\ N \in Slot /\ D \in Slot /\ E \in Slot
  BY <1>2, <1>3, <1>4, ConstantAssumption DEF Slot
<1>6. i # 0
  OBVIOUS
<1>7. ASSUME NEW x \in Slot
      PROVE  /\ Takes(<<t, i>>, x) = IF \/ op.type = "CREATE_ACCOUNT" /\ x = N
                                        \/ op.type \in {"PAYMENT", "CREATE_SELL_OFFER"} /\ x = S
                                     THEN op.amount ELSE 0
             /\ Gives(<<t, i>>, x) = IF \/ op.type = "CREATE_ACCOUNT" /\ x = E
                                        \/ op.type = "PAYMENT" /\ x = D
                                        \/ op.type = "MONEY_PRINTER" /\ x = S
                                     THEN op.amount
                                     ELSE IF op.type = "CANCEL_SELL_OFFER" /\ x = S THEN ref ELSE 0
  BY <1>1, <1>4, <1>6 DEF Takes, Gives, cancel_key
<1>8. PICK g : g = Ledger!Apply(b, t, i)
  OBVIOUS
<1>9. CASE op.type = "PAYMENT"
  <2>1. g = [[b EXCEPT ![S] = @ - op.amount] EXCEPT ![D] = @ + op.amount]
    BY <1>1, <1>4, <1>8, <1>9 DEF Ledger!Apply, Ledger!Pay, Ledger!Receive
  <2>2. DOMAIN g = Slot /\ \A x \in Slot : g[x] = (b[x] - (IF x = S THEN op.amount ELSE 0))
                                                  + (IF x = D THEN op.amount ELSE 0)
    BY <1>3, <1>5, <2>1
  <2> QED
    BY <1>7, <1>8, <1>9, <2>2
<1>10. CASE op.type = "CREATE_ACCOUNT"
  <2>1. g = [[b EXCEPT ![N] = @ - op.amount] EXCEPT ![E] = @ + op.amount]
    BY <1>1, <1>4, <1>8, <1>10 DEF Ledger!Apply, Ledger!Pay, Ledger!Receive
  <2>2. DOMAIN g = Slot /\ \A x \in Slot : g[x] = (b[x] - (IF x = N THEN op.amount ELSE 0))
                                                  + (IF x = E THEN op.amount ELSE 0)
    BY <1>3, <1>5, <2>1
  <2> QED
    BY <1>7, <1>8, <1>10, <2>2
<1>11. CASE op.type = "MONEY_PRINTER"
  <2>1. g = [b EXCEPT ![S] = @ + op.amount]
    BY <1>1, <1>4, <1>8, <1>11 DEF Ledger!Apply, Ledger!Receive
  <2>2. DOMAIN g = Slot /\ \A x \in Slot : g[x] = (b[x] - 0) + (IF x = S THEN op.amount ELSE 0)
    BY <1>3, <1>5, <2>1
  <2> QED
    BY <1>7, <1>8, <1>11, <2>2
<1>12. CASE op.type = "CREATE_SELL_OFFER"
  <2>1. g = [b EXCEPT ![S] = @ - op.amount]
    BY <1>1, <1>4, <1>8, <1>12 DEF Ledger!Apply, Ledger!Pay
  <2>2. DOMAIN g = Slot /\ \A x \in Slot : g[x] = (b[x] - (IF x = S THEN op.amount ELSE 0)) + 0
    BY <1>3, <1>5, <2>1
  <2> QED
    BY <1>7, <1>8, <1>12, <2>2
<1>13. CASE op.type = "CANCEL_SELL_OFFER"
  <2>1. g = [b EXCEPT ![S] = @ + ref]
    BY <1>1, <1>4, <1>8, <1>13 DEF Ledger!Apply, Ledger!Receive
  <2>2. ref \in Int
    <3>1. <<src, op.offerId>> \in DOMAIN RestingOffer
      BY <1>1, <1>13 DEF Sound, cancel_key
    <3>2. RestingOffer[<<src, op.offerId>>] \in Offer
      BY <3>1, ConstantAssumption
    <3> QED
      BY <1>1, <3>2 DEF Offer
  <2>3. DOMAIN g = Slot /\ \A x \in Slot : g[x] = (b[x] - 0) + (IF x = S THEN ref ELSE 0)
    BY <1>5, <2>1, <2>2
  <2> QED
    BY <1>7, <1>8, <1>13, <2>3
<1> QED
  BY <1>3, <1>9, <1>10, <1>11, <1>12, <1>13 DEF OpType

LEMMA RunIs ==
  ASSUME NEW t \in TxId, NEW n, n = Len(Tx[t].operations), \A i \in 1 .. n : Sound(t, i),
         \A x \in Slot : LedgerBalance[x] \in Int
  PROVE  \A k \in 0 .. n : Ledger!Run(t)[k] = After(t, k)
<1>1. n \in Nat
  BY TxType
<1>2. \A x \in Slot : \A k \in 0 .. n : AddUp(t, k, x)
  BY <1>1, PartsAddUp
<1>3. PICK N, src, fee : N = <<src, NATIVE_ASSET>> /\ src = Tx[t].sourceAccount /\ fee = fee_required(t)
  OBVIOUS
<1>4. N \in Slot /\ fee \in Nat
  BY <1>3, TxType, ConstantAssumption DEF Slot
<1>5. After(t, 0) = Ledger!Pay(LedgerBalance, N, fee)
  <2>1. LedgerBalance = [x \in Slot |-> LedgerBalance[x]]
    BY DEF LedgerBalance
  <2>2. ASSUME NEW x \in Slot PROVE After(t, 0)[x] = LedgerBalance[x] - (IF x = N THEN fee ELSE 0)
    <3>1. AddUp(t, 0, x) /\ 0 - 1 = -1
      BY <1>1, <1>2
    <3>2. Takes(<<t, 0>>, x) = (IF x = N THEN fee ELSE 0) /\ Gives(<<t, 0>>, x) = 0
      BY <1>3 DEF Takes, Gives
    <3>3. Taken(UpTo(t, 0), x) = (IF x = N THEN fee ELSE 0) /\ Given(UpTo(t, 0), x) = 0
      <4>1. /\ Taken(UpTo(t, 0), x) = Taken(UpTo(t, 0 - 1), x) + Takes(<<t, 0>>, x)
            /\ Given(UpTo(t, 0), x) = Given(UpTo(t, 0 - 1), x) + Gives(<<t, 0>>, x)
        BY <3>1 DEF AddUp
      <4>2. Taken(UpTo(t, 0 - 1), x) = 0 /\ Given(UpTo(t, 0 - 1), x) = 0
        BY <3>1, NoParts
      <4> QED
        BY <1>4, <3>2, <4>1, <4>2
    <3> QED
      BY <1>4, <3>3 DEF After
  <2>3. PICK f : f = Ledger!Pay(LedgerBalance, N, fee)
    OBVIOUS
  <2>4. f = [LedgerBalance EXCEPT ![N] = @ - fee]
    BY <2>3 DEF Ledger!Pay
  <2>5. f = [x \in Slot |-> LedgerBalance[x] - (IF x = N THEN fee ELSE 0)]
    BY <1>4, <2>1, <2>4
  <2>6. After(t, 0) = [x \in Slot |-> LedgerBalance[x] - (IF x = N THEN fee ELSE 0)]
    BY <2>2 DEF After
  <2> QED
    BY <2>3, <2>5, <2>6
<1>6. ASSUME NEW k \in 1 .. n PROVE After(t, k) = Ledger!Apply(After(t, k - 1), t, k)
  <2>1. ASSUME NEW x \in Slot
        PROVE  /\ After(t, k - 1)[x] \in Int
               /\ After(t, k)[x] = (After(t, k - 1)[x] - Takes(<<t, k>>, x)) + Gives(<<t, k>>, x)
    <3>1. AddUp(t, k, x)
      BY <1>1, <1>2
    <3>2. PICK l, T, G, tk, gv : /\ l = LedgerBalance[x] /\ T = Taken(UpTo(t, k - 1), x)
                                 /\ G = Given(UpTo(t, k - 1), x) /\ tk = Takes(<<t, k>>, x)
                                 /\ gv = Gives(<<t, k>>, x)
      OBVIOUS
    <3>3. /\ l \in Int /\ T \in Nat /\ G \in Nat /\ tk \in Nat /\ gv \in Nat
          /\ Taken(UpTo(t, k), x) = T + tk /\ Given(UpTo(t, k), x) = G + gv
      BY <3>1, <3>2 DEF AddUp
    <3>4. After(t, k - 1)[x] = (l + G) - T /\ After(t, k)[x] = (l + (G + gv)) - (T + tk)
      BY <3>2, <3>3 DEF After
    <3>5. (l + (G + gv)) - (T + tk) = (((l + G) - T) - tk) + gv /\ (l + G) - T \in Int
      BY <3>3
    <3> QED
      BY <3>2, <3>4, <3>5
  <2>2. PICK b : b = After(t, k - 1)
    OBVIOUS
  <2>3. b \in [Slot -> Int]
    BY <2>1, <2>2 DEF After
  <2>4. PICK g : g = Ledger!Apply(b, t, k)
    OBVIOUS
  <2>5. /\ DOMAIN g = Slot
        /\ \A x \in Slot : g[x] = (b[x] - Takes(<<t, k>>, x)) + Gives(<<t, k>>, x)
    BY <2>3, <2>4, ApplySlots
  <2>6. g = [x \in Slot |-> g[x]]
    <3>1. \E h, m, j : g = [h EXCEPT ![m] = j]
      BY <2>4, TxType DEF Ledger!Apply, Ledger!Pay, Ledger!Receive, Operation, OpType
    <3> QED
      BY <2>5, <3>1
  <2>7. After(t, k) = [x \in Slot |-> After(t, k)[x]]
    BY DEF After
  <2>8. \A x \in Slot : g[x] = After(t, k)[x]
    BY <2>1, <2>2, <2>5
  <2>9. g = After(t, k)
    BY <2>6, <2>7, <2>8
  <2> QED
    BY <2>2, <2>4, <2>9
<1>7. PICK r : r = Ledger!Run(t)
  OBVIOUS
<1>8. r = CHOOSE f : f = [i \in 0 .. n |-> IF i = 0 THEN Ledger!Pay(LedgerBalance, N, fee)
                                           ELSE Ledger!Apply(f[i - 1], t, i)]
  BY <1>3, <1>7 DEF Ledger!Run
<1>9. PICK h : h = [k \in 0 .. n |-> After(t, k)]
  OBVIOUS
<1>10. h = [i \in 0 .. n |-> IF i = 0 THEN Ledger!Pay(LedgerBalance, N, fee)
                             ELSE Ledger!Apply(h[i - 1], t, i)]
  <2>1. ASSUME NEW i \in 0 .. n
        PROVE  After(t, i) = IF i = 0 THEN Ledger!Pay(LedgerBalance, N, fee)
                             ELSE Ledger!Apply(h[i - 1], t, i)
    <3>1. CASE i = 0
      BY <1>5, <3>1
    <3>2. CASE i # 0
      <4>1. i \in 1 .. n /\ i - 1 \in 0 .. n
        BY <1>1, <3>2
      <4>2. h[i - 1] = After(t, i - 1)
        BY <1>9, <4>1
      <4> QED
        BY <1>6, <3>2, <4>1, <4>2
    <3> QED
      BY <3>1, <3>2
  <2> QED
    BY <1>9, <2>1
<1>11. r = [i \in 0 .. n |-> IF i = 0 THEN Ledger!Pay(LedgerBalance, N, fee)
                             ELSE Ledger!Apply(r[i - 1], t, i)]
  BY <1>8, <1>10
<1> DEFINE Good == {k \in 0 .. n : r[k] = After(t, k)}
<1>12. 0 \in Good
  BY <1>1, <1>5, <1>11
<1>13. ASSUME NEW k \in 1 .. n, k - 1 \in Good PROVE k \in Good
  <2>1. k \in 0 .. n /\ k # 0 /\ r[k - 1] = After(t, k - 1)
    BY <1>1, <1>13
  <2>2. r[k] = Ledger!Apply(r[k - 1], t, k)
    BY <1>11, <2>1
  <2> QED
    BY <1>6, <2>1, <2>2
<1> HIDE DEF Good
<1>14. \A k \in 0 .. n : k \in Good
  BY <1>1, <1>12, <1>13, Reached
<1> QED
  BY <1>7, <1>14 DEF Good

\* What worker w may have to return is part of the ledger's balance.
LEMMA Covered ==
  ASSUME TInv, NoOverdraft, NEW w \in Worker, NEW x \in Slot,
         IsFiniteSet(Cells(PendingUnits(x))), IsFiniteSet(Cells(NewUnits(x)))
  PROVE  LedgerBalance[x] >= available[x] + Pending(w, x) /\ LedgerBalance[x] \in Int
<1>1. PICK f, g, p : f = PendingUnits(x) /\ g = [f EXCEPT ![w] = {}] /\ p = Pending(w, x)
  OBVIOUS
<1>2. p \in Nat
  BY <1>1, PendingType
<1>3. f = [v \in Worker |-> f[v]] /\ DOMAIN f = Worker /\ f[w] = 1 .. p
  BY <1>1 DEF PendingUnits
<1>4. DOMAIN g = DOMAIN f /\ g[w] = {} /\ \A v \in DOMAIN f : v # w => g[v] = f[v]
  BY <1>1, <1>3
<1>5. /\ IsFiniteSet(f[w]) /\ Cardinality(f[w]) = p /\ IsFiniteSet(g[w]) /\ Cardinality(g[w]) = 0
  BY <1>2, <1>3, <1>4, SizeUpTo, FS_EmptySet
<1>6. IsFiniteSet(Cells(f)) /\ w \in DOMAIN f
  BY <1>1, <1>3
<1>7. /\ IsFiniteSet(Cells(g))
      /\ Cardinality(Cells(g)) = Cardinality(Cells(f)) - Cardinality(f[w]) + Cardinality(g[w])
  BY <1>4, <1>5, <1>6, CellsUpdate
<1>8. Cardinality(Cells(g)) \in Nat /\ Cardinality(Cells(f)) \in Nat
      /\ Cardinality(Cells(NewUnits(x))) \in Nat
  BY <1>6, <1>7, FS_CardinalityType
<1>9. PICK c, d, e, a : /\ c = Cardinality(Cells(f)) /\ d = Cardinality(Cells(g))
                        /\ e = Cardinality(Cells(NewUnits(x))) /\ a = available[x]
  OBVIOUS
<1>10. c \in Nat /\ d \in Nat /\ e \in Nat /\ a \in Int /\ d = c - p + 0
  BY <1>5, <1>7, <1>8, <1>9, ViewTypes
<1>11. a + c + e >= a + p /\ a + c + e \in Int
  BY <1>2, <1>10
<1>12. LedgerBalance[x] = a + c + e
  BY <1>1, <1>9 DEF LedgerBalance
<1> QED
  BY <1>1, <1>9, <1>11, <1>12

\* Each part of the transaction could be paid for out of the ledger.
LEMMA Payable ==
  ASSUME Reachable, TInv', NoOverdraft', NEW w \in Worker, Proceeds(w),
         NEW t, t = cur_tx[w], NEW n, n = op_idx[w], \A i \in 1 .. n : Sound(t, i),
         NEW x \in Slot, NEW k \in 0 .. n
  PROVE  LedgerBalance[x] + Given(UpTo(t, k - 1), x)
           >= Taken(UpTo(t, k - 1), x) + Takes(<<t, k>>, x)
<1>1. TInv /\ NoOverdraft /\ Tracked(w) /\ Afforded(w) /\ Finite(x)
  BY DEF Reachable, EInv, Balanced
<1>2. /\ AddUp(t, k, x)
      /\ Taken(UpTo(t, k), x) + available_side_effects'[w][x] <= Given(UpTo(t, k - 1), x)
  BY <1>1, ProceedsNet
<1>3. LedgerBalance[x] >= available[x] + Pending(w, x) /\ LedgerBalance[x] \in Int
  BY <1>1, Covered DEF Finite
<1>4. PICK l, a, a1, s, s1, T, G, tk :
        /\ l = LedgerBalance[x] /\ a = available[x] /\ a1 = available'[x]
        /\ s = available_side_effects[w][x] /\ s1 = available_side_effects'[w][x]
        /\ T = Taken(UpTo(t, k - 1), x) /\ G = Given(UpTo(t, k - 1), x) /\ tk = Takes(<<t, k>>, x)
  OBVIOUS
<1>5. a \in Int /\ a1 \in Int /\ s \in Int /\ s1 \in Int /\ a1 >= 0 /\ l \in Int
  BY <1>1, <1>3, <1>4 DEF TInv, TypeOK, NoOverdraft, Slot
<1>6. Pending(w, x) = 0 - s
  BY <1>4 DEF Pending, Committing, Proceeds, MovesOn, Working
<1>7. a1 - s1 = a - s
  BY <1>4 DEF Proceeds, Keeps
<1>8. T \in Nat /\ G \in Nat /\ tk \in Nat /\ (T + tk) + s1 <= G
  BY <1>2, <1>4 DEF AddUp
<1>9. l >= a + (0 - s)
  BY <1>3, <1>4, <1>6
<1>10. l + G >= T + tk
  BY <1>5, <1>7, <1>8, <1>9
<1> QED
  BY <1>4, <1>10

LEMMA StepPossible ==
  ASSUME Reachable, TInv', NoOverdraft', NEW w \in Worker, Proceeds(w),
         NEW t, t = cur_tx[w], NEW n, n = op_idx[w], \A i \in 1 .. n : Sound(t, i),
         NEW i \in 1 .. n
  PROVE  Ledger!Possible(After(t, i - 1), t, i)
<1>1. /\ t \in TxId /\ n \in Nat /\ i \in 1 .. Len(Tx[t].operations) /\ i \in 0 .. n
      /\ pc[w] \in Working /\ TInv /\ IdsExact /\ IdsHeld
  BY TxType DEF Proceeds, MovesOn, Cur, Reachable, EInv, ResInv
<1>2. PICK op, src, b : /\ op = Tx[t].operations[i] /\ src = Tx[t].sourceAccount
                        /\ b = After(t, i - 1)
  OBVIOUS
<1>3. op \in Operation /\ op.type \in OpType /\ op.asset \in Asset /\ src \in Account /\ op.amount \in Int
  BY <1>1, <1>2, TxType DEF Operation
<1>4. /\ op.type \in {"PAYMENT", "CREATE_ACCOUNT", "CREATE_SELL_OFFER"} => op.amount > 0
      /\ op.type = "MONEY_PRINTER" => op.amount >= 0
      /\ op.type = "PAYMENT" => op.account \in Existing \cup Ledger!Creates(t, i - 1)
      /\ op.type = "CREATE_ACCOUNT" => op.account \notin Existing \cup Ledger!Creates(t, i - 1)
      /\ op.type = "CANCEL_SELL_OFFER" =>
           /\ <<src, op.offerId>> \in DOMAIN RestingOffer \ Ledger!Cancels(t, i - 1)
           /\ RestingOffer[<<src, op.offerId>>].sellAsset = op.asset
  <2>1. Sound(t, i)
    OBVIOUS
  <2> QED
    BY <1>2, <2>1 DEF Sound, cancel_key
<1>5. ASSUME NEW x \in Slot, Takes(<<t, i>>, x) = op.amount PROVE b[x] >= op.amount
  <2>1. /\ LedgerBalance[x] + Given(UpTo(t, i - 1), x)
             >= Taken(UpTo(t, i - 1), x) + Takes(<<t, i>>, x)
    BY <1>1, Payable
  <2>2. AddUp(t, i, x)
    <3>1. n \in 0 .. Len(Tx[t].operations)
      BY DEF Proceeds, MovesOn, Cur
    <3> QED
      BY <1>1, <3>1, PartsAddUp
  <2>3. PICK l, T, G : /\ l = LedgerBalance[x] /\ T = Taken(UpTo(t, i - 1), x)
                       /\ G = Given(UpTo(t, i - 1), x)
    OBVIOUS
  <2>4. l \in Int
    BY <1>1, <2>3, Covered DEF Reachable, EInv, Balanced, Finite
  <2>5. T \in Nat /\ G \in Nat
    BY <2>2, <2>3 DEF AddUp
  <2>6. l + G >= T + op.amount
    BY <1>5, <2>1, <2>3
  <2>7. b[x] = (l + G) - T
    BY <1>2, <2>3 DEF After
  <2> QED
    BY <1>3, <2>4, <2>5, <2>6, <2>7
<1>6. /\ op.type \in {"PAYMENT", "CREATE_SELL_OFFER"} => b[<<src, op.asset>>] >= op.amount
      /\ op.type = "CREATE_ACCOUNT" => b[<<src, NATIVE_ASSET>>] >= op.amount
  <2>1. <<src, op.asset>> \in Slot /\ <<src, NATIVE_ASSET>> \in Slot /\ i # 0
    BY <1>3, ConstantAssumption DEF Slot
  <2>2. op.type \in {"PAYMENT", "CREATE_SELL_OFFER"} => Takes(<<t, i>>, <<src, op.asset>>) = op.amount
    BY <1>2, <2>1 DEF Takes
  <2>3. op.type = "CREATE_ACCOUNT" => Takes(<<t, i>>, <<src, NATIVE_ASSET>>) = op.amount
    BY <1>2, <2>1 DEF Takes
  <2> QED
    BY <1>5, <2>1, <2>2, <2>3
<1>7. ASSUME op.type = "CREATE_ACCOUNT" PROVE op.account \notin LedgerCreated
  <2>1. OpIs(t, i, "CREATE_ACCOUNT")
    BY <1>1, <1>2, <1>7 DEF OpIs
  <2>2. i \in InHand(w)
    <3>1. i = n => pc[w] # "op"
      BY <1>1, <1>2, <1>7 DEF Proceeds, CurOp, Cur
    <3>2. InHand(w) = 1 .. (IF pc[w] = "op" THEN n - 1 ELSE n)
      BY <1>1, HandProceeds
    <3> QED
      BY <1>1, <3>1, <3>2
  <2>3. op.account \in new_accounts[w]
    BY <1>1, <1>2, <2>1, <2>2 DEF IdsExact, CreatedBy
  <2>4. ~Committing(w)
    BY <1>1 DEF Committing, Working
  <2> QED
    BY <2>3, <2>4 DEF LedgerCreated
<1>8. ASSUME op.type = "CANCEL_SELL_OFFER" PROVE <<src, op.offerId>> \notin LedgerCancelled
  <2>1. IsCancel(t, i) /\ cancel_key(t, i) = <<src, op.offerId>>
    BY <1>1, <1>2, <1>8, TxType DEF IsCancel, cancel_key
  <2>2. CASE i = n
    BY <2>1, <2>2 DEF Proceeds, MovesOn, LedgerCancelled
  <2>3. CASE i # n
    <3>1. i \in CompletedOps(w)
      BY <1>1, <2>3, HandProceeds
    <3>2. Speculating(w)
      BY <1>1, ConstantAssumption DEF Speculating, Working
    <3> QED
      BY <2>1, <3>1, <3>2 DEF LedgerCancelled
  <2> QED
    BY <2>2, <2>3
<1>9. CASE op.type = "PAYMENT"
  BY <1>2, <1>4, <1>6, <1>9 DEF Ledger!Possible
<1>10. CASE op.type = "MONEY_PRINTER"
  BY <1>2, <1>4, <1>10 DEF Ledger!Possible
<1>11. CASE op.type = "CREATE_ACCOUNT"
  BY <1>2, <1>4, <1>6, <1>7, <1>11 DEF Ledger!Possible
<1>12. CASE op.type = "CREATE_SELL_OFFER"
  BY <1>2, <1>4, <1>6, <1>12 DEF Ledger!Possible
<1>13. CASE op.type = "CANCEL_SELL_OFFER"
  BY <1>2, <1>4, <1>8, <1>13 DEF Ledger!Possible
<1> QED
  BY <1>3, <1>9, <1>10, <1>11, <1>12, <1>13 DEF OpType
-----------------------------------------------------------------------------
(***************************************************************************)
(* Refinement, step by step.                                               *)
(***************************************************************************)
LEMMA OutcomeIs ==
  ASSUME NEW t \in TxId
  PROVE  LedgerOutcome[t] = IF t \in Effective THEN "committed"
                            ELSE IF status[t] \in {"QUEUED", "RUNNING"} THEN "open" ELSE "left out"
BY DEF LedgerOutcome, Effective, Committing

LEMMA OutcomePrimed ==
  ASSUME NEW t \in TxId
  PROVE  LedgerOutcome'[t] = IF t \in Effective' THEN "committed"
                             ELSE IF status'[t] \in {"QUEUED", "RUNNING"} THEN "open" ELSE "left out"
BY DEF LedgerOutcome, Effective, Committing

LEMMA OutcomeDomain ==
  LedgerOutcome = [t \in TxId |-> LedgerOutcome[t]] /\ LedgerOutcome' = [t \in TxId |-> LedgerOutcome'[t]]
BY DEF LedgerOutcome

\* The last operation succeeds: the whole transaction takes effect.
LEMMA EntersLedger ==
  ASSUME Reachable, Reachable', NEW w \in Worker, Alone(w), Effect(w),
         pc[w] # "commit", pc'[w] = "commit"
  PROVE  \E t \in TxId : Ledger!Commit(t)
<1>1. /\ TInv /\ NoOverdraft /\ ResInv /\ OneRunner /\ IdsHeld /\ EmptyView /\ WellFormed /\ OpsSound
      /\ Tracked(w) /\ Afforded(w) /\ \A x \in Slot : Finite(x)
  BY DEF Reachable, ResInv, LogInv, EInv, Balanced
<1>2. TInv' /\ NoOverdraft' /\ OpsSoundOf(w)'
  <2>1. TInv' /\ NoOverdraft' /\ OpsSound'
    BY DEF Reachable, EInv
  <2> QED
    BY <2>1 DEF OpsSound, OpsSoundOf
<1>3. PICK t, n : t = cur_tx[w] /\ n = op_idx[w]
  OBVIOUS
<1>4. Proceeds(w) /\ t \notin Effective /\ Effective' = Effective \cup {t}
  BY <1>1, <1>3, EffectiveStep
<1>5. t \in TxId /\ n = Len(Tx[t].operations) /\ n \in Nat /\ pc[w] \in Working /\ status' = status
  BY <1>3, <1>4, TxType DEF Proceeds, MovesOn, Cur
<1>6. \A i \in 1 .. n : Sound(t, i)
  <2>1. InHand(w)' = 1 .. n /\ cur_tx'[w] = t
    BY <1>1, <1>3, <1>4, HandProceeds DEF Proceeds, MovesOn
  <2> QED
    BY <1>2, <2>1, SoundConstant DEF OpsSoundOf, Active
<1>7. \A x \in Slot :
        /\ LedgerBalance[x] \in Int /\ LedgerBalance'[x] \in Int /\ AddUp(t, n, x)
        /\ LedgerBalance'[x] + Taken(UpTo(t, n), x) = LedgerBalance[x] + Given(UpTo(t, n), x)
  BY <1>1, <1>2, <1>3, MoneyStep DEF Finite
<1>8. \A k \in 0 .. n : Ledger!Run(t)[k] = After(t, k)
  BY <1>5, <1>6, <1>7, RunIs
<1>9. status[t] = "RUNNING" /\ HoldsSeqNum(t)
  BY <1>1, <1>3, <1>5, Runners DEF HoldsSeqNum, Working
<1>10. LedgerOutcome[t] = "open" /\ LedgerOutcome' = [LedgerOutcome EXCEPT ![t] = "committed"]
  <2>1. LedgerOutcome[t] = "open"
    BY <1>4, <1>5, <1>9, OutcomeIs
  <2>2. ASSUME NEW u \in TxId PROVE LedgerOutcome'[u] = IF u = t THEN "committed" ELSE LedgerOutcome[u]
    BY <1>4, <1>5, OutcomeIs, OutcomePrimed
  <2> QED
    BY <1>5, <2>1, <2>2, OutcomeDomain
<1>11. SeqNumUsable(t)
  BY <1>1, <1>5, <1>9 DEF WellFormed
<1>12. <<Tx[t].sourceAccount, Tx[t].sequenceNumber>> \notin LedgerUsed
  <2>1. Speculating(w) /\ pc[w] # "reserve"
    BY <1>3, <1>5, ConstantAssumption DEF Speculating, Working
  <2> QED
    BY <1>3, <2>1 DEF LedgerUsed, Source, Cur
<1>13. LedgerBalance[<<Tx[t].sourceAccount, NATIVE_ASSET>>] >= fee_required(t)
  <2>1. PICK x, fee, l : /\ x = <<Tx[t].sourceAccount, NATIVE_ASSET>> /\ fee = fee_required(t)
                         /\ l = LedgerBalance[x]
    OBVIOUS
  <2>2. x \in Slot /\ fee \in Nat
    BY <1>5, <2>1, TxType, ConstantAssumption DEF Slot
  <2>3. 0 \in 0 .. n /\ 0 - 1 = -1
    BY <1>5
  <2>4. l + Given(UpTo(t, 0 - 1), x) >= Taken(UpTo(t, 0 - 1), x) + Takes(<<t, 0>>, x)
    BY <1>2, <1>3, <1>4, <1>6, <2>1, <2>2, <2>3, Payable
  <2>5. Takes(<<t, 0>>, x) = fee
    BY <2>1 DEF Takes
  <2>6. Given(UpTo(t, 0 - 1), x) = 0 /\ Taken(UpTo(t, 0 - 1), x) = 0
    BY <2>3, NoParts
  <2>7. l \in Int
    BY <1>7, <2>1, <2>2
  <2>8. l >= fee
    BY <2>2, <2>4, <2>5, <2>6, <2>7
  <2> QED
    BY <2>1, <2>8
<1>14. \A i \in 1 .. n : Ledger!Possible(Ledger!Run(t)[i - 1], t, i)
  <2> SUFFICES ASSUME NEW i \in 1 .. n PROVE Ledger!Possible(Ledger!Run(t)[i - 1], t, i)
    OBVIOUS
  <2>1. Ledger!Possible(After(t, i - 1), t, i)
    BY <1>2, <1>3, <1>4, <1>6, StepPossible
  <2>2. i - 1 \in 0 .. n
    BY <1>5
  <2>3. Ledger!Run(t)[i - 1] = After(t, i - 1)
    BY <1>8, <2>2
  <2> QED
    BY <2>1, <2>3
<1>15. LedgerBalance' = Ledger!Run(t)[n]
  <2>1. Ledger!Run(t)[n] = After(t, n)
    BY <1>5, <1>8
  <2>2. ASSUME NEW x \in Slot PROVE LedgerBalance'[x] = After(t, n)[x]
    <3>1. PICK l, l1, T, G : /\ l = LedgerBalance[x] /\ l1 = LedgerBalance'[x]
                             /\ T = Taken(UpTo(t, n), x) /\ G = Given(UpTo(t, n), x)
      OBVIOUS
    <3>2. l \in Int /\ l1 \in Int /\ T \in Nat /\ G \in Nat /\ l1 + T = l + G
      BY <1>7, <3>1 DEF AddUp
    <3>3. l1 = (l + G) - T
      BY <3>2
    <3> QED
      BY <3>1, <3>3 DEF After
  <2>3. LedgerBalance' = [x \in Slot |-> LedgerBalance'[x]]
    BY DEF LedgerBalance, Slot
  <2>4. After(t, n) = [x \in Slot |-> After(t, n)[x]]
    BY DEF After
  <2> QED
    BY <2>1, <2>2, <2>3, <2>4
<1>16. /\ LedgerCreated' = LedgerCreated \cup Ledger!Creates(t, n)
       /\ LedgerUsed' = LedgerUsed \cup {<<Tx[t].sourceAccount, Tx[t].sequenceNumber>>}
       /\ LedgerCancelled' = LedgerCancelled \cup Ledger!Cancels(t, n)
       /\ LedgerOffers' = LedgerOffers \cup Ledger!Sells(t, n)
  BY <1>4, <1>5, MoreHoldings
<1>17. Ledger!Commit(t)
  BY <1>5, <1>10, <1>11, <1>12, <1>13, <1>14, <1>15, <1>16 DEF Ledger!Commit
<1> QED
  BY <1>5, <1>17

\* What does not let a transaction take effect leaves one out, or is not seen.
LEMMA OtherSteps ==
  ASSUME Reachable, Reachable', NEW w \in Worker, Alone(w), Effect(w),
         pc[w] = "commit" \/ pc'[w] # "commit"
  PROVE  (\E t \in TxId : Ledger!LeaveOut(t)) \/ UNCHANGED Ledger!ledger
<1>1. /\ TInv /\ NoOverdraft /\ OneRunner /\ IdsHeld /\ EmptyView
      /\ Tracked(w) /\ Afforded(w) /\ \A x \in Slot : Finite(x)
  BY DEF Reachable, ResInv, LogInv, EInv, Balanced
<1>2. TInv' /\ NoOverdraft' /\ OpsSoundOf(w)'
  <2>1. TInv' /\ NoOverdraft' /\ OpsSound'
    BY DEF Reachable, EInv
  <2> QED
    BY <2>1 DEF OpsSound, OpsSoundOf
<1>3. Effective' = Effective
  BY <1>1, EffectiveStep
<1>4. /\ LedgerCreated' = LedgerCreated /\ LedgerUsed' = LedgerUsed
      /\ LedgerCancelled' = LedgerCancelled /\ LedgerOffers' = LedgerOffers
  BY <1>3, SameHoldings
<1>5. LedgerBalance' = LedgerBalance
  <2>1. \A x \in Slot : LedgerBalance'[x] = LedgerBalance[x]
    BY <1>1, <1>2, MoneyStep DEF Finite
  <2>2. LedgerBalance' = [x \in Slot |-> LedgerBalance'[x]]
    BY DEF LedgerBalance, Slot
  <2>3. LedgerBalance = [x \in Slot |-> LedgerBalance[x]]
    BY DEF LedgerBalance
  <2> QED
    BY <2>1, <2>2, <2>3
<1>6. status \in [TxId -> Statuses \cup {"ABSENT", "QUEUED", "RUNNING"}]
  BY <1>1 DEF TInv, TypeOK
<1>7. ASSUME NEW t \in TxId, status[t] \in {"QUEUED", "RUNNING"}, t \notin Effective,
             NEW s \in Statuses, status' = [status EXCEPT ![t] = s]
      PROVE  Ledger!LeaveOut(t)
  <2>1. s \notin {"QUEUED", "RUNNING"}
    BY DEF Statuses
  <2>2. LedgerOutcome[t] = "open"
    BY <1>7, OutcomeIs
  <2>3. ASSUME NEW u \in TxId PROVE LedgerOutcome'[u] = IF u = t THEN "left out" ELSE LedgerOutcome[u]
    <3>1. status'[u] = IF u = t THEN s ELSE status[u]
      BY <1>6, <1>7
    <3> QED
      BY <1>3, <1>7, <2>1, <3>1, OutcomeIs, OutcomePrimed
  <2>4. LedgerOutcome' = [LedgerOutcome EXCEPT ![t] = "left out"]
    BY <1>7, <2>3, OutcomeDomain
  <2> QED
    BY <1>4, <1>5, <2>2, <2>4 DEF Ledger!LeaveOut
<1>8. ASSUME \A t \in TxId : LedgerOutcome'[t] = LedgerOutcome[t] PROVE UNCHANGED Ledger!ledger
  <2>1. LedgerOutcome' = LedgerOutcome
    BY <1>8, OutcomeDomain
  <2> QED
    BY <1>4, <1>5, <2>1 DEF Ledger!ledger
<1>9. CASE Refuses(w)
  <2>1. PICK t \in TxId, s \in Statuses \ {"SUCCESS"} :
          status[t] = "QUEUED" /\ status' = [status EXCEPT ![t] = s]
    BY <1>9 DEF Refuses
  <2>2. \A v \in Worker : cur_tx[v] # t
    BY <1>1, <2>1, ConstantAssumption DEF OneRunner
  <2>3. t \notin Effective
    BY <2>1, <2>2 DEF Effective
  <2> QED
    BY <1>7, <2>1, <2>3
<1>10. CASE Leaves(w)
  <2>1. PICK t, s : /\ t = cur_tx[w] /\ t \in TxId /\ s \in Statuses
                    /\ status' = [status EXCEPT ![t] = s]
    BY <1>10 DEF Leaves
  <2>2. status[t] = "RUNNING" /\ \A v \in Worker : cur_tx[v] = t => v = w
    BY <1>1, <2>1, Runners
  <2>3. t \notin Effective
    BY <1>10, <2>1, <2>2 DEF Effective, Leaves
  <2> QED
    BY <1>7, <2>1, <2>2, <2>3
<1>11. CASE Starts(w)
  <2>1. PICK t \in TxId : status[t] = "QUEUED" /\ status' = [status EXCEPT ![t] = "RUNNING"]
    BY <1>11 DEF Starts
  <2>2. ASSUME NEW u \in TxId PROVE LedgerOutcome'[u] = LedgerOutcome[u]
    <3>1. status'[u] \in {"QUEUED", "RUNNING"} <=> status[u] \in {"QUEUED", "RUNNING"}
      BY <1>6, <2>1
    <3> QED
      BY <1>3, <3>1, OutcomeIs, OutcomePrimed
  <2> QED
    BY <1>8, <2>2
<1>12. CASE Returns(w)
  <2>1. /\ cur_tx[w] \in TxId /\ pc[w] = "commit"
        /\ status' = [status EXCEPT ![cur_tx[w]] = "SUCCESS"]
    BY <1>12 DEF Returns
  <2>2. cur_tx[w] \in Effective
    BY <2>1 DEF Effective
  <2>3. ASSUME NEW u \in TxId PROVE LedgerOutcome'[u] = LedgerOutcome[u]
    <3>1. u # cur_tx[w] => status'[u] = status[u]
      BY <1>6, <2>1
    <3> QED
      BY <1>3, <2>2, <3>1, OutcomeIs, OutcomePrimed
  <2> QED
    BY <1>8, <2>3
<1>13. CASE ~Refuses(w) /\ ~Leaves(w) /\ ~Starts(w) /\ ~Returns(w)
  <2>1. status' = status
    BY <1>13 DEF Effect, Secures, Reserves, Retries, Enters, Proceeds, MovesOn, Abandons, GivesUp,
         TakesBack, Undoes, Refunds, Releases, Flushes, Publishes
  <2>2. \A u \in TxId : LedgerOutcome'[u] = LedgerOutcome[u]
    BY <1>3, <2>1, OutcomeIs, OutcomePrimed
  <2> QED
    BY <1>8, <2>2
<1> QED
  BY <1>9, <1>10, <1>11, <1>12, <1>13

LEMMA LedgerStep ==
  ASSUME Reachable, [Next]_vars
  PROVE  [Ledger!Next]_(Ledger!ledger)
<1>1. Reachable'
  BY ReachableInductive
<1>2. ASSUME NEW w \in Worker, WorkerStep(w) PROVE [Ledger!Next]_(Ledger!ledger)
  <2>1. Alone(w)
    BY <1>2, StepAlone DEF Reachable
  <2>2. Effect(w)
    BY <1>2, StepEffect DEF Reachable, ResInv, LogInv, EInv
  <2> QED
    BY <1>1, <2>1, <2>2, EntersLedger, OtherSteps DEF Ledger!Next
<1>3. ASSUME UNCHANGED <<balances, reservations, status, cur_tx, view, pc, op_idx>>
      PROVE  [Ledger!Next]_(Ledger!ledger)
  <2>1. /\ available' = available /\ uncommitted_db' = uncommitted_db /\ status' = status
        /\ cur_tx' = cur_tx /\ available_buffer' = available_buffer
        /\ available_side_effects' = available_side_effects /\ new_accounts' = new_accounts
        /\ new_balance' = new_balance /\ pc' = pc
    BY <1>3 DEF balances, reservations, view
  <2>2. Effective' = Effective /\ LedgerOutcome' = LedgerOutcome
    BY <2>1 DEF Effective, LedgerOutcome, Committing
  <2>3. LedgerBalance' = LedgerBalance
    BY <2>1 DEF LedgerBalance, PendingUnits, NewUnits, Pending, Committing, Slot, Cells
  <2>4. /\ LedgerCreated' = LedgerCreated /\ LedgerUsed' = LedgerUsed
        /\ LedgerCancelled' = LedgerCancelled /\ LedgerOffers' = LedgerOffers
    BY <1>1, <2>2, SameHoldings
  <2> QED
    BY <2>2, <2>3, <2>4 DEF Ledger!ledger
<1>4. CASE FinishBuild
  BY <1>3, <1>4 DEF FinishBuild
<1>5. CASE UNCHANGED vars
  <2>1. UNCHANGED <<balances, reservations, status, cur_tx, view, pc, op_idx>>
    BY <1>5 DEF vars, driver
  <2> QED
    BY <1>3, <2>1
<1> QED
  BY <1>2, <1>4, <1>5 DEF Next, Finished

LEMMA LedgerInit == Init => Ledger!Init
<1> SUFFICES ASSUME Init PROVE Ledger!Init
  OBVIOUS
<1>1. Reachable
  BY ReachableInit
<1>2. /\ \A w \in Worker : pc[w] = "idle"
      /\ \A t \in TxId : status[t] \in {"QUEUED", "ABSENT"}
  BY DEF Init
<1>3. Effective = {}
  BY <1>2 DEF Effective
<1>4. LedgerCreated = {} /\ LedgerUsed = {} /\ LedgerCancelled = {} /\ LedgerOffers = {}
  BY <1>1, <1>3, CreatedIs, UsedIs, CancelledIs, SoldIs
     DEF CreatedExact, UsedExact, CancelledExact, SoldExact
<1>5. LedgerOutcome \in [TxId -> {"open", "left out"}]
  <2>1. \A t \in TxId : LedgerOutcome[t] \in {"open", "left out"}
    BY <1>3, OutcomeIs
  <2> QED
    BY <2>1, OutcomeDomain
<1>6. LedgerBalance = InitAvailable
  <2>1. ASSUME NEW x \in Slot PROVE LedgerBalance[x] = InitAvailable[x]
    <3>1. LedgerBalance[x] + Taken(PartsOf(Effective), x) = InitAvailable[x] + Given(PartsOf(Effective), x)
      BY <1>1 DEF Reachable, EInv, Balanced
    <3>2. PartsOf(Effective) = {}
      BY <1>3 DEF PartsOf
    <3>3. Taken({}, x) = 0 /\ Given({}, x) = 0
      BY PartsNone
    <3>4. InitAvailable[x] \in Nat /\ LedgerBalance[x] \in Int
      <4>1. PICK f, g : f = PendingUnits(x) /\ g = NewUnits(x)
        OBVIOUS
      <4>2. IsFiniteSet(Cells(f)) /\ IsFiniteSet(Cells(g))
        BY <1>1, <4>1 DEF Reachable, EInv, Balanced, Finite
      <4>3. Cardinality(Cells(f)) \in Nat /\ Cardinality(Cells(g)) \in Nat
        BY <4>2, FS_CardinalityType
      <4>4. available[x] \in Int
        BY <1>1 DEF Reachable, TInv, TypeOK
      <4> QED
        BY <4>1, <4>3, <4>4, ConstantAssumption DEF LedgerBalance
    <3> QED
      BY <3>1, <3>2, <3>3, <3>4
  <2>2. LedgerBalance = [x \in Slot |-> LedgerBalance[x]]
    BY DEF LedgerBalance
  <2>3. InitAvailable = [x \in Slot |-> InitAvailable[x]]
    BY ConstantAssumption
  <2> QED
    BY <2>1, <2>2, <2>3
<1> QED
  BY <1>4, <1>5, <1>6 DEF Ledger!Init

\* Every behaviour of the concurrent, speculative block production is one of
\* the atomic ledger, under the mapping of TxRefinement: some sequential order
\* of whole transactions, each paid for step by step, explains it.
\* Code: process_transaction over BufferedMemoryDatabaseView, with all its
\* failure paths.
THEOREM LedgerImplemented == Spec => ImplementsLedger
<1>1. Spec => []Reachable
  BY ReachableInit, ReachableInductive, PTL DEF Spec
<1>2. Reachable /\ [Next]_vars => [Ledger!Next]_(Ledger!ledger)
  BY LedgerStep
<1>3. Init => Ledger!Init
  BY LedgerInit
<1> QED
  BY <1>1, <1>2, <1>3, PTL DEF Spec, ImplementsLedger, Ledger!Spec
=============================================================================
