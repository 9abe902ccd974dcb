--------------------------- MODULE AtomicLedger ---------------------------
(***************************************************************************)
(* What block production promises to the outside: transactions take effect *)
(* one at a time, each as a whole, each only if the ledger can pay for     *)
(* every step of it; a transaction may also be left out, without trace.    *)
(***************************************************************************)
EXTENDS Integers, Sequences

CONSTANTS Account, Existing, Asset, NATIVE_ASSET, TxId, Tx,
          RestingOffer, InitAvailable,
          Fee(_),              \* the fee of a transaction
          SeqNumUsable(_)      \* its sequence number is within the window

VARIABLES
  balance,       \* <<account, asset>> -> amount, accounts created included
  created,       \* account ids created by the block
  used,          \* <<account, sequence number>> pairs spent by the block
  cancelled,     \* resting offers withdrawn
  offers,        \* offers created
  outcome        \* TxId -> "open", "committed" or "left out"

ledger == <<balance, created, used, cancelled, offers, outcome>>

\* The operations of t that have this type, among the first n.
OpsOf(t, type, n) == {i \in 1 .. n : Tx[t].operations[i].type = type}

\* What they bring about, besides moving money.
Creates(t, n) == {Tx[t].operations[i].account : i \in OpsOf(t, "CREATE_ACCOUNT", n)}
Cancels(t, n) == {<<Tx[t].sourceAccount, Tx[t].operations[i].offerId>> :
                    i \in OpsOf(t, "CANCEL_SELL_OFFER", n)}
Sells(t, n) == {[owner     |-> Tx[t].sourceAccount,
                 offerId   |-> Tx[t].sequenceNumber + i - 1,
                 sellAsset |-> Tx[t].operations[i].asset,
                 amount    |-> Tx[t].operations[i].amount] :
                  i \in OpsOf(t, "CREATE_SELL_OFFER", n)}

Pay(b, x, amount) == [b EXCEPT ![x] = @ - amount]
Receive(b, x, amount) == [b EXCEPT ![x] = @ + amount]

\* The balances b after operation i of t.
Apply(b, t, i) ==
  LET op == Tx[t].operations[i]
      src == Tx[t].sourceAccount
  IN CASE op.type = "PAYMENT" ->
            Receive(Pay(b, <<src, op.asset>>, op.amount),
                    <<op.account, op.asset>>, op.amount)
       [] op.type = "MONEY_PRINTER" -> Receive(b, <<src, op.asset>>, op.amount)
       [] op.type = "CREATE_ACCOUNT" ->
            Receive(Pay(b, <<src, NATIVE_ASSET>>, op.amount),
                    <<op.account, NATIVE_ASSET>>, op.amount)
       [] op.type = "CREATE_SELL_OFFER" -> Pay(b, <<src, op.asset>>, op.amount)
       [] op.type = "CANCEL_SELL_OFFER" ->
            Receive(b, <<src, op.asset>>, RestingOffer[<<src, op.offerId>>].amount)

\* Operation i of t is possible when the balances are b: it can be paid for,
\* and what it names is there, or is not there yet.
Possible(b, t, i) ==
  LET op == Tx[t].operations[i]
      src == Tx[t].sourceAccount
  IN CASE op.type = "PAYMENT" ->
            /\ op.amount > 0 /\ b[<<src, op.asset>>] >= op.amount
            /\ op.account \in Existing \cup Creates(t, i - 1)
       [] op.type = "MONEY_PRINTER" -> op.amount >= 0
       [] op.type = "CREATE_ACCOUNT" ->
            /\ op.amount > 0 /\ b[<<src, NATIVE_ASSET>>] >= op.amount
            /\ op.account \notin Existing \cup created \cup Creates(t, i - 1)
       [] op.type = "CREATE_SELL_OFFER" ->
            op.amount > 0 /\ b[<<src, op.asset>>] >= op.amount
       [] op.type = "CANCEL_SELL_OFFER" ->
            /\ <<src, op.offerId>> \in DOMAIN RestingOffer
                                         \ (cancelled \cup Cancels(t, i - 1))
            /\ RestingOffer[<<src, op.offerId>>].sellAsset = op.asset

\* The balances after the fee of t, and after each of its operations.
Run(t) ==
  LET after[i \in 0 .. Len(Tx[t].operations)] ==
        IF i = 0 THEN Pay(balance, <<Tx[t].sourceAccount, NATIVE_ASSET>>, Fee(t))
        ELSE Apply(after[i - 1], t, i)
  IN after

Init ==
  /\ balance = InitAvailable
  /\ created = {}
  /\ used = {}
  /\ cancelled = {}
  /\ offers = {}
  /\ outcome \in [TxId -> {"open", "left out"}]

Commit(t) ==
  LET n == Len(Tx[t].operations)
      id == <<Tx[t].sourceAccount, Tx[t].sequenceNumber>>
  IN /\ outcome[t] = "open"
     /\ outcome' = [outcome EXCEPT ![t] = "committed"]
     /\ SeqNumUsable(t)
     /\ id \notin used
     /\ balance[<<Tx[t].sourceAccount, NATIVE_ASSET>>] >= Fee(t)
     /\ \A i \in 1 .. n : Possible(Run(t)[i - 1], t, i)
     /\ balance' = Run(t)[n]
     /\ created' = created \cup Creates(t, n)
     /\ used' = used \cup {id}
     /\ cancelled' = cancelled \cup Cancels(t, n)
     /\ offers' = offers \cup Sells(t, n)

LeaveOut(t) ==
  /\ outcome[t] = "open"
  /\ outcome' = [outcome EXCEPT ![t] = "left out"]
  /\ UNCHANGED <<balance, created, used, cancelled, offers>>

Next == \E t \in TxId : Commit(t) \/ LeaveOut(t)

Spec == Init /\ [][Next]_ledger
=============================================================================
