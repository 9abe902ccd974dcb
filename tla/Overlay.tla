------------------------------ MODULE Overlay ------------------------------
(***************************************************************************)
(* The overlay network that floods batches of transactions to the mempools *)
(* of all replicas (overlay/, utils/nonblocking_rpc_client.h, the data     *)
(* stream of synthetic_data_generator/synthetic_data_stream.cc).           *)
(*                                                                         *)
(* On every replica a flooder thread loads numbered batches, gives them to *)
(* the own mempool and to one client per other replica; every client has a *)
(* thread that forwards its batches by remote calls and asks for the size  *)
(* of the other mempool; and the server's thread receives batches and      *)
(* notes the highest batch number of every sender.  A remote call may fail *)
(* before it is delivered, or after.                                       *)
(***************************************************************************)
EXTENDS Naturals, Sequences, SequencesExt, FiniteSetsExt

CONSTANTS
  Replicas,         \* the replicas of the configuration
  NumBatches,       \* files of every replica's data stream
  Garbled,          \* the <<sender, batch>> whose bytes are no transactions
  FLOOD_THRESHOLD,  \* mempool size above which a flooder pauses, in batches
  MaxFaults         \* bound on failing calls

ASSUME OverlayAssumption ==
  /\ Replicas # {} /\ IsFiniteSet(Replicas)
  /\ NumBatches \in [Replicas -> Nat] /\ Garbled \subseteq Replicas \X (Nat \ {0})
  /\ FLOOD_THRESHOLD \in Nat /\ MaxFaults \in Nat

VARIABLES
  flooder,    \* per replica: its buffer, the next file, whether it has returned
  client,     \* per pair <<from, to>>: the fields of OverlayClient and its thread
  max_seen,   \* per replica: max_seen_batch_nums of its handler
  pool_size,  \* per replica: total_size of its mempool, in batches
  received,   \* per replica: the <<sender, batch>> whose transactions came in
  faults      \* calls that failed

overlay_vars == <<flooder, client, max_seen, pool_size, received, faults>>

Pairs == {p \in Replicas \X Replicas : p[1] # p[2]}
Empty == [loaded |-> FALSE]

overlay_Init ==
  /\ flooder = [r \in Replicas |-> [buffer |-> Empty, next |-> 1, returned |-> FALSE]]
  /\ client = [p \in Pairs |-> [txs_to_forward |-> <<>>, to_forward |-> <<>>, foreign |-> 0,
                                local |-> 0, connected |-> FALSE, repoll |-> FALSE, pc |-> "wait"]]
  /\ max_seen = [r \in Replicas |-> [s \in Replicas |-> 0]]
  /\ pool_size = [r \in Replicas |-> 0]
  /\ received = [r \in Replicas |-> {}]
  /\ faults = 0

----------------------------------------------------------------------------
(* The server of a replica.                                                *)

Larger(m, n) == IF m < n THEN n ELSE m

\* log_batch_receipt and chunkify_and_add_to_mempool_buffer, for the own
\* batches (SelfOverlayClient) and for those of others (OverlayHandler).  A
\* batch that cannot be parsed is dropped; the handler has noted its number
\* by then, the own client has not.
Receive(r, s, b) ==
  /\ max_seen' = IF <<s, b>> \in Garbled /\ r = s THEN max_seen
                 ELSE [max_seen EXCEPT ![r][s] = Larger(@, b)]
  /\ IF <<s, b>> \in Garbled THEN UNCHANGED <<received, pool_size>>
     ELSE /\ received' = [received EXCEPT ![r] = @ \cup {<<s, b>>}]
          /\ pool_size' = [pool_size EXCEPT ![r] = @ + 1]

\* The batch a replica may send: one more than every replica was seen to send.
tx_batch_limit_Seen(r) == Min({max_seen[r][s] : s \in Replicas})
tx_batch_limit_Fastest(r) == Max({max_seen[r][s] : s \in Replicas}) + 1
tx_batch_limit(r) == Min({max_seen[r][s] : s \in Replicas}) + 1

\* The mempool's own threads remove what blocks have confirmed, and keep the
\* rest: transactions that were not chosen, or whose account is not known yet.
Drain(r) ==
  /\ \E left \in 0..pool_size[r] :
       left # pool_size[r] /\ pool_size' = [pool_size EXCEPT ![r] = left]
  /\ UNCHANGED <<flooder, client, max_seen, received, faults>>

----------------------------------------------------------------------------
(* The flooder of a replica.                                               *)

\* The cached size counts the batches on their way.
get_cached_foreign_mempool_size(c) == c.foreign + c.local

get_min_mempool_size(r) ==
  Min({pool_size[r]} \cup
      {get_cached_foreign_mempool_size(client[p]) :
         p \in {q \in Pairs : q[1] = r /\ client[q].connected}})

\* load_txs_unparsed; behind the last file there is a buffer without data.
LoadTxs(r) ==
  /\ ~flooder[r].returned /\ ~flooder[r].buffer.loaded
  /\ get_min_mempool_size(r) < FLOOD_THRESHOLD
  /\ LET n == flooder[r].next
         more == n <= NumBatches[r]
     IN flooder' = [flooder EXCEPT
          ![r].buffer = [loaded |-> TRUE, number |-> n, data |-> more, finished |-> ~more],
          ![r].next = IF more THEN n + 1 ELSE n]
  /\ UNCHANGED <<client, max_seen, pool_size, received, faults>>

\* A batch within the limit goes to the own mempool and to every client.  The
\* code then reads the finished flag of the buffer it has just emptied, which
\* still holds what it held.
SendTxs(r) ==
  /\ ~flooder[r].returned /\ flooder[r].buffer.loaded
  /\ get_min_mempool_size(r) < FLOOD_THRESHOLD
  /\ flooder[r].buffer.number <= tx_batch_limit(r)
  /\ LET buffer == flooder[r].buffer
         b == buffer.number
     IN /\ flooder' = [flooder EXCEPT ![r].buffer = Empty, ![r].returned = buffer.finished]
        /\ IF buffer.data
           THEN /\ Receive(r, r, b)
                /\ client' = [p \in Pairs |->
                     IF p[1] # r THEN client[p]
                     ELSE [client[p] EXCEPT !.txs_to_forward = Append(@, b), !.local = @ + 1]]
           ELSE UNCHANGED <<max_seen, received, pool_size, client>>
  /\ UNCHANGED faults

\* The flooder returns although the end of the stream is above the limit.
StopFlooding(r) ==
  /\ ~flooder[r].returned /\ flooder[r].buffer.loaded
  /\ get_min_mempool_size(r) < FLOOD_THRESHOLD
  /\ flooder[r].buffer.number > tx_batch_limit(r) /\ flooder[r].buffer.finished
  /\ flooder' = [flooder EXCEPT ![r].returned = TRUE]
  /\ UNCHANGED <<client, max_seen, pool_size, received, faults>>

\* background_poll_thread: every client is told to ask again; nothing ever
\* takes the request back.
PollAll(r) ==
  /\ \E p \in Pairs : p[1] = r /\ ~client[p].repoll
  /\ client' = [p \in Pairs |-> IF p[1] = r THEN [client[p] EXCEPT !.repoll = TRUE] ELSE client[p]]
  /\ UNCHANGED <<flooder, max_seen, pool_size, received, faults>>

----------------------------------------------------------------------------
(* The thread of a client: OverlayClient::run.                             *)

\* Wait for work and take all of it.
TakeBatches(p) ==
  /\ client[p].pc = "wait" /\ (client[p].repoll \/ client[p].txs_to_forward # <<>>)
  /\ client' = [client EXCEPT ![p].to_forward = client[p].txs_to_forward,
                              ![p].txs_to_forward = <<>>,
                              ![p].pc = IF client[p].txs_to_forward = <<>> THEN "poll" ELSE "forward"]
  /\ UNCHANGED <<flooder, max_seen, pool_size, received, faults>>

\* The first batch arrives and the call returns.  A connection counts as open
\* from the first attempt to open one.
Delivered(c) ==
  [c EXCEPT !.to_forward = Tail(@), !.local = @ - 1, !.foreign = @ + 1, !.connected = TRUE,
            !.pc = IF Len(c.to_forward) = 1 THEN "poll" ELSE "forward"]
ForwardTxs(p) ==
  /\ client[p].pc = "forward"
  /\ Receive(p[2], p[1], Head(client[p].to_forward))
  /\ client' = [client EXCEPT ![p] = Delivered(@)]
  /\ UNCHANGED <<flooder, faults>>

\* A call that failed: what is left goes back, behind what was queued meanwhile.
Requeued_Dropped(c) == [c EXCEPT !.to_forward = <<>>, !.connected = TRUE, !.pc = "poll"]
Requeued(c) ==
  [c EXCEPT !.txs_to_forward = @ \o c.to_forward, !.to_forward = <<>>, !.connected = TRUE,
            !.pc = "poll"]
ForwardFails(p) ==
  /\ client[p].pc = "forward" /\ faults < MaxFaults
  /\ \/ UNCHANGED <<max_seen, received, pool_size>>
     \/ Receive(p[2], p[1], Head(client[p].to_forward))
  /\ client' = [client EXCEPT ![p] = Requeued(@)]
  /\ faults' = faults + 1
  /\ UNCHANGED flooder

\* Ask for the size of the other mempool; the call may fail.
PollSize(p) ==
  /\ client[p].pc = "poll"
  /\ \/ /\ client' = [client EXCEPT ![p].foreign = pool_size[p[2]], ![p].connected = TRUE,
                                    ![p].pc = "wait"]
        /\ UNCHANGED faults
     \/ /\ faults < MaxFaults
        /\ client' = [client EXCEPT ![p].connected = TRUE, ![p].pc = "wait"]
        /\ faults' = faults + 1
  /\ UNCHANGED <<flooder, max_seen, pool_size, received>>

ClientThread(p) == TakeBatches(p) \/ ForwardTxs(p) \/ ForwardFails(p) \/ PollSize(p)
FlooderThread(r) == LoadTxs(r) \/ SendTxs(r) \/ StopFlooding(r)

overlay_Next ==
  \/ \E r \in Replicas : FlooderThread(r) \/ PollAll(r) \/ Drain(r)
  \/ \E p \in Pairs : ClientThread(p)

\* Threads that can run do.  Nothing makes blocks take transactions.  Calls
\* fail at most MaxFaults times.
overlay_Fairness ==
  /\ \A r \in Replicas : WF_overlay_vars(FlooderThread(r)) /\ WF_overlay_vars(PollAll(r))
  /\ \A p \in Pairs : WF_overlay_vars(ClientThread(p))

overlay_Spec == overlay_Init /\ [][overlay_Next]_overlay_vars /\ overlay_Fairness

----------------------------------------------------------------------------
(* Properties.                                                             *)

\* A loaded batch is not sent yet, nor is the next one of the stream.
Waiting(f) == f.buffer.loaded /\ f.buffer.data
Sent(r) == flooder[r].next - (IF Waiting(flooder[r]) THEN 2 ELSE 1)

\* No replica is more than one batch ahead of another, although a batch may
\* overtake an earlier one that was put back after a failed call
\* (tx_batch_limit, log_batch_receipt).
Lockstep == \A r, s \in Replicas : Sent(r) <= Sent(s) + 1

\* A batch that was sent and holds transactions has arrived at every replica or
\* is still with the client that is to forward it (the requeueing of
\* OverlayClient::run).
NoBatchLost ==
  \A p \in Pairs : \A b \in 1..Sent(p[1]) :
    \/ <<p[1], b>> \in Garbled
    \/ <<p[1], b>> \in received[p[2]]
    \/ Contains(client[p].txs_to_forward, b) \/ Contains(client[p].to_forward, b)

\* The batches of its stream that a replica can send.  It stops behind a batch
\* of its own that it could not parse, and one batch after the shortest of the
\* other streams: nobody sends the number that it waits for.
Sendable(r) == Min({NumBatches[r]} \cup {b \in 1..NumBatches[r] : <<r, b>> \in Garbled})
Share(r) == Min({Sendable(r)} \cup {Sendable(s) + 1 : s \in Replicas \ {r}})

\* If blocks keep every mempool from staying at the limit, every replica sends
\* its share, the batches of all shares reach every mempool, and a flooder that
\* has sent its whole stream returns, although each waits for the batches of
\* all others (background_flood_thread, OverlayClient::run).
FloodCompletes ==
  (\A r \in Replicas : []<>(pool_size[r] < FLOOD_THRESHOLD)) =>
  <>(\A r \in Replicas :
       /\ Sent(r) = Share(r)
       /\ Share(r) = NumBatches[r] => flooder[r].returned
       /\ \A s \in Replicas : \A b \in 1..Share(r) :
            <<r, b>> \in received[s] \/ <<r, b>> \in Garbled)
============================================================================
