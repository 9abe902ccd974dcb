---------------------------- MODULE MCMempool ----------------------------
(***************************************************************************)
(* One mempool with its threads, or the overlay that fills the mempools of *)
(* several replicas: a behaviour moves one of the two while the other is   *)
(* at its end.  They meet in chunkify_and_add_to_mempool_buffer and in the *)
(* sizes, which both modules have.                                         *)
(*                                                                         *)
(* Two accounts with transactions in sequence, and one that the database   *)
(* does not know.  A batch of exactly one chunk, which also adds an empty  *)
(* chunk, and a batch smaller than a chunk.                                *)
(***************************************************************************)
EXTENDS Mempool, Overlay

MCTxId == 1 .. 4
MCBatches == {<<1, 2, 3>>, <<4>>}
MCSource == <<"a", "a", "b", "u">>
MCSeqNum == <<1, 2, 1, 1>>
MCNumBatches == <<3, 1>>
MCGarbled == {<<1, 2>>}

\* A mempool all of whose transactions are gone, after the last block.
MempoolAtEnd ==
  /\ buffered_mempool = <<>> /\ buffer_size = 0 /\ arrived = Batches
  /\ mempool = <<>> /\ mempool_size = 0
  /\ last_committed = [a \in Account |-> MaxSeqNum]
  /\ do_cleaning = FALSE /\ cleaner_pc = "wait"
  /\ do_work = FALSE /\ cancel_background_filter = FALSE
  /\ filter_pc = "wait" /\ todo = {}
  /\ vm_pc = "idle" /\ rounds = MaxRounds /\ selected = {} /\ flagged = TxId

\* An overlay that has done its share and whose threads have been terminated.
OverlayAtEnd ==
  /\ flooder = [r \in Replicas |-> [buffer |-> Empty, next |-> Share(r) + 1, returned |-> TRUE]]
  /\ client = [p \in Pairs |-> [txs_to_forward |-> <<>>, to_forward |-> <<>>, foreign |-> 0,
                                local |-> 0, connected |-> TRUE, repoll |-> TRUE, pc |-> "gone"]]
  /\ max_seen = [r \in Replicas |-> [s \in Replicas |-> Share(s)]]
  /\ pool_size = [r \in Replicas |-> 0]
  /\ received = [s \in Replicas |-> UNION {({r} \X (1..Share(r))) \ Garbled : r \in Replicas}]
  /\ faults = 0

MCInit ==
  \/ Init /\ OverlayAtEnd
  \/ MempoolAtEnd /\ overlay_Init

MCNext ==
  \/ Next /\ UNCHANGED overlay_vars
  \/ overlay_Next /\ UNCHANGED vars

MCSpec ==
  /\ MCInit /\ [][MCNext]_<<vars, overlay_vars>>
  /\ Fairness /\ overlay_Fairness
=============================================================================
