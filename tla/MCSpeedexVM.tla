---------------------------- MODULE MCSpeedexVM ----------------------------
(***************************************************************************)
(* Instances of SpeedexVM for TLC: an account from genesis and, in another *)
(* shard, one that a block may create.                                     *)
(***************************************************************************)
EXTENDS SpeedexVM

MCAccount == {"a", "n"}
MCGenesis == {"a"}
MCShardOf == [x \in MCAccount |-> IF x = "a" THEN 1 ELSE 2]
=============================================================================
