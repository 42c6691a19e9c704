------------------------------ MODULE MCMessageBus ------------------------------
(***************************************************************************)
(* Values for MessageBus: a pipe whose queue may still hold a message of   *)
(* an earlier run.                                                         *)
(***************************************************************************)
EXTENDS MessageBus

OldMessage == [from |-> EarlierRun, n |-> 0, of |-> "event", packet |-> EventPacket]
MCLeftovers == {<<>>, <<OldMessage>>}
MCTooSmall == {<<1, EventPacket>>}
================================================================================
