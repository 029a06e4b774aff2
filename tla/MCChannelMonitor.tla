-------------------------- MODULE MCChannelMonitor --------------------------
(***************************************************************************)
(* Small instances of ChannelMonitor for TLC.                              *)
(***************************************************************************)
EXTENDS ChannelMonitor, SequencesExt

\* The order of the accounts in the configuration.
LaneOrder == SetToSeq(Lanes)
=============================================================================
