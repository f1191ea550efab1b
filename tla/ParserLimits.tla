---------------------------- MODULE ParserLimits ----------------------------
(* The limit of spot_payload_parser.h that the level parser and its        *)
(* duplicate table share.                                                  *)
EXTENDS Integers

CONSTANT kMaxDepthUpdates   \* levels of a message, both sides together

ASSUME DepthUpdatesAssumption == kMaxDepthUpdates \in Nat
=============================================================================
