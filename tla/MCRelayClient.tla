-------------------------- MODULE MCRelayClient ---------------------------
(***************************************************************************)
(* Three requests, chunks of up to three halves of frames: a chunk can end *)
(* in the middle of a frame, hold two replies, or finish one and start     *)
(* another, and a late reply can meet the next two requests.               *)
(***************************************************************************)
EXTENDS RelayClient

=============================================================================
