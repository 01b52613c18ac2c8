------------------------------ MODULE MCPipe ------------------------------
(***************************************************************************)
(* Requests and replies larger than the pipe's buffers, so that either end *)
(* can block in the middle of one; three requests.                         *)
(***************************************************************************)
EXTENDS PipeTransport

=============================================================================
