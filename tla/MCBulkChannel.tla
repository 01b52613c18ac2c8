--------------------------- MODULE MCBulkChannel ---------------------------
(***************************************************************************)
(* A queue of two bytes, a worker that forwards at most two, and an engine *)
(* that offers one or three bytes at a time: the queue wraps, fills and    *)
(* refuses, and every write to the host can be cut in two.                 *)
(***************************************************************************)
EXTENDS BulkChannel

MCOfferSizes == {1, 3}
MCReadSizes == {2}

=============================================================================
