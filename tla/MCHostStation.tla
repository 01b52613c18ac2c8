--------------------------- MODULE MCHostStation ---------------------------
(***************************************************************************)
(* An engine that takes names and no levels, found or not; five requests,  *)
(* enough to agree, open twice, close one target and post to it.           *)
(***************************************************************************)
EXTENDS HostStation

Named == [class |-> "named",
          bindings |-> <<[role |-> "post", symbol |-> "fire", shape |-> "name"]>>]

MCProfileFiles == {<<Named>>}

MCScans ==
  {[examined |-> 1, truncated |-> FALSE, candidates |-> <<[loads |-> TRUE, exports |-> {e}]>>] :
     e \in {"fire", "other"}}

MCOffers == {{1}}
MCHandleFields == Handle

=============================================================================
