----------------------------- MODULE MCStation -----------------------------
(***************************************************************************)
(* Two paths, so that the endpoints have one each or fight for one; two    *)
(* clients, so that the wrong one may come first; sessions of two frames,  *)
(* cut at every half.                                                      *)
(***************************************************************************)
EXTENDS Station

=============================================================================
