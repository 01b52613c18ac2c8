---------------------------- MODULE MCRingBuffer ----------------------------
(***************************************************************************)
(* A ring of three usable bytes, offered up to five at a time and read in  *)
(* pieces of one or three, over fourteen accepted bytes: both indices wrap *)
(* three times, writes are cut short, and every copy meets a wrap.         *)
(***************************************************************************)
EXTENDS RingBuffer

MCOfferSizes == {1, 2, 5}
MCReadSizes == {1, 3}

=============================================================================
