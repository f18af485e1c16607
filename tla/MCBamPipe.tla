----------------------------- MODULE MCBamPipe ------------------------------
(* A ring of four slots: transfers of one and of three descriptors wrap     *)
(* round it and share it, one of four is refused by the notification and    *)
(* one of five by the space check.  A receive for which no buffer was       *)
(* prepared has none, or five.                                              *)
EXTENDS BamPipe

MCSizes == {1, 3, 4, 5}
MCHeap == {0, 5}
MCFlags == {"int", "bad"}
=============================================================================
