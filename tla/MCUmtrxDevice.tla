---------------------------- MODULE MCUmtrxDevice ----------------------------
(* Model-checking instance of UmtrxDevice: two boards, a compatibility   *)
(* number of 2, and the images, MTUs and GPSDOs that reach every branch. *)
EXTENDS UmtrxDevice

(* Images: new scheme 2.1, old scheme 2, new scheme 3 whose minor is 2, *)
(* and an old-scheme 0.                                                  *)
MCImages == {2 * 65536 + 1, 2, 3 * 65536 + 2, 0}
=============================================================================
