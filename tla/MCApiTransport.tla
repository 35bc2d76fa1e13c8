--------------------------- MODULE MCApiTransport ---------------------------
(***************************************************************************)
(* The UAPI transport on small buffers: an inherited stream long enough    *)
(* for three pipelined frames or an oversized one, and two clients of a    *)
(* listener that serves one at a time.                                     *)
(***************************************************************************)
EXTENDS ApiTransport

StreamOf(mode) == IF mode THEN 6 ELSE 2
=============================================================================
