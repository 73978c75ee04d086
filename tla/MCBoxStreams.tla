----------------------------- MODULE MCBoxStreams -----------------------------
(* Two handles, buffers of two bytes and files of three, so that a file is  *)
(* more than a buffer and not a whole number of them; writes shorter and    *)
(* longer than a buffer.                                                    *)
EXTENDS BoxStreams

MCWriteSizes == {1, 3}

=============================================================================
