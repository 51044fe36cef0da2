---------------------------- MODULE MCSystemPool ----------------------------
(***************************************************************************)
(* A small instance of SystemPool: more calls than threads and connections *)
(* together, so that both can run out at once, and queues with room for    *)
(* one.                                                                    *)
(***************************************************************************)
EXTENDS SystemPool

CONSTANTS h1, h2, h3, h4

MCHandlers == {h1, h2, h3, h4}
=============================================================================
