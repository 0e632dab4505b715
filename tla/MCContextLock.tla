--------------------------- MODULE MCContextLock ---------------------------
(***************************************************************************)
(* Model values for the runs of ContextLock.  Threads are not declared     *)
(* symmetric: the runs check liveness.                                     *)
(***************************************************************************)
EXTENDS ContextLock

CONSTANTS t1, t2, t3
=============================================================================
