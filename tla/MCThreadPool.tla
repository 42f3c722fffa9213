---------------------------- MODULE MCThreadPool ----------------------------
(***************************************************************************)
(* The pool of ThreadPool.tla on the instance of MCThreadPool.cfg: three   *)
(* workers, three calls and two places, so that the queue can be full.     *)
(***************************************************************************)
EXTENDS ThreadPool
=============================================================================
