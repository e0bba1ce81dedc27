---------------------------- MODULE MCThreadPool ----------------------------
(* Model-checking instance of ThreadPool: two workers are enough for every  *)
(* race between a waiting, a running and a draining worker, three jobs for  *)
(* one in each place.                                                       *)
EXTENDS ThreadPool
=============================================================================
