---------------------------- MODULE MCThreadPool ----------------------------
(* The thread pool for TLC: two workers race for three calls of Post.      *)
EXTENDS ThreadPool
=============================================================================
