----------------------------- MODULE MCThreadPool -----------------------------
(* ThreadPool on small instances: the constants are given model values in   *)
(* the .cfg file, with more requests than the queue and the workers can   *)
(* hold.                                                                    *)
EXTENDS ThreadPool
===============================================================================
