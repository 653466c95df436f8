----------------------------- MODULE HaSocketMC -----------------------------
(* HaSocket on small instances: the cfg files name the tasks.              *)
EXTENDS HaSocket
=============================================================================
