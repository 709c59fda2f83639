------------------------------ MODULE MCWorkspace ------------------------------
(* Workspace with interchangeable browsers, threads, numbers and requests.  *)
EXTENDS Workspace, TLC

Interchangeable == Permutations(Tabs) \cup Permutations(Threads)
                     \cup Permutations(Numbers) \cup Permutations(Requests)
=============================================================================
