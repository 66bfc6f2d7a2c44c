------------------------------ MODULE MCBrowser ------------------------------
(* Tabs and accounts are interchangeable. *)
EXTENDS Browser, TLC
Symmetry == Permutations(Tabs) \cup Permutations(Logins)
==============================================================================
