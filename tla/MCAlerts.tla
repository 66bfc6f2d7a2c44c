------------------------------ MODULE MCAlerts ------------------------------
(***************************************************************************)
(* Small instances of Alerts for TLC.                                      *)
(***************************************************************************)
EXTENDS AlertPromises, TLC

\* Links, addresses and tokens are interchangeable; no liveness is checked
\* under these symmetries.
Symmetry == Permutations(Links) \cup Permutations(Emails)
              \cup Permutations(Tokens) \cup Permutations(Reqs)
              \cup Permutations(Suspects)
=============================================================================
