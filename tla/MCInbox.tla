------------------------------ MODULE MCInbox ------------------------------
EXTENDS AdminConsole, TLC

\* The categories of reports are only copied about.
Symmetry == Permutations(Categories)
=============================================================================
