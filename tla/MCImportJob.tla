----------------------------- MODULE MCImportJob -----------------------------
(* The instance of ImportJob for TLC: one job, a process, and the two lease owners that can meet  *)
(* on it.  Owners are not made symmetric, as Fresh picks one of them.                             *)
EXTENDS ImportJob

CONSTANTS j1, o1, o2, p1

=============================================================================
