------------------------------- MODULE MCDLog -------------------------------
(***************************************************************************)
(* Small instances of DLog: the limits that callers pass.                  *)
(***************************************************************************)
EXTENDS DLog

\* -1 asks for MaxDLog, 0 is the smallest limit of a caller's own.
MCMaxResults == {-1, 0}
=============================================================================
