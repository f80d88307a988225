----------------------------- MODULE MCExecutor -----------------------------
(***************************************************************************)
(* Small instances of Executor for TLC.                                    *)
(***************************************************************************)
EXTENDS Executor

\* An option that is off.
Off == -1
=============================================================================
