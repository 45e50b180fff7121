------------------------------ MODULE MCBatchRun ------------------------------
(* Two runs of the engine, in which the bot prints a few lines and the     *)
(* limit cuts its log short.  Either player wins a run; the log that may   *)
(* have been left behind is of a draw.                                     *)
EXTENDS BatchRun

MCBankrolls == {-3, 3}
MCOldBankrolls == {0}
=============================================================================
