---------------------------- MODULE MCPlayerProcess ----------------------------
(* One bot that prints a few lines; the limit cuts its log short.          *)
EXTENDS PlayerProcess
=============================================================================
