---------------------------- MODULE MCCopyPipeline ----------------------------
(* Model-checking instance of CopyPipeline; its constants are given in     *)
(* MCCopyPipeline.cfg.                                                     *)
EXTENDS CopyPipeline

===============================================================================
