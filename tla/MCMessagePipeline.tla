-------------------------- MODULE MCMessagePipeline --------------------------
(* Small instances of the message pipeline for TLC.                          *)
EXTENDS MessagePipelineProperties, TLC
=============================================================================
