---------------------------- MODULE MCFanoutYuv ----------------------------
(* The yuv pipeline: one worker thread, the renderer as sink, which may miss frames. *)
EXTENDS Fanout

CONSTANTS ProcessingYuv

MCPutOrder == <<ProcessingYuv>>
=============================================================================
