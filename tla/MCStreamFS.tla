----------------------------- MODULE MCStreamFS -----------------------------
(* Values of StreamFS's constants for TLC.                                 *)
EXTENDS StreamFS, TLC

(* One file of a chunk and a half, one that fills a chunk.                 *)
MCSizeOf == "archive" :> 3 @@ "plugin" :> 2
=============================================================================
