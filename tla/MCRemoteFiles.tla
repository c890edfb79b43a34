----------------------------- MODULE MCRemoteFiles -----------------------------
(* RemoteFiles on the instance of MCFiles.cfg.                              *)
EXTENDS RemoteFiles
================================================================================
