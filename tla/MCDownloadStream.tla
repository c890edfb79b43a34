---------------------------- MODULE MCDownloadStream ----------------------------
(* DownloadStream on the instance of MCStream.cfg.                            *)
EXTENDS DownloadStream
================================================================================
