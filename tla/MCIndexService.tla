----------------------------- MODULE MCIndexService -----------------------------
(* IndexService on the instances of MCIndex.cfg and its siblings.             *)
EXTENDS IndexService
==================================================================================
