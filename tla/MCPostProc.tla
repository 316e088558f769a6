---------------------------- MODULE MCPostProc ----------------------------
(* Model-checking instance of PostProc: the constants are given in each   *)
(* MCPostProc_*.cfg.                                                      *)
EXTENDS PostProc

\* the JPEG encoder completion for every encoder job id
JpegEvtAll == \E id \in Req : JpegEvt(id)
=============================================================================
