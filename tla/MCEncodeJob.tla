----------------------------- MODULE MCEncodeJob -----------------------------
(* Model-checking instance of EncodeJob: a 4x3 frame with a 4-pixel stride *)
(* and 3-line scanline, an 8x6 JPEG stream, and thumbnail sizes that are    *)
(* absent, degenerate or 2x1, so that every swap is visible.               *)
EXTENDS EncodeJob

MCSrcDim == Dim(4, 3)
MCDstDim == Dim(8, 6)
MCLayout == Dim(4, 3)
MCThumbSizes == {Dim(0, 0), Dim(2, 0), Dim(2, 1)}
MCNoThumb == {Dim(0, 0)}
=============================================================================
