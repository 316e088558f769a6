--------------------------- MODULE PostProcBuffers ---------------------------
(* What the post-processor promises about the buffers it borrows, with     *)
(* the detail of its queues, jobs and threads abstracted away.             *)
(*                                                                          *)
(* Each request r lends the pipeline up to one resource of each kind in    *)
(* Fields (its frame, its metadata buffer, its encode settings).  A         *)
(* resource is handed back at most once and only after it was lent; the    *)
(* JPEG encoder works on at most one request at a time, and never on a     *)
(* request whose frame has already been handed back.                        *)
(*                                                                          *)
(* PostProc implements this specification under the refinement mapping    *)
(* given at the end of PostProc.tla.                                        *)
EXTENDS Naturals

CONSTANTS Req, Fields

VARIABLES
    lent,       \* the <<request, kind>> pairs the producers have handed in
    returned,   \* returned[x]: how often resource x was handed back
    encoding    \* the requests whose image the encoder is reading

vars == <<lent, returned, encoding>>

Resources == Req \X Fields

TypeOK ==
    /\ lent \subseteq Resources
    /\ returned \in [Resources -> Nat]
    /\ encoding \subseteq Req

Init ==
    /\ lent = {}
    /\ returned = [x \in Resources |-> 0]
    /\ encoding = {}

\* a producer hands a resource in
Lend(x) ==
    /\ x \notin lent
    /\ lent' = lent \cup {x}
    /\ UNCHANGED <<returned, encoding>>

\* a producer call fails and the resource stays with its caller
Refuse(x) ==
    /\ x \notin lent
    /\ lent' = lent \cup {x}
    /\ returned' = [returned EXCEPT ![x] = 1]
    /\ UNCHANGED encoding

\* the encoder starts on request r while it is idle
Begin(r) ==
    /\ encoding = {}
    /\ <<r, "frame">> \in lent
    /\ returned[<<r, "frame">>] = 0
    /\ encoding' = {r}
    /\ UNCHANGED <<lent, returned>>

\* some resources are handed back, each for the first time, and the encoder
\* may finish or be aborted; it never keeps reading a returned frame
GiveBack ==
    /\ \A x \in Resources :
          \/ returned'[x] = returned[x]
          \/ x \in lent /\ returned[x] = 0 /\ returned'[x] = 1
    /\ encoding' \subseteq encoding
    /\ \A r \in encoding' : returned'[<<r, "frame">>] = 0
    /\ UNCHANGED lent

Next ==
    \/ \E x \in Resources : Lend(x) \/ Refuse(x)
    \/ \E r \in Req : Begin(r)
    \/ GiveBack

Spec == Init /\ [][Next]_vars
=============================================================================
