------------------------------- MODULE MCHdmi -------------------------------
(* Model-checking instance of Hdmi: a driver with CEA modes at 480p, 720p *)
(* and 1080p (1080p at 60 and 30 Hz, and 1080i at 60 Hz, which ties with *)
(* 1080p60), and one vendor mode above HDMI_VFRMT_END at 59.94 Hz.  Two   *)
(* timing entries fit a res_info page, so longer lists span pages.        *)
EXTENDS Hdmi, TLC

MCMaxCEAFormat == 100

MCTiming ==
       (2   :> [x |-> 720,  y |-> 480,  rate |-> 60000])
    @@ (4   :> [x |-> 1280, y |-> 720,  rate |-> 60000])
    @@ (5   :> [x |-> 1920, y |-> 1080, rate |-> 60000])
    @@ (16  :> [x |-> 1920, y |-> 1080, rate |-> 60000])
    @@ (34  :> [x |-> 1920, y |-> 1080, rate |-> 30000])
    @@ (101 :> [x |-> 1920, y |-> 1080, rate |-> 59940])

\* edid_modes lists: one mode, an empty list, and lists whose best mode is
\* on the second res_info page, is tied with another, or comes first
MCEdidLists == {<<34>>, <<>>, <<2, 4, 34, 16>>, <<101, 34, 5, 16>>, <<16, 4>>}
====
