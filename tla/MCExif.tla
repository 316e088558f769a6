------------------------------- MODULE MCExif -------------------------------
(* Inputs of getExifData for model checking.  Coordinates are in 1e-7      *)
(* degree: 45.5 and -122.3456789 hit exact and inexact minute              *)
(* truncations, -4e-7 prints as "-0.000000", -180 is the range's end.      *)
(* Altitude 100.001 m hits an exact (int)(value * 1000).  Exposure times   *)
(* [q, r] stand for q * 2^31 + r ns: 0, 1/30 s, 2^31 ns and 2^32 + 5 ns.   *)
(* GPS timestamps, in seconds: -1 (1969-12-31 23:59:59), 1700000000       *)
(* (2023-11-14 22:13:20), 2^31 (2038-01-19 03:14:08, one past the 32-bit   *)
(* range) and 2^32 + 1000 (2106-02-07 06:44:56).                           *)
EXTENDS Exif

ExpTimes == {[q |-> 0, r |-> 0], [q |-> 0, r |-> 33333333], [q |-> 1, r |-> 0]}

GpsTimes == {[q |-> -1, r |-> (2^30 - 1) + 2^30], [q |-> 0, r |-> 1700000000],
             [q |-> 1, r |-> 0], [q |-> 2, r |-> 1000]}

PassInputs ==
    [timeOk : BOOLEAN, meta : BOOLEAN, focal : {None, 47500}, iso : {40000},
     exp : ExpTimes, method : {9},
     gps : {None} \cup [lat : {-4, 455000000, -1223456789},
                        lon : {1221234567, -1800000000},
                        alt : {-125, 1000010000}],
     ts : {None} \cup GpsTimes, bias : {[comp |-> -2, num |-> 1, den |-> 3]}, desc : {None, 0}]

ExposureInputs ==
    [timeOk : {TRUE}, meta : {TRUE}, focal : {None}, iso : {None},
     exp : ExpTimes \cup {[q |-> 2, r |-> 5]}, method : {0}, gps : {None},
     ts : {None}, bias : {None}, desc : {None}]
====
