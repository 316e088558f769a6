-------------------------------- MODULE Exif --------------------------------
(***************************************************************************)
(* EXIF assembly of QCamera3PostProcessor (QCamera3PostProc.cpp, lines     *)
(* 1954-2790): getExifData and its field helpers, QCamera3Exif::addEntry   *)
(* and ~QCamera3Exif.                                                      *)
(*                                                                         *)
(* One QCamera3Exif object is followed through its life: it is constructed *)
(* empty, getExifData fills it in one call, and the encoder's owner        *)
(* deletes it.  Numbers keep the units the code computes in: coordinates   *)
(* are in 1e-7 degree (metres for altitude), the value snprintf("%f")      *)
(* prints is in 1e-6, focal length is in 1e-4 mm.  A 64-bit exposure time  *)
(* V >= 0 is the record [q, r] with V = q * 2^31 + r, so that its          *)
(* narrowing to a 32-bit int can be computed within TLC's integers; so is  *)
(* the int64 GPS timestamp, whose q may be negative.  A date is kept as    *)
(* its day number since 1970-01-01, which strftime prints.                 *)
(***************************************************************************)
EXTENDS Integers, SequencesExt

CONSTANTS
    MaxEntries,   \* MAX_HAL3_EXIF_TABLE_ENTRIES, the size of m_Entries
    ModelInfo,    \* whether ENABLE_MODEL_INFO_EXIF is defined
    MallocFail,   \* whether malloc inside addEntry may fail
    LongBits,     \* the width of long and time_t on the build: 32 or 64
    Inputs,       \* the (metadata, jpeg_settings) pairs getExifData is given
    None,         \* an absent metadata field or setting
    BAD_VALUE     \* the error status of the helpers

ASSUME MaxEntries \in Nat \ {0} /\ ModelInfo \in BOOLEAN /\ MallocFail \in BOOLEAN
ASSUME LongBits \in {32, 64}

Types == {"BYTE", "ASCII", "SHORT", "LONG", "RATIONAL", "UNDEFINED", "SLONG", "SRATIONAL"}
EXIF_ASCII_PREFIX_SIZE == 8

AbsVal(x) == IF x < 0 THEN -x ELSE x

(* C's (int) of the non-negative double num/den.  When the exact quotient *)
(* is a whole number the double product may land just below it, so the    *)
(* truncation is either the quotient or one less.                          *)
Trunc(num, den) ==
    IF num > 0 /\ num % den = 0 THEN {num \div den, num \div den - 1}
                                ELSE {num \div den}

(* snprintf(str, 30, "%f", x) followed by atof: x in 1e-7 becomes the      *)
(* nearest value in 1e-6 (the inputs are chosen away from ties).           *)
PrintF(x) == IF x < 0 THEN -((-x + 5) \div 10) ELSE (x + 5) \div 10

(* The int64 -> int conversion of a V = [q, r]: the low 32 bits, signed.   *)
Int32Of(v) == IF v.q % 2 = 1 THEN (v.r - 2^30) - 2^30 ELSE v.r

getRationalNoCheck(num, denom) == [num |-> num, den |-> denom]

getRational(num, denom) ==
    IF num < 0 \/ denom <= 0 THEN BAD_VALUE ELSE [num |-> num, den |-> denom]

parseGPSCoordinateMilli(u) ==
    LET a   == AbsVal(u)
        deg == a \div 10^6
        minN == (a - deg * 10^6) * 60
    IN UNION { { <<getRational(deg, 1), getRational(m, 1), getRational(s, 10000)>> :
                   s \in Trunc((minN - m * 10^6) * 6, 100) } :
               m \in Trunc(minN, 10^6) }

(* parseGPSCoordinate of the printed value u (1e-6 degree): degrees,       *)
(* minutes and seconds * 10000 of |u|, each truncated by (int).            *)
parseGPSCoordinate(u) ==
    LET a   == AbsVal(u)
        deg == a \div 10^6
        minN == (a - deg * 10^6) * 60          \* minF * 10^6
    IN UNION { { <<getRational(deg, 1), getRational(m, 1), getRational(s, 10000)>> :
                   s \in Trunc((minN - m * 10^6) * 6, 10) } :
               m \in Trunc(minN, 10^6) }

GpsCoordinate(x, negRef, posRef) ==
    LET u == PrintF(x)
    IN { [coord |-> c, ref |-> IF u < 0 THEN negRef ELSE posRef] :
           c \in parseGPSCoordinate(u) }

getExifLatitude(x) == GpsCoordinate(x, "S", "N")

getExifLongitude(x) == GpsCoordinate(x, "W", "E")

getExifAltitude(x) ==
    LET u == PrintF(x)
    IN { [alt |-> getRational(v, 1000), ref |-> IF u < 0 THEN 1 ELSE 0] :
           v \in Trunc(AbsVal(u), 1000) }

getExifFocalLength(f) == { getRational(v, 1000) : v \in Trunc(f, 10) }

getExifExpTimeInfo(v) ==
    LET cal == IF v.q = 0 /\ v.r = 0 THEN [q |-> 0, r |-> 60] ELSE v
    IN getRational(1, Int32Of(cal))

(* atol of snprintf("%lld", value), cast to time_t: the value itself when *)
(* long has 64 bits; with 32 bits strtol saturates at LONG_MIN/LONG_MAX.   *)
atolTimeT(v) ==
    CASE LongBits = 64 \/ v.q \in {-1, 0} -> v
      [] v.q > 0                          -> [q |-> 0, r |-> (2^30 - 1) + 2^30]
      [] OTHER                            -> [q |-> -1, r |-> 0]

(* gmtime of t = [q, r]: the day number and the second of that day, from  *)
(* 2^31 = 24855 * 86400 + 11648; \div and % round towards minus infinity  *)
(* as gmtime does for times before 1970.                                   *)
UtcDay(t) == 24855 * t.q + (11648 * t.q + t.r) \div 86400
UtcSec(t) == (11648 * t.q + t.r) % 86400

(* getExifGpsDateTimeStamp: the date strftime prints as "%Y:%m:%d" and    *)
(* the hour, minute and second as rationals over 1.                        *)
getExifGpsDateTimeStamp(v) ==
    LET t == atolTimeT(v)
        s == UtcSec(t)
    IN [date |-> UtcDay(t),
        hms  |-> <<getRational(s \div 3600, 1), getRational((s % 3600) \div 60, 1),
                  getRational(s % 60, 1)>>]

getExifExposureValue(comp, step) ==
    [num |-> comp * step.num, den |-> step.den]

(* The count getExifGpsProcessingMethod returns for a method of length n. *)
getExifGpsProcessingMethod(n) == EXIF_ASCII_PREFIX_SIZE + n + 1

(* getExifDateTime prints "YYYY:MM:DD HH:MM:SS" and "%06ld"; getExifData *)
(* adds each of them three times with count length + 1.                   *)
DateTimeEntries ==
    << [tag |-> "DATE_TIME", type |-> "ASCII", count |-> 20, val |-> "date"],
       [tag |-> "DATE_TIME_ORIGINAL", type |-> "ASCII", count |-> 20, val |-> "date"],
       [tag |-> "DATE_TIME_DIGITIZED", type |-> "ASCII", count |-> 20, val |-> "date"],
       [tag |-> "SUBSEC_TIME", type |-> "ASCII", count |-> 7, val |-> "usec"],
       [tag |-> "SUBSEC_TIME_ORIGINAL", type |-> "ASCII", count |-> 7, val |-> "usec"],
       [tag |-> "SUBSEC_TIME_DIGITIZED", type |-> "ASCII", count |-> 7, val |-> "usec"] >>

ModelEntries ==
    << [tag |-> "MAKE", type |-> "ASCII", count |-> 8, val |-> "make"],
       [tag |-> "MODEL", type |-> "ASCII", count |-> 8, val |-> "model"],
       [tag |-> "SOFTWARE", type |-> "ASCII", count |-> 8, val |-> "build"] >>

Opt(b, s) == IF b THEN s ELSE <<>>

Entry(tag, type, count, val) == [tag |-> tag, type |-> type, count |-> count, val |-> val]

(* The fields getExifData computes from the metadata, each one skipped    *)
(* when it is absent or its helper fails; ch holds the outcome of the     *)
(* helpers whose (int) truncations are not determined by their input.     *)
MetaEntries(in, ch) ==
    LET expo == getExifExpTimeInfo(in.exp)
        gts  == getExifGpsDateTimeStamp(in.ts)
    IN FlattenSeq(<<
        Opt(in.focal # None /\ ch.focal # BAD_VALUE,
            << Entry("FOCAL_LENGTH", "RATIONAL", 1, ch.focal) >>),
        Opt(in.iso # None,
            << Entry("ISO_SPEED_RATING", "SHORT", 1, in.iso % 2^16) >>),
        Opt(in.exp # None /\ expo # BAD_VALUE,
            << Entry("EXPOSURE_TIME", "RATIONAL", 1, expo) >>),
        Opt(in.method > 0,
            << Entry("GPS_PROCESSINGMETHOD", "ASCII",
                     getExifGpsProcessingMethod(in.method), "method") >>),
        Opt(in.gps # None,
            << Entry("GPS_LATITUDE", "RATIONAL", 3, ch.lat.coord),
               Entry("GPS_LATITUDE_REF", "ASCII", 2, ch.lat.ref),
               Entry("GPS_LONGITUDE", "RATIONAL", 3, ch.lon.coord),
               Entry("GPS_LONGITUDE_REF", "ASCII", 2, ch.lon.ref),
               Entry("GPS_ALTITUDE", "RATIONAL", 1, ch.alt.alt),
               Entry("GPS_ALTITUDE_REF", "BYTE", 1, ch.alt.ref) >>),
        Opt(in.ts # None,
            << Entry("GPS_DATESTAMP", "ASCII", 11, gts.date),
               Entry("GPS_TIMESTAMP", "RATIONAL", 3, gts.hms) >>),
        Opt(in.bias # None,
            << Entry("EXPOSURE_BIAS_VALUE", "SRATIONAL", 1,
                     getExifExposureValue(in.bias.comp, in.bias)) >>) >>)

(* The addEntry calls of getExifData, in the order it makes them. *)
ExifFields(in, ch) ==
    FlattenSeq(<< Opt(in.timeOk, DateTimeEntries),
                  Opt(in.meta, MetaEntries(in, ch)),
                  Opt(ModelInfo, ModelEntries),
                  Opt(in.desc # None,
                      << Entry("IMAGE_DESCRIPTION", "ASCII", in.desc + 1, "desc") >>) >>)

HelperOutcomes(in) ==
    [focal : IF in.meta /\ in.focal # None THEN getExifFocalLength(in.focal) ELSE {None},
     lat   : IF in.meta /\ in.gps # None THEN getExifLatitude(in.gps.lat) ELSE {None},
     lon   : IF in.meta /\ in.gps # None THEN getExifLongitude(in.gps.lon) ELSE {None},
     alt   : IF in.meta /\ in.gps # None THEN getExifAltitude(in.gps.alt) ELSE {None}]

(* addEntry copies into a malloc'ed block the ASCII and UNDEFINED data    *)
(* and every array of more than one value; a single value is stored in   *)
(* the entry itself.                                                     *)
Allocates(e) == e.type \in {"ASCII", "UNDEFINED"} \/ e.count > 1

(* The entry addEntry writes at m_Entries[m_nNumEntries]. *)
Stored(e, fails) ==
    LET mem == IF ~Allocates(e) THEN "inline" ELSE IF fails THEN "null" ELSE "heap"
    IN [tag |-> e.tag, type |-> e.type, count |-> e.count, mem |-> mem,
        val |-> IF mem = "null" THEN None ELSE e.val]

(* QCamera3Exif::addEntry: NO_MEMORY without a new entry when the table   *)
(* is full; on a failed malloc rc is NO_MEMORY but m_nNumEntries is still *)
(* incremented, leaving an entry whose data pointer is NULL.             *)
addEntry(tbl, e, fails) ==
    IF Len(tbl) >= MaxEntries THEN tbl ELSE Append(tbl, Stored(e, fails))

FreedByAnyCount(e) == e.mem # "null"

(* ~QCamera3Exif frees the ASCII and UNDEFINED pointers, and the pointers *)
(* of the other types only when count > 1, skipping NULL ones.            *)
FreedBy(e) == (e.type \in {"ASCII", "UNDEFINED"} \/ e.count > 1) /\ e.mem # "null"

-----------------------------------------------------------------------------

VARIABLES
    in,       \* the metadata and jpeg_settings of the call
    phase,    \* "new" after the constructor, "filled", "deleted"
    entries,  \* m_Entries[0 .. m_nNumEntries - 1]
    freed     \* indices of the entries whose pointer the destructor freed

vars == <<in, phase, entries, freed>>

(* QCamera3Exif(): m_nNumEntries = 0 and m_Entries zeroed. *)
Init ==
    /\ in \in Inputs
    /\ phase = "new"
    /\ entries = <<>>
    /\ freed = {}

(* getExifData: the whole call, each addEntry of it in order.  At most    *)
(* one malloc of the call fails (fail = 0: none does).                    *)
getExifData ==
    /\ phase = "new"
    /\ \E ch \in HelperOutcomes(in) :
         LET calls == ExifFields(in, ch)
         IN \E fail \in IF MallocFail THEN 0..Len(calls) ELSE {0} :
              entries' = FoldLeftDomain(LAMBDA t, i : addEntry(t, calls[i], i = fail),
                                        <<>>, calls)
    /\ phase' = "filled"
    /\ UNCHANGED <<in, freed>>

(* delete exif, once the encoder has used it. *)
Destroy ==
    /\ phase = "filled"
    /\ freed' = {i \in DOMAIN entries : FreedBy(entries[i])}
    /\ phase' = "deleted"
    /\ UNCHANGED <<in, entries>>

Next == getExifData \/ Destroy

Spec == Init /\ [][Next]_vars
-----------------------------------------------------------------------------

EntriesTagged(t) == { entries[i] : i \in {j \in DOMAIN entries : entries[j].tag = t} }

IsRational(r) == r.num >= 0 /\ r.den > 0

Rationals(e) == IF e.count = 1 THEN {e.val} ELSE Range(e.val)

(* Every entry has a known type, a positive count and its data unless its *)
(* malloc failed; an unsigned RATIONAL entry only ever holds a rational   *)
(* getRational accepted (numerator >= 0, denominator > 0).               *)
TypeOK ==
    /\ phase \in {"new", "filled", "deleted"}
    /\ \A e \in Range(entries) :
         /\ e.type \in Types /\ e.count >= 1
         /\ e.mem \in {"inline", "heap", "null"}
         /\ (e.mem = "null") = (e.val = None)
         /\ e.type = "RATIONAL" /\ e.mem # "null"
              => \A r \in Rationals(e) : IsRational(r)
    /\ freed \subseteq DOMAIN entries

GpsTol == 36000           \* 1e-4 degree, in 1/(36 * 10^7) degree
AltTol == 10^4 + 5        \* 1e-3 m of truncation and 5e-7 m of printing, in 1e-7 m

(* Degrees, minutes and seconds/10000 of c minus |x|, in 1/(36 * 10^7)    *)
(* degree, computed from the whole degrees up so it stays within 32 bits. *)
DegErr(c, x) ==
    (c[1].num - AbsVal(x) \div 10^7) * (36 * 10^7)
      + c[2].num * (6 * 10^6) + c[3].num * 10 - (AbsVal(x) % 10^7) * 36

CoordHolds(c, x) == -GpsTol <= DegErr(c, x) /\ DegErr(c, x) <= GpsTol

RefHolds(ref, x, negRef) ==
    /\ ref = negRef => x < 0
    /\ ref # negRef => x > -(GpsTol \div 36)

(* GPS round trip (getExifLatitude, getExifLongitude, getExifAltitude     *)
(* through snprintf, atof, parseGPSCoordinate and the (int) truncations): *)
(* every stored coordinate recombines to within 1e-4 degree of |value|,   *)
(* the altitude to within 1e-3 m, and no hemisphere letter or altitude   *)
(* sign contradicts a value farther than that from zero.                 *)
GpsRoundTrip ==
    in.gps # None =>
      /\ \A e \in EntriesTagged("GPS_LATITUDE") : e.mem = "null" \/ CoordHolds(e.val, in.gps.lat)
      /\ \A e \in EntriesTagged("GPS_LONGITUDE") : e.mem = "null" \/ CoordHolds(e.val, in.gps.lon)
      /\ \A e \in EntriesTagged("GPS_LATITUDE_REF") : e.mem = "null" \/ RefHolds(e.val, in.gps.lat, "S")
      /\ \A e \in EntriesTagged("GPS_LONGITUDE_REF") : e.mem = "null" \/ RefHolds(e.val, in.gps.lon, "W")
      /\ \A e \in EntriesTagged("GPS_ALTITUDE") :
           AbsVal(e.val.num * 10^4 - AbsVal(in.gps.alt)) <= AltTol
      /\ \A e \in EntriesTagged("GPS_ALTITUDE_REF") :
           (e.val = 1 => in.gps.alt < 0) /\ (e.val = 0 => in.gps.alt > -AltTol)

(* addEntry and ~QCamera3Exif agree on ownership: the destructor frees    *)
(* exactly the blocks addEntry malloc'ed, never a value stored in the     *)
(* entry itself and never a NULL left by a failed malloc.                 *)
FreesExactlyHeap ==
    phase = "deleted" => freed = {i \in DOMAIN entries : entries[i].mem = "heap"}

(* The spec: the exposure time is the rational 1/V for a raw value V # 0  *)
(* and 1/60 for V = 0 (getExifExpTimeInfo), unless the table was full.    *)
ExposureTimeSpec ==
    (phase # "new" /\ in.meta /\ in.exp # None /\ Len(entries) < MaxEntries) =>
      LET V == IF in.exp.q = 0 /\ in.exp.r = 0 THEN [q |-> 0, r |-> 60] ELSE in.exp
      IN \E e \in EntriesTagged("EXPOSURE_TIME") :
           e.val.num = 1 /\ V.q = 0 /\ e.val.den = V.r
====
