-------------------------------- MODULE Hdmi --------------------------------
(***************************************************************************)
(* The HDMI display of the display manager (sdm/libs/core):                *)
(*  - DisplayHDMI (display_hdmi.cpp): Init, Deinit and the one public call *)
(*    that goes to the HDMI device itself, OnMinHdcpEncryptionLevelChange; *)
(*    the mode choice GetBestConfig and GetScanSupport;                    *)
(*  - HWHDMI (fb/hw_hdmi.cpp), the framebuffer device under it: Create,    *)
(*    Init (EDID, res_info pages, scan info), Deinit, Destroy,             *)
(*    SetDisplayAttributes and the getters GetBestConfig uses.             *)
(*                                                                         *)
(* Every public DisplayHDMI call holds locker_, so a call is one action.   *)
(* What the kernel driver serves (the edid_modes list, the res_info pages, *)
(* scan_info, the ioctl results) and what the code outside this directory  *)
(* returns (DisplayBase::Init) are choices of the environment.  Indices    *)
(* are the code's 0-based config indices; a VIC is a CEA video code.       *)
(***************************************************************************)
EXTENDS Integers, Sequences, SequencesExt, FiniteSets

CONSTANTS
    Timing,       \* the driver's timing per VIC: [x |-> active_h, y |-> active_v,
                  \* rate |-> refresh_rate in mHz]
    EdidLists,    \* VIC lists the edid_modes node may hold
    UserConfigs,  \* values of the HDMI resolution property (0: unset)
    PageEntries,  \* timing entries one res_info page holds
    ScanRaw,      \* raw values the scan_info node may hold
    MaxCEAFormat, \* HDMI_VFRMT_END
    Faults        \* failure outcomes the environment may produce

FaultKinds == {"hwInitFail",     \* HWDevice::Init fails
               "edidOpenFail",   \* edid_modes cannot be opened
               "edidEmpty",      \* pread of edid_modes returns <= 0
               "noResFile",      \* res_info cannot be opened
               "resWriteFail",   \* a page number write to res_info fails
               "resReadOnly",    \* res_info cannot be opened for writing
               "ioctlFail",      \* an ioctl of SetDisplayAttributes fails
               "baseInitFail",   \* DisplayBase::Init fails
               "scanInfoFail"}   \* scan_info missing, empty or malformed

Vics == DOMAIN Timing
ASSUME \A v \in Vics : Timing[v].rate >= 1000
ASSUME EdidLists \subseteq Seq(Vics) /\ UserConfigs \subseteq Nat
ASSUME PageEntries \in Nat \ {0} /\ Faults \subseteq FaultKinds

Fail(k) == k \in Faults
Mn(a, b) == IF a < b THEN a ELSE b

(* HWScanSupport *)
Scans == {"NotSupported", "AlwaysOverscanned", "AlwaysUnderscanned", "Both"}
NoScanInfo == [pt |-> "NotSupported", it |-> "NotSupported",
               cea |-> "NotSupported"]          \* HWScanInfo()

NoIdx == -1             \* no config chosen yet
BootVic == 0            \* the mode the driver runs before any SetDisplayAttributes

-----------------------------------------------------------------------------
(* Pure helpers *)

\* MapHWScanSupport: the driver's values 0..3, anything else not supported
MapHWScanSupport(v) ==
    IF v \in 0..3
    THEN <<"NotSupported", "AlwaysOverscanned", "AlwaysUnderscanned", "Both">>[v + 1]
    ELSE "NotSupported"

\* the res_info pages the driver serves for the modes in the given order
ResInfoPages(order) ==
    [k \in 1..((Len(order) + PageEntries - 1) \div PageEntries) |->
        SubSeq(order, (k - 1) * PageEntries + 1, Mn(k * PageEntries, Len(order)))]

\* what a read of res_info returns while the driver serves page k: its
\* entries, or nothing (bytes_read 0) past the last page
PageContent(m, k) ==
    LET pages == ResInfoPages(m) IN IF k \in DOMAIN pages THEN pages[k] ELSE <<>>

\* page numbers past the last page all read empty, so the model keeps them
\* as the one page after the last
PastLast(m) == Len(ResInfoPages(m)) + 1

\* the inner loop of ReadTimingInfo on one page: copy entries while they
\* last, size < kPageSize and config_index < hdmi_mode_count_; size counts
\* the entries taken from this page
CopyPage(content, copied, count, size) ==
    copied \o SubSeq(content, 1, Mn(Mn(Len(content), PageEntries - size),
                                    count - Len(copied)))

\* variant: size is not reset after a page, so later pages are cut short
ResetSizeKept(s) == s

\* variant: page_number is not advanced
NextPageStuck(p, m) == p

\* page_number++ (kept at PastLast beyond the last page)
NextPage(p, m) == Mn(p + 1, PastLast(m))

\* size = sizeof(msm_hdmi_mode_timing_info) after every page: no entry of
\* the next page taken yet
ResetSize(s) == 0

\* the timing entry the lookup loop of Get/SetDisplayAttributes settles on
\* for config index: the first entry with hdmi_modes_[index], else entry 0
TimingFor(table, modes, index) ==
    LET j == SelectInSeq(table, LAMBDA e : e = modes[index + 1])
    IN IF j = 0 THEN table[1] ELSE table[j]

\* GetDisplayAttributes(index): resolution and vsync period of that entry
GetDisplayAttributes(table, modes, index) ==
    LET t   == Timing[TimingFor(table, modes, index)]
        fps == t.rate \div 1000
    IN [x |-> t.x, y |-> t.y, vsync |-> 1000000000 \div fps]

\* the comparison of GetBestConfig: resolution, then refresh rate
Better(c, b) ==
    \/ c.y > b.y
    \/ c.y = b.y /\ c.x > b.x
    \/ c.y = b.y /\ c.x = b.x /\ c.vsync < b.vsync

\* variant: best_attrib is never updated after index 0
RECURSIVE BestFromStale(_, _, _, _)
BestFromStale(table, modes, index, best) ==
    IF index >= Len(modes) THEN best
    ELSE BestFromStale(table, modes, index + 1,
             IF Better(GetDisplayAttributes(table, modes, index),
                       GetDisplayAttributes(table, modes, 0))
             THEN index ELSE best)

\* the loop of GetBestConfig from index on, best_index = best so far
RECURSIVE BestFrom(_, _, _, _)
BestFrom(table, modes, index, best) ==
    IF index >= Len(modes) THEN best
    ELSE BestFrom(table, modes, index + 1,
             IF Better(GetDisplayAttributes(table, modes, index),
                       GetDisplayAttributes(table, modes, best))
             THEN index ELSE best)

\* GetConfigIndex(mode): the first index listing that VIC, or NoIdx
GetConfigIndex(modes, mode) == SelectInSeq(modes, LAMBDA v : v = mode) - 1

\* GetBestConfig with the resolution property set to user
GetBestConfig(table, modes, user) ==
    IF Len(modes) = 1 THEN 0
    ELSE IF user # 0 /\ GetConfigIndex(modes, user) # NoIdx
         THEN GetConfigIndex(modes, user)
         ELSE BestFrom(table, modes, 1, 0)

\* reference: the first index whose attributes no other index beats
BestReference(table, modes, user) ==
    LET Idx == 0..(Len(modes) - 1)
        A(i) == GetDisplayAttributes(table, modes, i)
        Top == {i \in Idx : \A j \in Idx : ~Better(A(j), A(i))}
    IN IF user # 0 /\ user \in ToSet(modes)
       THEN GetConfigIndex(modes, user)
       ELSE CHOOSE i \in Top : \A j \in Top : i <= j

-----------------------------------------------------------------------------
(* State *)

VARIABLES
    disp,       \* DisplayHDMI: "New", "Pages" (Init is in HWHDMI's
                \* ReadTimingInfo loop), "Created" (HWHDMI::Create returned
                \* kErrorNone), "Ready" (Init returned kErrorNone), "Failed"
                \* (Init returned an error), "Gone" (Deinit done)
    hw,         \* the HWHDMI object hw_intf_ points to: "None", "Alive", "Freed"
    misuse,     \* HWHDMI calls made on the object after it was deleted
    fdLeaks,    \* file descriptors opened and never closed
    user,       \* the HDMI resolution property Init read
    modes,      \* hdmi_modes_[0 .. hdmi_mode_count_ - 1]
    table,      \* the VICs of supported_video_modes_ ReadTimingInfo filled
    scanInfo,   \* hw_scan_info_
    active,     \* active_config_index_
    requested,  \* the index GetBestConfig returned to Init
    driverVic,  \* the VIC last sent with MSMFB_METADATA_SET
    driverMode, \* the VIC whose timing FBIOPUT_VSCREENINFO last set
    scan,       \* scan_support_
    underscan,  \* underscan_supported_
    page,       \* page_number of ReadTimingInfo
    size,       \* the entries of the current page its size counts
    resPage,    \* the res_info page the driver serves: the last one requested
    writable    \* whether res_info can be opened for writing

vars == <<disp, hw, misuse, fdLeaks, user, modes, table, scanInfo, active,
          requested, driverVic, driverMode, scan, underscan, page, size, resPage,
          writable>>

InitResPage == 1        \* MSM_HDMI_INIT_RES_PAGE

-----------------------------------------------------------------------------
(* HWHDMI *)

\* ReadEDIDInfo: hdmi_modes_ from the tokens of edid_modes, or
\* kErrorHardware when the node cannot be opened or reads empty; the empty
\* read returns before close_, so its descriptor stays open
ReadEDIDInfo ==
    { [ok |-> TRUE, leak |-> 0, modes |-> e] : e \in EdidLists }
    \cup (IF Fail("edidOpenFail") THEN {[ok |-> FALSE, leak |-> 0, modes |-> <<>>]} ELSE {})
    \cup (IF Fail("edidEmpty") THEN {[ok |-> FALSE, leak |-> 1, modes |-> <<>>]} ELSE {})

\* HWHDMI::Create up to ReadTimingInfo: new HWHDMI and its Init
\* (HWDevice::Init, ReadEDIDInfo, IsResolutionFilePresent, new[] of the
\* timing table); on an error Init calls Deinit and Create deletes the
\* object.  ok: Init goes on to ReadTimingInfo.
CreateOutcomes ==
    LET AfterEdid(r) ==
          IF ~r.ok THEN {[ok |-> FALSE, leak |-> r.leak]}
          ELSE (IF Fail("noResFile") THEN {[ok |-> FALSE, leak |-> 0]} ELSE {})
               \cup {[ok |-> TRUE, leak |-> 0, modes |-> r.modes]}
    IN (IF Fail("hwInitFail") THEN {[ok |-> FALSE, leak |-> 0]} ELSE {})
       \cup UNION {AfterEdid(r) : r \in ReadEDIDInfo}

\* RequestNewPage: whether the driver took the page number; a failed open
\* or pwrite of res_info is only logged.  A failed write may be followed
\* by one that works; a node that cannot be opened for writing stays so.
RequestNewPage ==
    CASE ~writable            -> {FALSE}
      [] Fail("resWriteFail") -> BOOLEAN
      [] OTHER                -> {TRUE}

\* ReadScanInfo: the three values of scan_info, or hw_scan_info_ left as
\* constructed when the node is missing, empty or has another token count
ReadScanInfo ==
    { [pt |-> MapHWScanSupport(p), it |-> MapHWScanSupport(i),
       cea |-> MapHWScanSupport(c)] : p, i, c \in ScanRaw }
    \cup (IF Fail("scanInfoFail") THEN {NoScanInfo} ELSE {})

\* SetDisplayAttributes(index): refused past hdmi_mode_count_; then
\* FBIOGET_VSCREENINFO, MSMFB_METADATA_SET with the VIC of the timing entry
\* found, FBIOPUT_VSCREENINFO, each of which may fail; only full success
\* sets active_config_index_.  Outcomes: which of the two set-ioctls took
\* effect.
SetDisplayAttributes(t, m, index) ==
    IF index > Len(m) THEN {[err |-> TRUE, meta |-> FALSE, put |-> FALSE]}
    ELSE LET v == TimingFor(t, m, index)   \* an index equal to the count reads past the list
         IN {[err |-> FALSE, meta |-> TRUE, put |-> TRUE]} \cup
            (IF Fail("ioctlFail")
             THEN {[err |-> TRUE, meta |-> FALSE, put |-> FALSE],   \* GET or METADATA_SET
                   [err |-> TRUE, meta |-> TRUE, put |-> FALSE]}    \* PUT
             ELSE {})

\* GetVideoFormat(config_index): hdmi_modes_[config_index], refused only
\* past hdmi_mode_count_ (an index equal to the count reads past the list)
GetVideoFormat(m, index) == IF index > Len(m) THEN NoIdx ELSE m[index + 1]

\* GetScanSupport on a live object: early return when GetVideoFormat fails,
\* the preferred timing's scan info when config 0 is active and it has one,
\* else the CEA or the IT scan info by the active VIC
GetScanSupport(prev) ==
    LET vf == GetVideoFormat(modes, active')
    IN IF vf = NoIdx THEN prev
       ELSE IF active' = 0 /\ scanInfo.pt # "NotSupported" THEN scanInfo.pt
       ELSE IF vf < MaxCEAFormat THEN scanInfo.cea
       ELSE scanInfo.it

\* HWHDMI::Destroy(hw_intf_): Deinit and delete, whatever the object's
\* state; the calls made on an already deleted object
Destroy(h, m) == IF h = "Freed" THEN m \cup {"Destroy"} ELSE m

-----------------------------------------------------------------------------
(* DisplayHDMI *)

Init ==
    /\ disp = "New" /\ hw = "None" /\ misuse = {} /\ fdLeaks = 0 /\ user = 0
    /\ modes = <<>> /\ table = <<>> /\ scanInfo = NoScanInfo /\ active = 0
    /\ requested = NoIdx /\ driverVic = BootVic /\ driverMode = BootVic
    /\ scan = "NotSupported" /\ underscan = FALSE
    /\ page = InitResPage /\ size = 0 /\ resPage = InitResPage
    /\ writable \in IF Fail("resReadOnly") THEN BOOLEAN ELSE {TRUE}

\* DisplayHDMI::Init when HWHDMI::Create fails before ReadTimingInfo:
\* return its error
InitCreateFails ==
    /\ disp = "New"
    /\ \E c \in CreateOutcomes :
          /\ ~c.ok
          /\ fdLeaks' = fdLeaks + c.leak
    /\ disp' = "Failed"
    /\ UNCHANGED <<hw, misuse, user, modes, table, scanInfo, active, requested,
                   driverVic, driverMode, scan, underscan, page, size, resPage, writable>>

\* DisplayHDMI::Init calls HWHDMI::Create, whose Init gets as far as
\* ReadTimingInfo: hdmi_modes_ read, config_index 0, page_number
\* MSM_HDMI_INIT_RES_PAGE
InitCreateStarts ==
    /\ disp = "New"
    /\ \E c \in CreateOutcomes :
          /\ c.ok
          /\ modes' = c.modes
    /\ disp' = "Pages"
    /\ table' = <<>> /\ page' = InitResPage /\ size' = 0
    /\ UNCHANGED <<hw, misuse, fdLeaks, user, scanInfo, active, requested,
                   driverVic, driverMode, scan, underscan, resPage, writable>>

\* one turn of the ReadTimingInfo loop that reads a page: RequestNewPage,
\* ReadResolutionFile finds entries, they are copied, size is reset and
\* page_number incremented
ReadTimingPage ==
    /\ disp = "Pages"
    /\ \E written \in RequestNewPage :
          LET served == IF written THEN page ELSE resPage
              content == PageContent(modes, served)
              copied == CopyPage(content, table, Len(modes), size)
          IN /\ content # <<>>
             /\ resPage' = served
             /\ table' = copied
             /\ size' = ResetSize(size + Len(copied) - Len(table))
    /\ page' = NextPage(page, modes)
    /\ UNCHANGED <<disp, hw, misuse, fdLeaks, user, modes, scanInfo, active,
                   requested, driverVic, driverMode, scan, underscan, writable>>

\* the turn whose ReadResolutionFile reads nothing ends the loop: no page
\* read or no entry copied is kErrorHardware (Deinit, and Create deletes
\* the object); otherwise Init ends with ReadScanInfo and Create returns
\* the object
ReadTimingEnd ==
    /\ disp = "Pages"
    /\ \E written \in RequestNewPage :
          LET served == IF written THEN page ELSE resPage
          IN /\ PageContent(modes, served) = <<>>
             /\ resPage' = served
    /\ IF page = InitResPage \/ table = <<>>
       THEN disp' = "Failed" /\ UNCHANGED scanInfo
       ELSE disp' = "Created" /\ scanInfo' \in ReadScanInfo
    /\ UNCHANGED <<hw, misuse, fdLeaks, user, modes, table, active, requested,
                   driverVic, driverMode, scan, underscan, page, size, writable>>

\* DisplayHDMI::Init once Create succeeded: GetBestConfig, then
\* SetDisplayAttributes (on an error HWHDMI::Destroy, and carry on), then
\* DisplayBase::Init (on an error HWHDMI::Destroy again), then
\* GetScanSupport whatever happened; Init returns DisplayBase::Init's error
DisplayInit ==
    /\ disp = "Created"
    /\ \E u \in UserConfigs,
          baseOk \in IF Fail("baseInitFail") THEN BOOLEAN ELSE {TRUE} :
         LET best == GetBestConfig(table, modes, u)
         IN
         /\ user' = u
         /\ requested' = best
         /\ \E sda \in SetDisplayAttributes(table, modes, best) :
              LET v     == TimingFor(table, modes, best)
                  hwSda == IF sda.err THEN "Freed" ELSE "Alive"
                  hwEnd == IF baseOk THEN hwSda ELSE "Freed"
                  mis   == IF baseOk THEN misuse ELSE Destroy(hwSda, misuse)
              IN /\ driverVic' = IF sda.meta THEN v ELSE driverVic
                 /\ driverMode' = IF sda.put THEN v ELSE driverMode
                 /\ active' = IF sda.err THEN active ELSE best
                 /\ hw' = hwEnd
                 /\ IF hwEnd = "Alive"
                    THEN /\ scan' = GetScanSupport(scan)
                         /\ misuse' = mis
                    ELSE \* GetScanSupport through the dangling hw_intf_:
                         \* what it reads is undefined
                         /\ scan' \in Scans
                         /\ misuse' = mis \cup {"GetScanSupport"}
         /\ disp' = IF baseOk THEN "Ready" ELSE "Failed"
    /\ underscan' = (scan' \in {"AlwaysUnderscanned", "Both"})
    /\ UNCHANGED <<fdLeaks, modes, table, scanInfo, page, size, resPage, writable>>

\* DisplayHDMI::Deinit: DisplayBase::Deinit, then HWHDMI::Destroy
\* (Deinit, which deletes supported_video_modes_, and delete)
DisplayDeinit ==
    /\ disp = "Ready"
    /\ disp' = "Gone"
    /\ hw' = "Freed"
    /\ misuse' = Destroy(hw, misuse)
    \* the object's own fields die with it
    /\ UNCHANGED <<fdLeaks, user, modes, table, scanInfo, active, requested, driverVic,
                   driverMode, scan, underscan, page, size, resPage, writable>>

\* OnMinHdcpEncryptionLevelChange: hw_intf_ opens the hdcp2p2 node, writes
\* the level and closes it on every path; on a deleted object it is a call
\* through a dangling pointer
OnMinHdcpEncryptionLevelChange ==
    /\ disp = "Ready"
    /\ misuse' = IF hw = "Freed"
                  THEN misuse \cup {"OnMinHdcpEncryptionLevelChange"}
                  ELSE misuse
    /\ UNCHANGED <<disp, hw, fdLeaks, user, modes, table, scanInfo, active,
                   requested, driverVic, driverMode, scan, underscan, page, size,
                   resPage, writable>>

Next ==
    \/ InitCreateFails
    \/ InitCreateStarts
    \/ ReadTimingPage
    \/ ReadTimingEnd
    \/ DisplayInit
    \/ DisplayDeinit
    \/ OnMinHdcpEncryptionLevelChange

\* HWHDMI::Init runs on DisplayHDMI::Init's thread and blocks in no step of
\* the ReadTimingInfo loop: once the loop is entered its turns are taken.
\* The driver and the client calls (Init itself, Deinit, the HDCP level
\* change) are not fair.
Spec == Init /\ [][Next]_vars /\ WF_vars(ReadTimingPage \/ ReadTimingEnd)

-----------------------------------------------------------------------------
(* Properties *)

(* GetBestConfig picks the mode its comment promises: the user's          *)
(* resolution when the property names a listed VIC, otherwise the first   *)
(* mode with the most lines, then the most pixels per line, then the      *)
(* shortest vsync period, judged on the attributes GetDisplayAttributes   *)
(* reports through the timing lookup.                                     *)
BestConfigChosen ==
    requested # NoIdx => requested = BestReference(table, modes, user)

(* While Init has succeeded and the device is alive, the mode the driver  *)
(* was programmed with (the VIC of MSMFB_METADATA_SET and the timing of   *)
(* FBIOPUT_VSCREENINFO) is the mode of active_config_index_ that          *)
(* GetActiveConfig, GetVideoFormat and GetScanSupport report: the EDID    *)
(* list, the paged res_info read and the timing lookup agree.             *)
ActiveModeProgrammed ==
    disp = "Ready" /\ hw = "Alive" =>
        /\ driverVic = modes[active + 1]
        /\ driverMode = modes[active + 1]

(* Every resource the HDMI device acquires is released exactly once and  *)
(* not used afterwards: each sysfs node HWHDMI opens (edid_modes,          *)
(* res_info, scan_info, hdcp2p2) is closed on every path out of the call   *)
(* that opened it, and the HWHDMI object is neither destroyed twice nor    *)
(* called after HWHDMI::Destroy deleted it, by DisplayHDMI::Init, Deinit  *)
(* or the calls that go through hw_intf_.                                  *)
ResourcesReleasedOnce == misuse = {} /\ fdLeaks = 0

(* HWHDMI::Create, called by DisplayHDMI::Init, returns: the              *)
(* ReadTimingInfo loop of HWHDMI::Init, which only stops when a read of   *)
(* res_info finds nothing, reaches the end of the driver's pages.  The    *)
(* loop relies on RequestNewPage moving the driver to the next page; a    *)
(* page request that does not take keeps it reading the same page.       *)
CreateReturns == (disp = "Pages") ~> (disp \in {"Created", "Failed"})

====
