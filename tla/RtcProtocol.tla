---------------------------- MODULE RtcProtocol ----------------------------
(***************************************************************************)
(* The consumer side of the real-time transport (RTC) of libtransport,     *)
(* src/libtransport/src/hicn/transport/protocols/rtc.cc.                   *)
(*                                                                         *)
(* One protocol instance runs on one event loop: every handler below is    *)
(* one atomic step.  The pacing loop of scheduleNextInterests() is the     *)
(* exception: it is a sequence of steps (pc = "check" / "loop") during     *)
(* which no other handler may run, so that a round end (checkRound) can    *)
(* happen between two sends, as in the code.                               *)
(*                                                                         *)
(* Time is abstracted: whether a round has elapsed, whether a pending      *)
(* retransmission is due and when a timer fires are free choices.  The     *)
(* producer and the network are the environment: any pending interest may *)
(* be answered by Data or by a NACK carrying any production segment, or    *)
(* time out.  Byte counts, RTT samples and the bandwidth estimate are      *)
(* abstracted to the window sizes they produce (WinSizes).                 *)
(***************************************************************************)
EXTENDS Integers, FiniteSets

CONSTANTS
    BufSize,            \* 1 << log_2_default_buffer_size: slots of inflightInterests_
    ZeroState,          \* the packet state whose enumerator is 0 (reset() zeroes the slots)
    MinProbeSeq,        \* HICN_MIN_PROBE_SEQ: data suffixes are taken modulo it
    MaxProbeSeq,        \* HICN_MAX_PROBE_SEQ: top of the probe range and of the uint32 suffix
    MaxRtx,             \* HICN_MAX_RTX
    MaxRtxSize,         \* HICN_MAX_RTX_SIZE
    MaxRtxAge,          \* HICN_MAX_RTX_MAX_AGE
    InitialCWin,        \* HICN_INITIAL_CWIN
    InitialCWinMax,     \* HICN_INITIAL_CWIN_MAX
    MinCWin,            \* HICN_MIN_CWIN
    RoundsInSync,       \* HICN_ROUNDS_IN_SYNC_BEFORE_SWITCH
    IncNum, IncDen,     \* HICN_WIN_INCREASE_FACTOR = IncNum / IncDen
    DecNum, DecDen,     \* HICN_WIN_DECREASE_FACTOR = DecNum / DecDen
    WinSizes,           \* window sizes a rate or a BDP estimate may yield
    Paths,              \* path labels carried by the answers
    UInt32,             \* 2^32 in the code: the modulus of the uint32 counters
    AppStops            \* the application's INTEREST_OUTPUT callback may call stop()

SlotStates == {"idle", "sent", "nacked", "received", "timeout1", "timeout2", "lost"}

ASSUME BufSizeAssumption == BufSize \in Nat \ {0}
ASSUME UInt32Assumption == UInt32 \in Nat \ {0}
ASSUME ZeroStateAssumption == ZeroState \in SlotStates
ASSUME AppStopsAssumption == AppStops \in BOOLEAN
ASSUME SeqAssumption == /\ MinProbeSeq \in Nat \ {0}
                        /\ MaxProbeSeq \in Nat /\ MinProbeSeq <= MaxProbeSeq
ASSUME RtxAssumption == /\ MaxRtx \in Nat
                        /\ MaxRtxSize \in Nat
                        /\ MaxRtxAge \in Nat
ASSUME WinAssumption == /\ InitialCWin \in Nat \ {0}
                        /\ InitialCWinMax \in Nat \ {0}
                        /\ MinCWin \in Nat \ {0}
                        /\ RoundsInSync \in Nat
                        /\ IncNum \in Nat /\ IncDen \in Nat \ {0}
                        /\ DecNum \in Nat /\ DecDen \in Nat \ {0}
                        /\ WinSizes \subseteq Nat \ {0} /\ WinSizes # {}

DataSeqs  == 0 .. (MinProbeSeq - 1)         \* suffixes the pacing loop requests
ProbeSeqs == MinProbeSeq .. MaxProbeSeq     \* suffixes reserved to RTT probes
Names     == 0 .. MaxProbeSeq               \* every suffix (uint32 in the code)
SeqMod    == MaxProbeSeq + 1                \* 2^32: uint32 wrap of suffix arithmetic
Slots     == 0 .. (BufSize - 1)
NoRtx     == -1                             \* the suffix is not a key of interestRetransmissions_
Phases    == {"SYNC", "NORMAL"}

VARIABLES
    running,            \* is_running_
    pc,                 \* "idle" between handlers, "check"/"loop" inside scheduleNextInterests
    inflight,           \* inflightInterests_: slot -> [state, sequence]
    inflightCount,      \* inflightInterestsCount_
    rtx,                \* interestRetransmissions_: suffix -> rtx count, or NoRtx
    rtxTimerUsed,       \* rtx_timer_used_ (the rtx timer is armed)
    nackTimerUsed,      \* nack_timer_used_ (the NACK cooldown timer is armed)
    actualSegment,      \* actualSegment_
    lastSegNacked,      \* lastSegNacked_
    lastReceived,       \* lastReceived_
    currentCWin,        \* currentCWin_
    maxCWin,            \* maxCWin_
    currentState,       \* currentState_: SYNC or NORMAL
    gotNack,            \* gotNack_
    gotFutureNack,      \* gotFutureNack_, saturated at 2 (the code only tests = 1)
    roundsWithoutNacks, \* roundsWithoutNacks_, saturated at RoundsInSync (only tested >=)
    pathTable,          \* labels of pathTable_
    probeSeq,           \* probe_seq_number_
    receivedProbe,      \* received_probe_
    pending             \* suffixes of the interests pending in the portal

vars == <<running, pc, inflight, inflightCount, rtx, rtxTimerUsed, nackTimerUsed,
          actualSegment, lastSegNacked, lastReceived, currentCWin, maxCWin,
          currentState, gotNack, gotFutureNack, roundsWithoutNacks, pathTable,
          probeSeq, receivedProbe, pending>>

-----------------------------------------------------------------------------
(* Helpers of rtc.cc *)

max(a, b) == IF a > b THEN a ELSE b
min(a, b) == IF a < b THEN a ELSE b

\* segmentNumber & modMask_ (BufSize is a power of two)
Slot(s) == s % BufSize

\* mutant of NextSegment: the suffix is not wrapped at HICN_MIN_PROBE_SEQ
NextSegmentNoWrap(a) == a + 1

\* actualSegment_ + 1, wrapped below the probe range
NextSegment(a) == (a + 1) % MinProbeSeq

\* the keys of a retransmission map
RtxKeys(m) == {i \in Names : m[i] # NoRtx}

\* erase key s from a retransmission map
RtxErase(m, s) == [m EXCEPT ![s] = NoRtx]

\* computeMaxWindow(productionRate, BDPWin): rate is 0 or not; waiting is
\* maxWaitingInterest, the window a positive rate yields over a lifetime
ComputeMaxWindow(state, rate, bdp, waiting, maxWin) ==
    IF rate = 0 THEN maxWin
    ELSE IF state = "SYNC" THEN waiting
    ELSE IF bdp # 0 THEN bdp + (bdp + 9) \div 10          \* ceil(BDP + BDP/10)
    ELSE min(waiting, maxWin)

\* updateWindow(), from the state after the round's phase switch
UpdateWindow(state, cwin, maxWin) ==
    IF state = "SYNC" THEN cwin
    ELSE IF 10 * cwin < 7 * maxWin THEN min(maxWin, (cwin * IncNum) \div IncDen)
    ELSE IF cwin > maxWin THEN max((cwin * DecNum) \div DecDen, MinCWin)
    ELSE cwin

\* increaseWindow(): ceil(cwin + 1/cwin) = cwin + 1 for cwin >= 1
IncreaseWindow(state, cwin, maxWin) ==
    IF state = "NORMAL" THEN cwin
    ELSE IF 2 * cwin < maxWin THEN cwin + 1
    ELSE min(maxWin, cwin + 1)

\* decreaseWindow(), futureNacks is gotFutureNack_ after its increment
DecreaseWindow(state, cwin, maxWin, futureNacks) ==
    IF state = "NORMAL" THEN cwin
    ELSE max(IF futureNacks = 1 THEN min(cwin - 1, (66 * maxWin + 99) \div 100)
                                ELSE cwin - 1,
             MinCWin)

\* mutant of RtxKept: an entry is kept while its count is <= HICN_MAX_RTX
RtxKeptMaxRtxOffByOne(m) ==
    LET keys == RtxKeys(m)
        cut  == {i \in keys : Cardinality({j \in keys : j > i}) < MaxRtxSize}
    IN  {i \in cut : /\ inflight[Slot(i)].sequence = i
                     /\ m[i] <= MaxRtx
                     /\ ~(lastReceived > i /\ lastReceived - i > MaxRtxAge)}

\* the keys retransmit() leaves after cutting the map to HICN_MAX_RTX_SIZE
\* (smallest suffixes first) and erasing the overwritten, exhausted and
\* too old entries
RtxKept(m) ==
    LET keys == RtxKeys(m)
        cut  == {i \in keys : Cardinality({j \in keys : j > i}) < MaxRtxSize}
    IN  {i \in cut : /\ inflight[Slot(i)].sequence = i
                     /\ m[i] < MaxRtx
                     /\ ~(lastReceived > i /\ lastReceived - i > MaxRtxAge)}

\* retransmit(): the kept entries in due are resent and counted
RtxAfter(m, due) ==
    [i \in Names |-> IF i \notin RtxKept(m) THEN NoRtx
                     ELSE IF i \in due THEN m[i] + 1 ELSE m[i]]

\* the key gone (or NoRtx) erased from m
RtxWithout(m, gone) == IF gone = NoRtx THEN m ELSE RtxErase(m, gone)

\* checkRtx() on map m with pend the interests pending in the portal, the
\* handler erasing key gone afterwards: it disarms the timer on an empty
\* map, else arms it and calls retransmit()
CheckRtx(m, gone, pend) ==
    IF RtxKeys(m) = {}
    THEN /\ rtxTimerUsed' = FALSE
         /\ rtx' = RtxWithout(m, gone)
         /\ pending' = pend
    ELSE \E due \in SUBSET RtxKept(m) :
            /\ rtxTimerUsed' = TRUE
            /\ rtx' = RtxWithout(RtxAfter(m, due), gone)
            /\ pending' = pend \cup due

\* mutant of AddRetransmissions: the rtx timer is not re-armed on insertion
AddRetransmissionsNoArm(start, stop, gone, pend) ==
    LET added == {i \in start .. (stop - 1) : rtx[i] = NoRtx /\ lastSegNacked <= i}
        m     == [i \in Names |-> IF i \in added THEN 0 ELSE rtx[i]]
    IN  /\ rtx' = RtxWithout(m, gone)
        /\ pending' = pend
        /\ UNCHANGED rtxTimerUsed

\* mutant of AddRetransmissions: segments below the last past NACK are added
AddRetransmissionsNoNackGuard(start, stop, gone, pend) ==
    LET added == {i \in start .. (stop - 1) : rtx[i] = NoRtx}
        m     == [i \in Names |-> IF i \in added THEN 0 ELSE rtx[i]]
    IN  IF rtxTimerUsed
        THEN /\ rtx' = RtxWithout(m, gone)
             /\ pending' = pend
             /\ UNCHANGED rtxTimerUsed
        ELSE CheckRtx(m, gone, pend)

\* addRetransmissions(start, stop) on the map with key gone erased at the
\* end of the handler; stop is already reduced modulo 2^32
AddRetransmissions(start, stop, gone, pend) ==
    LET added == {i \in start .. (stop - 1) : rtx[i] = NoRtx /\ lastSegNacked <= i}
        m     == [i \in Names |-> IF i \in added THEN 0 ELSE rtx[i]]
    IN  IF rtxTimerUsed
        THEN /\ rtx' = RtxWithout(m, gone)
             /\ pending' = pend
             /\ UNCHANGED rtxTimerUsed
        ELSE CheckRtx(m, gone, pend)

-----------------------------------------------------------------------------
(* The state after the constructor's reset() *)

Init ==
    /\ running = FALSE
    /\ pc = "idle"
    /\ inflight = [k \in Slots |-> [state |-> ZeroState, sequence |-> 0]]
    /\ inflightCount = 0
    /\ rtx = [i \in Names |-> NoRtx]
    /\ rtxTimerUsed = FALSE
    /\ nackTimerUsed = FALSE
    /\ actualSegment = 0
    /\ lastSegNacked = 0
    /\ lastReceived = 0
    /\ currentCWin = InitialCWin
    /\ maxCWin = InitialCWinMax
    /\ currentState = "SYNC"
    /\ gotNack = FALSE
    /\ gotFutureNack = 0
    /\ roundsWithoutNacks = 0
    /\ pathTable = {}
    /\ probeSeq \in ProbeSeqs          \* not initialised before the first probeRtt()
    /\ receivedProbe \in BOOLEAN
    /\ pending = {}

-----------------------------------------------------------------------------
(* Handlers.  Each ends in scheduleNextInterests() by setting pc to "check". *)

\* probeRtt(): a fresh probe suffix is sent as a retransmission (the
\* inflight count is untouched); the probe timer is re-armed
ProbeRtt(p) ==
    /\ probeSeq' = p
    /\ receivedProbe' = FALSE
    /\ pending' = pending \cup {p}

\* start() / resume(): the first start and every restart after stop()
Resume ==
    /\ ~running
    /\ pc = "idle"
    /\ running' = TRUE
    /\ inflightCount' = 0
    /\ \E p \in ProbeSeqs : ProbeRtt(p)
    /\ pc' = "check"
    /\ UNCHANGED <<inflight, rtx, rtxTimerUsed, nackTimerUsed, actualSegment,
                   lastSegNacked, lastReceived, currentCWin, maxCWin, currentState,
                   gotNack, gotFutureNack, roundsWithoutNacks, pathTable>>

\* stop(): the event loop halts; timers and pending interests survive
Stop ==
    /\ running
    /\ pc = "idle"
    /\ running' = FALSE
    /\ UNCHANGED <<pc, inflight, inflightCount, rtx, rtxTimerUsed, nackTimerUsed,
                   actualSegment, lastSegNacked, lastReceived, currentCWin, maxCWin,
                   currentState, gotNack, gotFutureNack, roundsWithoutNacks,
                   pathTable, probeSeq, receivedProbe, pending>>

\* the probe timer fires every second and calls probeRtt()
ProbeTimer ==
    /\ running
    /\ pc = "idle"
    /\ \E p \in ProbeSeqs : ProbeRtt(p)
    /\ UNCHANGED <<running, pc, inflight, inflightCount, rtx, rtxTimerUsed,
                   nackTimerUsed, actualSegment, lastSegNacked, lastReceived,
                   currentCWin, maxCWin, currentState, gotNack, gotFutureNack,
                   roundsWithoutNacks, pathTable>>

\* the rtx timer fires and calls checkRtx()
RtxTimer ==
    /\ running
    /\ pc = "idle"
    /\ rtxTimerUsed
    /\ CheckRtx(rtx, NoRtx, pending)
    /\ UNCHANGED <<running, pc, inflight, inflightCount, nackTimerUsed,
                   actualSegment, lastSegNacked, lastReceived, currentCWin, maxCWin,
                   currentState, gotNack, gotFutureNack, roundsWithoutNacks,
                   pathTable, probeSeq, receivedProbe>>

\* the NACK cooldown timer of checkIfProducerIsActive() fires
NackTimer ==
    /\ running
    /\ pc = "idle"
    /\ nackTimerUsed
    /\ nackTimerUsed' = FALSE
    /\ pc' = "check"
    /\ UNCHANGED <<running, inflight, inflightCount, rtx, rtxTimerUsed,
                   actualSegment, lastSegNacked, lastReceived, currentCWin, maxCWin,
                   currentState, gotNack, gotFutureNack, roundsWithoutNacks,
                   pathTable, probeSeq, receivedProbe, pending>>

\* onTimeout(): the portal gives up on pending interest s
OnTimeout(s) ==
    /\ running
    /\ pc = "idle"
    /\ s \in pending
    /\ LET k   == Slot(s)
           st  == inflight[k].state
           st1 == IF rtx[s] # NoRtx /\ rtx[s] >= MaxRtx THEN "lost" ELSE st
           st2 == CASE st1 = "sent"     -> "timeout1"
                    [] st1 = "timeout1" -> "timeout2"
                    [] st1 = "timeout2" -> "lost"
                    [] OTHER            -> st1
       IN  /\ inflightCount' = IF st = "sent" THEN (inflightCount - 1) % UInt32
                               ELSE inflightCount
           /\ inflight' = [inflight EXCEPT ![k].state = st2]
           /\ IF st2 = "lost"
              THEN /\ rtx' = RtxErase(rtx, s)
                   /\ pending' = pending \ {s}
                   /\ UNCHANGED rtxTimerUsed
              ELSE AddRetransmissions(s, (s + 1) % SeqMod, NoRtx, pending \ {s})
    /\ pc' = "check"
    /\ UNCHANGED <<running, nackTimerUsed, actualSegment, lastSegNacked, lastReceived,
                   currentCWin, maxCWin, currentState, gotNack, gotFutureNack,
                   roundsWithoutNacks, pathTable, probeSeq, receivedProbe>>

\* onContentObject() for a NACK of pending interest s: the producer is at
\* segment ps and produces at a rate that is zero or not.  It covers the
\* probe check, checkIfProducerIsActive(), onNack() and updateDelayStats().
OnContentNack(s, ps, rate, label) ==
    /\ running
    /\ pc = "idle"
    /\ s \in pending
    /\ pending' = pending \ {s}
    /\ IF s = probeSeq /\ ~receivedProbe
       THEN \* the expected probe answer: an RTT sample, then return
            /\ receivedProbe' = TRUE
            /\ UNCHANGED <<running, pc, inflight, inflightCount, rtx, rtxTimerUsed,
                           nackTimerUsed, actualSegment, lastSegNacked, lastReceived,
                           currentCWin, maxCWin, currentState, gotNack, gotFutureNack,
                           roundsWithoutNacks, pathTable, probeSeq>>
       ELSE
       LET k       == Slot(s)
           wasSent == inflight[k].state = "sent"
           active  == rate # 0                 \* checkIfProducerIsActive()
           fresh   == active /\ rtx[s] = NoRtx  \* onNack(content, false)
           past    == active /\ ps > s
           future  == active /\ ps < s
           purged  == IF past THEN [i \in Names |-> IF i < ps THEN NoRtx ELSE rtx[i]]
                      ELSE rtx
       IN  /\ nackTimerUsed' = (nackTimerUsed \/ ~active)
           /\ actualSegment' = CASE ~active /\ ~nackTimerUsed -> ps
                                 [] past   -> max(ps + 1, actualSegment) % MinProbeSeq
                                 [] future -> (ps + 1) % MinProbeSeq
                                 [] OTHER  -> actualSegment
           /\ inflightCount' = IF wasSent THEN (inflightCount - 1) % UInt32
                               ELSE inflightCount
           /\ gotNack' = (gotNack \/ fresh)
           /\ gotFutureNack' = IF fresh /\ future THEN min(gotFutureNack + 1, 2)
                               ELSE gotFutureNack
           /\ currentState' = CASE fresh /\ past   -> "SYNC"
                                [] fresh /\ future -> "NORMAL"
                                [] OTHER           -> currentState
           /\ \E waiting \in WinSizes :
                 CASE fresh /\ past ->
                        LET m == ComputeMaxWindow("SYNC", 1, 0, waiting, maxCWin)
                        IN  /\ maxCWin' = m
                            /\ currentCWin' = IncreaseWindow("SYNC", currentCWin, m)
                   [] fresh /\ future ->
                        LET m == ComputeMaxWindow(currentState, 1, 0, waiting, maxCWin)
                        IN  /\ maxCWin' = m
                            /\ currentCWin' = DecreaseWindow(currentState, currentCWin, m,
                                                             gotFutureNack')
                   [] OTHER -> UNCHANGED <<maxCWin, currentCWin>>
           /\ lastSegNacked' = IF past THEN ps ELSE lastSegNacked
           /\ rtx' = RtxErase(purged, s)
           /\ pathTable' = IF fresh /\ wasSent THEN pathTable \cup {label} ELSE pathTable
           /\ inflight' = [inflight EXCEPT ![k].state = IF past THEN "lost" ELSE "nacked"]
           /\ pc' = IF active THEN "check" ELSE "idle"
           /\ UNCHANGED <<running, rtxTimerUsed, lastReceived, roundsWithoutNacks,
                          probeSeq, receivedProbe>>

\* mutant of OnContentData: the slot becomes received only for a
\* first-time delivery
OnContentDataFirstOnly(s, label) ==
    /\ running
    /\ pc = "idle"
    /\ s \in pending \cap DataSeqs
    /\ LET k       == Slot(s)
           wasSent == inflight[k].state = "sent"
           first   == wasSent /\ rtx[s] = NoRtx
       IN  /\ inflightCount' = IF wasSent THEN (inflightCount - 1) % UInt32
                               ELSE inflightCount
           /\ IF first
              THEN /\ pathTable' = pathTable \cup {label}
                   /\ AddRetransmissions((lastReceived + 1) % SeqMod, s, s, pending \ {s})
                   /\ lastReceived' = s
                   /\ inflight' = [inflight EXCEPT ![k].state = "received"]
              ELSE /\ rtx' = RtxErase(rtx, s)
                   /\ pending' = pending \ {s}
                   /\ UNCHANGED <<pathTable, rtxTimerUsed, lastReceived, inflight>>
    /\ currentCWin' = IncreaseWindow(currentState, currentCWin, maxCWin)
    /\ pc' = "check"
    /\ UNCHANGED <<running, nackTimerUsed, actualSegment, lastSegNacked, maxCWin,
                   currentState, gotNack, gotFutureNack, roundsWithoutNacks,
                   probeSeq, receivedProbe>>

\* onContentObject() for Data of pending interest s: updateDelayStats(),
\* the gap filled by addRetransmissions(), reassembly and increaseWindow()
OnContentData(s, label) ==
    /\ running
    /\ pc = "idle"
    /\ s \in pending \cap DataSeqs
    /\ LET k       == Slot(s)
           wasSent == inflight[k].state = "sent"
           first   == wasSent /\ rtx[s] = NoRtx
       IN  /\ inflightCount' = IF wasSent THEN (inflightCount - 1) % UInt32
                               ELSE inflightCount
           /\ IF first
              THEN /\ pathTable' = pathTable \cup {label}
                   /\ AddRetransmissions((lastReceived + 1) % SeqMod, s, s, pending \ {s})
                   /\ lastReceived' = s
              ELSE /\ rtx' = RtxErase(rtx, s)
                   /\ pending' = pending \ {s}
                   /\ UNCHANGED <<pathTable, rtxTimerUsed, lastReceived>>
           /\ inflight' = [inflight EXCEPT ![k].state = "received"]
    /\ currentCWin' = IncreaseWindow(currentState, currentCWin, maxCWin)
    /\ pc' = "check"
    /\ UNCHANGED <<running, nackTimerUsed, actualSegment, lastSegNacked, maxCWin,
                   currentState, gotNack, gotFutureNack, roundsWithoutNacks,
                   probeSeq, receivedProbe>>

-----------------------------------------------------------------------------
(* scheduleNextInterests(): checkRound(), then the pacing loop *)

\* updateStats() past its early returns: rate says whether the bandwidth
\* estimate is zero, bdp and waiting are the windows it yields; the round
\* counters and the phase are updated, then updateWindow() runs
StatsUpdate ==
    \E rate \in {0, 1}, bdp \in {0} \cup WinSizes, waiting \in WinSizes :
       LET m   == ComputeMaxWindow(currentState, rate, bdp, waiting, maxCWin)
           rwn == IF gotNack THEN 0 ELSE min(roundsWithoutNacks + 1, RoundsInSync)
           st  == IF ~gotNack /\ currentState = "SYNC" /\ rwn >= RoundsInSync
                  THEN "NORMAL" ELSE currentState
       IN  /\ maxCWin' = m
           /\ roundsWithoutNacks' = rwn
           /\ currentState' = st
           /\ currentCWin' = UpdateWindow(st, currentCWin, m)
           /\ gotNack' = FALSE
           /\ gotFutureNack' = 0

\* updateStats() at a round end: it returns early on an empty path table,
\* or when the fastest and slowest active paths are not both in the table
UpdateStats ==
    IF pathTable = {}
    THEN UNCHANGED <<maxCWin, currentCWin, currentState, gotNack, gotFutureNack,
                     roundsWithoutNacks>>
    ELSE \/ UNCHANGED <<maxCWin, currentCWin, currentState, gotNack, gotFutureNack,
                        roundsWithoutNacks>>
         \/ StatsUpdate

\* checkRound(): the round may or may not have elapsed
CheckRound ==
    /\ pc = "check"
    /\ pc' = "loop"
    /\ \/ UNCHANGED <<maxCWin, currentCWin, currentState, gotNack, gotFutureNack,
                      roundsWithoutNacks>>
       \/ UpdateStats
    /\ UNCHANGED <<running, inflight, inflightCount, rtx, rtxTimerUsed, nackTimerUsed,
                   actualSegment, lastSegNacked, lastReceived, pathTable, probeSeq,
                   receivedProbe, pending>>

\* the loop condition fails: the window is full
PacingDone ==
    /\ pc = "loop"
    /\ inflightCount >= currentCWin
    /\ pc' = "idle"
    /\ UNCHANGED <<running, inflight, inflightCount, rtx, rtxTimerUsed, nackTimerUsed,
                   actualSegment, lastSegNacked, lastReceived, currentCWin, maxCWin,
                   currentState, gotNack, gotFutureNack, roundsWithoutNacks,
                   pathTable, probeSeq, receivedProbe, pending>>

\* actualSegment_ is skipped: pending, or already received or lost
SkipSegment(a) ==
    \/ a \in pending
    \/ /\ inflight[Slot(a)].state \in {"received", "lost"}
       /\ inflight[Slot(a)].sequence = a

PacingSkip ==
    /\ pc = "loop"
    /\ inflightCount < currentCWin
    /\ SkipSegment(actualSegment)
    /\ actualSegment' = NextSegment(actualSegment)
    /\ UNCHANGED <<running, pc, inflight, inflightCount, rtx, rtxTimerUsed,
                   nackTimerUsed, lastSegNacked, lastReceived, currentCWin, maxCWin,
                   currentState, gotNack, gotFutureNack, roundsWithoutNacks,
                   pathTable, probeSeq, receivedProbe, pending>>

\* whether the on_interest_output callback of sendInterest() (rtc.cc:423-425),
\* application code, calls stop()
CallbackStops == IF AppStops THEN BOOLEAN ELSE {FALSE}

\* actualSegment_ takes its slot, whatever the slot held, and sendInterest()
\* runs: the callback may stop the protocol, and a stopped protocol returns
\* at rtc.cc:427 before the portal send and the count increment; the loop
\* itself never looks at is_running_ again; checkRound() follows
PacingSend ==
    /\ pc = "loop"
    /\ inflightCount < currentCWin
    /\ ~SkipSegment(actualSegment)
    /\ inflight' = [inflight EXCEPT ![Slot(actualSegment)] =
                        [state |-> "sent", sequence |-> actualSegment]]
    /\ actualSegment' = NextSegment(actualSegment)
    /\ \E stops \in CallbackStops :
          /\ running' = (running /\ ~stops)
          /\ pending' = IF running' THEN pending \cup {actualSegment} ELSE pending
          /\ inflightCount' = IF running' THEN (inflightCount + 1) % UInt32
                              ELSE inflightCount
    /\ pc' = "check"
    /\ UNCHANGED <<rtx, rtxTimerUsed, nackTimerUsed, lastSegNacked,
                   lastReceived, currentCWin, maxCWin, currentState, gotNack,
                   gotFutureNack, roundsWithoutNacks, pathTable, probeSeq,
                   receivedProbe>>

-----------------------------------------------------------------------------

Next ==
    \/ Resume
    \/ Stop
    \/ ProbeTimer
    \/ RtxTimer
    \/ NackTimer
    \/ \E s \in Names : OnTimeout(s)
    \/ \E s \in Names, ps \in DataSeqs, rate \in {0, 1}, label \in Paths :
          ps # s /\ OnContentNack(s, ps, rate, label)
    \/ \E s \in DataSeqs, label \in Paths : OnContentData(s, label)
    \/ CheckRound
    \/ PacingDone
    \/ PacingSkip
    \/ PacingSend

Spec == Init /\ [][Next]_vars

\* scheduleNextInterests() runs on the protocol's one thread, and while it
\* loops no handler may run: the loop's next step is always taken
LoopFairness == WF_vars(CheckRound \/ PacingDone \/ PacingSkip \/ PacingSend)

FairSpec == Spec /\ LoopFairness

-----------------------------------------------------------------------------
(* Properties *)

TypeOK ==
    /\ running \in BOOLEAN
    /\ pc \in {"idle", "check", "loop"}
    /\ inflight \in [Slots -> [state : SlotStates, sequence : Names]]
    /\ inflightCount \in 0 .. (UInt32 - 1)
    /\ rtx \in [Names -> {NoRtx} \cup Nat]
    /\ rtxTimerUsed \in BOOLEAN
    /\ nackTimerUsed \in BOOLEAN
    /\ actualSegment \in DataSeqs
    /\ lastSegNacked \in DataSeqs
    /\ lastReceived \in DataSeqs
    /\ currentCWin \in Nat
    /\ maxCWin \in Nat
    /\ currentState \in Phases
    /\ gotNack \in BOOLEAN
    /\ gotFutureNack \in 0 .. 2
    /\ roundsWithoutNacks \in 0 .. RoundsInSync
    /\ pathTable \subseteq Paths
    /\ probeSeq \in ProbeSeqs
    /\ receivedProbe \in BOOLEAN
    /\ pending \subseteq Names

\* The rtx timer is edge-triggered (checkRtx() disarms it on an empty map):
\* whenever a retransmission is pending the timer is armed, so no entry of
\* interestRetransmissions_ is left without a timer to resend it.
RtxTimerArmed == RtxKeys(rtx) # {} => rtxTimerUsed

\* Property 3 of the spec: retransmit() erases an entry once it has been
\* resent HICN_MAX_RTX times, so no retransmission count exceeds it.
RtxBound == \A i \in RtxKeys(rtx) : rtx[i] <= MaxRtx

\* After a "past" NACK announcing production segment ps, onNack() purges the
\* retransmissions below ps and addRetransmissions() never adds one below
\* lastSegNacked_: no segment the producer declared past is retransmitted.
RtxAboveLastNack == \A i \in RtxKeys(rtx) : i >= lastSegNacked

\* Every slot marked sent_ belongs to an interest still pending in the
\* portal, so its timeout, NACK or Data will come and decrement the count.
SentSlotPending ==
    \A k \in Slots : inflight[k].state = "sent" => inflight[k].sequence \in pending

\* Property 1 of the spec: whenever a round end runs updateWindow(), the
\* window it leaves lies between HICN_MIN_CWIN and maxCWin_.
WindowBounds ==
    [][pc = "check" /\ pc' = "loop" /\ StatsUpdate =>
         MinCWin <= currentCWin' /\ currentCWin' <= maxCWin']_vars

\* The comment of onContentObject() (rtc.cc:797-800): the slot states exist
\* so that inflightInterestsCount_ is never decreased twice for one interest;
\* so no timeout, NACK or Data ever decrements the uint32 counter from 0,
\* which would wrap it to 2^32 - 1 and stop the pacing loop at rtc.cc:444.
CountNoUnderflow ==
    [][~ (inflightCount = 0 /\ inflightCount' = UInt32 - 1)]_vars

\* A protocol stopped inside scheduleNextInterests() gets back to its event
\* loop: sendInterest() returns early when a callback has stopped the
\* protocol (rtc.cc:427), so the code expects stop() there, and the loop at
\* rtc.cc:444 must then end for portal_->stopEventsLoop() to take effect.
PacingLoopEnds == (pc = "loop" /\ ~running) ~> pc = "idle"

\* A segment already received is never queued for retransmission (the
\* spec's pacing skips received segments; addRetransmissions() fills the gap
\* after lastReceived_).
NoRtxOfReceived ==
    \A i \in RtxKeys(rtx) : ~ /\ inflight[Slot(i)].sequence = i
                              /\ inflight[Slot(i)].state = "received"

=============================================================================
