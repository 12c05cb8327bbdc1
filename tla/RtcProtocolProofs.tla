------------------------- MODULE RtcProtocolProofs -------------------------
(***************************************************************************)
(* Proofs about the RTC consumer model RtcProtocol, for every value of the *)
(* constants that satisfies the module's assumptions.                      *)
(***************************************************************************)
EXTENDS RtcProtocol, TLAPS

\* the retransmission maps the model can hold
RtxMaps == [Names -> {NoRtx} \cup Nat]

USE BufSizeAssumption, UInt32Assumption, ZeroStateAssumption, SeqAssumption,
    RtxAssumption, WinAssumption

-----------------------------------------------------------------------------
(* Lemmas about the helpers *)

\* the ring index of any suffix is a slot
LEMMA SlotType ==
    ASSUME NEW s \in Int
    PROVE  Slot(s) \in Slots
BY DEF Slot, Slots

\* the pacing loop's next suffix stays below the probe range
LEMMA NextSegmentType ==
    ASSUME NEW a \in Int
    PROVE  NextSegment(a) \in DataSeqs
BY DEF NextSegment, DataSeqs

\* the data suffixes are suffixes
LEMMA DataSeqsNames == DataSeqs \subseteq Names /\ ProbeSeqs \subseteq Names
BY DEF DataSeqs, ProbeSeqs, Names

\* retransmit() keeps only keys of the map
LEMMA RtxKeptKeys ==
    ASSUME NEW m
    PROVE  RtxKept(m) \subseteq RtxKeys(m) /\ RtxKeys(m) \subseteq Names
BY DEF RtxKept, RtxKeys

\* computeMaxWindow() yields a natural window
LEMMA ComputeMaxWindowType ==
    ASSUME NEW st, NEW rate, NEW bdp \in Nat, NEW waiting \in WinSizes, NEW mw \in Nat
    PROVE  ComputeMaxWindow(st, rate, bdp, waiting, mw) \in Nat
BY DEF ComputeMaxWindow, min

\* updateWindow() yields a natural window
LEMMA UpdateWindowType ==
    ASSUME NEW st, NEW cw \in Nat, NEW mw \in Nat
    PROVE  UpdateWindow(st, cw, mw) \in Nat
BY DEF UpdateWindow, min, max

\* increaseWindow() yields a natural window
LEMMA IncreaseWindowType ==
    ASSUME NEW st, NEW cw \in Nat, NEW mw \in Nat
    PROVE  IncreaseWindow(st, cw, mw) \in Nat
BY DEF IncreaseWindow, min

\* decreaseWindow() yields a natural window
LEMMA DecreaseWindowType ==
    ASSUME NEW st, NEW cw \in Nat, NEW mw \in Nat, NEW fn
    PROVE  DecreaseWindow(st, cw, mw, fn) \in Nat
BY DEF DecreaseWindow, min, max

\* what checkRtx() does to the map, the timer and the pending interests
LEMMA CheckRtxEffect ==
    ASSUME NEW m \in RtxMaps, NEW gone, NEW pend \in SUBSET Names,
           CheckRtx(m, gone, pend)
    PROVE  /\ rtx' \in RtxMaps
           /\ RtxKeys(rtx') \subseteq RtxKeys(m)
           /\ (\A i \in RtxKeys(m) : m[i] <= MaxRtx)
                 => \A i \in RtxKeys(rtx') : rtx'[i] <= MaxRtx
           /\ RtxKeys(rtx') # {} => rtxTimerUsed'
           /\ rtxTimerUsed' \in BOOLEAN
           /\ pend \subseteq pending'
           /\ pending' \subseteq pend \cup RtxKeys(m)
<1>1. CASE RtxKeys(m) = {}
  BY <1>1 DEF CheckRtx, RtxWithout, RtxErase, RtxKeys, RtxMaps
<1>2. CASE RtxKeys(m) # {}
  <2>1. PICK due \in SUBSET RtxKept(m) :
             /\ rtxTimerUsed' = TRUE
             /\ rtx' = RtxWithout(RtxAfter(m, due), gone)
             /\ pending' = pend \cup due
    BY <1>2 DEF CheckRtx
  <2>2. /\ RtxKept(m) \subseteq RtxKeys(m)
        /\ \A i \in RtxKept(m) : m[i] < MaxRtx
    BY DEF RtxKept, RtxKeys
  <2>3. RtxAfter(m, due) \in RtxMaps
    BY <2>2 DEF RtxAfter, RtxMaps, RtxKeys, NoRtx
  <2>4. RtxKeys(RtxAfter(m, due)) \subseteq RtxKept(m)
    BY DEF RtxAfter, RtxKeys
  <2>5. \A i \in RtxKeys(RtxAfter(m, due)) : RtxAfter(m, due)[i] <= MaxRtx
    BY <2>2, <2>4 DEF RtxAfter, RtxKeys, RtxMaps, NoRtx
  <2>6. /\ rtx' \in RtxMaps
        /\ RtxKeys(rtx') \subseteq RtxKeys(RtxAfter(m, due))
        /\ \A i \in RtxKeys(rtx') : rtx'[i] = RtxAfter(m, due)[i]
    BY <2>1, <2>3 DEF RtxWithout, RtxErase, RtxKeys, RtxMaps
  <2>. QED
    BY <2>1, <2>2, <2>4, <2>5, <2>6
<1>. QED
  BY <1>1, <1>2

\* what addRetransmissions() does, including the checkRtx() it may call
LEMMA AddRetransmissionsEffect ==
    ASSUME NEW start, NEW stop, NEW gone, NEW pend \in SUBSET Names,
           rtx \in RtxMaps, rtxTimerUsed \in BOOLEAN,
           AddRetransmissions(start, stop, gone, pend)
    PROVE  /\ rtx' \in RtxMaps
           /\ RtxKeys(rtx') \subseteq RtxKeys(rtx) \cup {i \in Names : lastSegNacked <= i}
           /\ (\A i \in RtxKeys(rtx) : rtx[i] <= MaxRtx)
                 => \A i \in RtxKeys(rtx') : rtx'[i] <= MaxRtx
           /\ (rtxTimerUsed /\ rtxTimerUsed' = rtxTimerUsed) \/ (RtxKeys(rtx') # {} => rtxTimerUsed')
           /\ rtxTimerUsed' \in BOOLEAN
           /\ pend \subseteq pending'
           /\ pending' \subseteq pend \cup RtxKeys(rtx) \cup {i \in Names : lastSegNacked <= i}
<1>. DEFINE added == {i \in start .. (stop - 1) : rtx[i] = NoRtx /\ lastSegNacked <= i}
            m     == [i \in Names |-> IF i \in added THEN 0 ELSE rtx[i]]
<1>1. /\ m \in RtxMaps
      /\ RtxKeys(m) \subseteq RtxKeys(rtx) \cup {i \in Names : lastSegNacked <= i}
      /\ (\A i \in RtxKeys(rtx) : rtx[i] <= MaxRtx) => \A i \in RtxKeys(m) : m[i] <= MaxRtx
  BY DEF RtxMaps, RtxKeys, NoRtx
<1>2. CASE rtxTimerUsed
  <2>1. /\ rtx' = RtxWithout(m, gone)
        /\ pending' = pend
        /\ rtxTimerUsed' = rtxTimerUsed
    BY <1>2 DEF AddRetransmissions
  <2>2. /\ rtx' \in RtxMaps
        /\ RtxKeys(rtx') \subseteq RtxKeys(m)
        /\ \A i \in RtxKeys(rtx') : rtx'[i] = m[i]
    BY <1>1, <2>1 DEF RtxWithout, RtxErase, RtxKeys, RtxMaps
  <2>. QED
    BY <1>1, <1>2, <2>1, <2>2
<1>3. CASE ~rtxTimerUsed
  <2>1. CheckRtx(m, gone, pend)
    BY <1>3 DEF AddRetransmissions
  <2>. QED
    BY <1>1, <2>1, CheckRtxEffect
<1>. QED
  BY <1>2, <1>3

-----------------------------------------------------------------------------
(* Type correctness *)

\* the state reset() leaves is well typed
LEMMA InitTypeOK == Init => TypeOK
<1>. SUFFICES ASSUME Init PROVE TypeOK
  OBVIOUS
<1>1. inflight \in [Slots -> [state : SlotStates, sequence : Names]]
  <2>1. 0 \in Names
    BY DEF Names
  <2>. QED
    BY <2>1 DEF Init
<1>2. rtx \in [Names -> {NoRtx} \cup Nat]
  BY DEF Init
<1>3. /\ actualSegment \in DataSeqs
      /\ lastSegNacked \in DataSeqs
      /\ lastReceived \in DataSeqs
  BY DEF Init, DataSeqs
<1>4. /\ inflightCount \in 0 .. (UInt32 - 1)
      /\ currentCWin \in Nat
      /\ maxCWin \in Nat
      /\ roundsWithoutNacks \in 0 .. RoundsInSync
      /\ gotFutureNack \in 0 .. 2
  BY DEF Init
<1>. QED
  BY <1>1, <1>2, <1>3, <1>4 DEF Init, TypeOK, Phases

\* every handler, timer and pacing step keeps the state well typed
LEMMA NextTypeOK == TypeOK /\ [Next]_vars => TypeOK'
<1>. SUFFICES ASSUME TypeOK, [Next]_vars PROVE TypeOK'
  OBVIOUS
<1>. USE DataSeqsNames
<1>1. CASE Resume
  <2>1. PICK p \in ProbeSeqs : ProbeRtt(p)
    BY <1>1 DEF Resume
  <2>2. pending' \subseteq Names /\ probeSeq' \in ProbeSeqs /\ receivedProbe' \in BOOLEAN
    BY <2>1 DEF ProbeRtt, TypeOK
  <2>3. inflightCount' \in 0 .. (UInt32 - 1)
    BY <1>1 DEF Resume
  <2>. QED
    BY <1>1, <2>2, <2>3 DEF Resume, TypeOK
<1>2. CASE Stop
  BY <1>2 DEF Stop, TypeOK
<1>3. CASE ProbeTimer
  BY <1>3 DEF ProbeTimer, ProbeRtt, TypeOK
<1>4. CASE RtxTimer
  <2>1. rtx \in RtxMaps /\ pending \in SUBSET Names
    BY DEF TypeOK, RtxMaps
  <2>2. CheckRtx(rtx, NoRtx, pending)
    BY <1>4 DEF RtxTimer
  <2>3. /\ rtx' \in RtxMaps
        /\ rtxTimerUsed' \in BOOLEAN
        /\ pending' \subseteq pending \cup RtxKeys(rtx)
    BY <2>1, <2>2, CheckRtxEffect
  <2>4. pending' \subseteq Names
    BY <2>1, <2>3, RtxKeptKeys
  <2>. QED
    BY <1>4, <2>3, <2>4 DEF RtxTimer, TypeOK, RtxMaps
<1>5. CASE NackTimer
  BY <1>5 DEF NackTimer, TypeOK
<1>6. ASSUME NEW s \in Names, OnTimeout(s) PROVE TypeOK'
  <2>. DEFINE k == Slot(s)
  <2>1. k \in Slots
    BY SlotType DEF Names
  <2>2. /\ inflightCount' \in 0 .. (UInt32 - 1)
        /\ inflight' \in [Slots -> [state : SlotStates, sequence : Names]]
    BY <1>6, <2>1 DEF OnTimeout, TypeOK, SlotStates
  <2>3. /\ rtx' \in RtxMaps
        /\ rtxTimerUsed' \in BOOLEAN
        /\ pending' \subseteq Names
    <3>1. CASE rtx' = RtxErase(rtx, s) /\ pending' = pending \ {s}
                  /\ UNCHANGED rtxTimerUsed
      BY <3>1 DEF TypeOK, RtxErase, RtxMaps
    <3>2. CASE AddRetransmissions(s, (s + 1) % SeqMod, NoRtx, pending \ {s})
      BY <3>2, AddRetransmissionsEffect, RtxKeptKeys DEF TypeOK, RtxMaps
    <3>. QED
      BY <1>6, <3>1, <3>2 DEF OnTimeout
  <2>. QED
    BY <1>6, <2>2, <2>3 DEF OnTimeout, TypeOK, RtxMaps
<1>7. ASSUME NEW s \in Names, NEW ps \in DataSeqs, NEW rate \in {0, 1},
             NEW label \in Paths, OnContentNack(s, ps, rate, label)
      PROVE  TypeOK'
  <2>1. CASE s = probeSeq /\ ~receivedProbe
    BY <1>7, <2>1 DEF OnContentNack, TypeOK
  <2>2. CASE ~(s = probeSeq /\ ~receivedProbe)
    <3>1. Slot(s) \in Slots
      BY SlotType DEF Names
    <3>2. \E waiting \in WinSizes :
             \/ /\ maxCWin' = ComputeMaxWindow("SYNC", 1, 0, waiting, maxCWin)
                /\ currentCWin' = IncreaseWindow("SYNC", currentCWin, maxCWin')
             \/ /\ maxCWin' = ComputeMaxWindow(currentState, 1, 0, waiting, maxCWin)
                /\ currentCWin' = DecreaseWindow(currentState, currentCWin, maxCWin',
                                                 gotFutureNack')
             \/ UNCHANGED <<maxCWin, currentCWin>>
      BY <1>7, <2>2 DEF OnContentNack
    <3>3. /\ currentCWin' \in Nat
          /\ maxCWin' \in Nat
      <4>1. PICK waiting \in WinSizes :
               \/ /\ maxCWin' = ComputeMaxWindow("SYNC", 1, 0, waiting, maxCWin)
                  /\ currentCWin' = IncreaseWindow("SYNC", currentCWin, maxCWin')
               \/ /\ maxCWin' = ComputeMaxWindow(currentState, 1, 0, waiting, maxCWin)
                  /\ currentCWin' = DecreaseWindow(currentState, currentCWin, maxCWin',
                                                   gotFutureNack')
               \/ UNCHANGED <<maxCWin, currentCWin>>
        BY <3>2
      <4>2. /\ ComputeMaxWindow("SYNC", 1, 0, waiting, maxCWin) \in Nat
            /\ ComputeMaxWindow(currentState, 1, 0, waiting, maxCWin) \in Nat
        BY ComputeMaxWindowType DEF TypeOK
      <4>3. maxCWin' \in Nat
        BY <4>1, <4>2 DEF TypeOK
      <4>4. /\ IncreaseWindow("SYNC", currentCWin, maxCWin') \in Nat
            /\ DecreaseWindow(currentState, currentCWin, maxCWin', gotFutureNack') \in Nat
        BY <4>3, IncreaseWindowType, DecreaseWindowType DEF TypeOK
      <4>5. currentCWin' \in Nat
        BY <4>1, <4>4 DEF TypeOK
      <4>. QED
        BY <4>3, <4>5
    <3>4. actualSegment' \in {ps, max(ps + 1, actualSegment) % MinProbeSeq,
                              (ps + 1) % MinProbeSeq, actualSegment}
      BY <1>7, <2>2 DEF OnContentNack
    <3>5. actualSegment' \in DataSeqs
      BY <3>4 DEF TypeOK, DataSeqs, max
    <3>6. lastSegNacked' \in {ps, lastSegNacked}
      BY <1>7, <2>2 DEF OnContentNack
    <3>7. \E purged \in RtxMaps : rtx' = RtxErase(purged, s)
      BY <1>7, <2>2 DEF OnContentNack, TypeOK, RtxMaps
    <3>8. rtx' \in RtxMaps
      BY <3>7 DEF RtxErase, RtxMaps
    <3>9. \E st \in SlotStates : inflight' = [inflight EXCEPT ![Slot(s)].state = st]
      BY <1>7, <2>2 DEF OnContentNack, SlotStates
    <3>10. inflight' \in [Slots -> [state : SlotStates, sequence : Names]]
      BY <3>1, <3>9 DEF TypeOK
    <3>11. inflightCount' \in {(inflightCount - 1) % UInt32, inflightCount}
      BY <1>7, <2>2 DEF OnContentNack
    <3>12. inflightCount' \in 0 .. (UInt32 - 1)
      BY <3>11 DEF TypeOK
    <3>13. /\ gotFutureNack' \in {min(gotFutureNack + 1, 2), gotFutureNack}
           /\ currentState' \in {"SYNC", "NORMAL", currentState}
           /\ pc' \in {"idle", "check"}
           /\ pathTable' \in {pathTable \cup {label}, pathTable}
           /\ nackTimerUsed' \in BOOLEAN
           /\ gotNack' \in BOOLEAN
      BY <1>7, <2>2 DEF OnContentNack
    <3>14. /\ gotFutureNack' \in 0 .. 2
           /\ currentState' \in Phases
           /\ pathTable' \subseteq Paths
      BY <3>13 DEF TypeOK, min, Phases
    <3>15. UNCHANGED <<running, rtxTimerUsed, lastReceived, roundsWithoutNacks,
                       probeSeq, receivedProbe>> /\ pending' \subseteq Names
      BY <1>7, <2>2 DEF OnContentNack, TypeOK
    <3>. QED
      BY <3>3, <3>5, <3>6, <3>8, <3>10, <3>12, <3>13, <3>14, <3>15 DEF TypeOK, RtxMaps
  <2>. QED
    BY <2>1, <2>2
<1>8. ASSUME NEW s \in DataSeqs, NEW label \in Paths, OnContentData(s, label)
      PROVE  TypeOK'
  <2>1. Slot(s) \in Slots
    BY SlotType DEF DataSeqs
  <2>2. currentCWin' \in Nat
    BY <1>8, IncreaseWindowType DEF OnContentData, TypeOK
  <2>3. /\ rtx' \in RtxMaps
        /\ rtxTimerUsed' \in BOOLEAN
        /\ pending' \subseteq Names
        /\ pathTable' \subseteq Paths
        /\ lastReceived' \in DataSeqs
    <3>. DEFINE first == inflight[Slot(s)].state = "sent" /\ rtx[s] = NoRtx
    <3>1. CASE first
      BY <1>8, <3>1, AddRetransmissionsEffect, RtxKeptKeys DEF OnContentData, TypeOK, RtxMaps
    <3>2. CASE ~first
      BY <1>8, <3>2 DEF OnContentData, TypeOK, RtxErase, RtxMaps
    <3>. QED
      BY <3>1, <3>2
  <2>. QED
    BY <1>8, <2>1, <2>2, <2>3 DEF OnContentData, TypeOK, RtxMaps, SlotStates
<1>9. CASE CheckRound
  <2>1. CASE UpdateStats /\ pathTable # {}
    <3>1. \/ UNCHANGED <<maxCWin, currentCWin, currentState, gotNack, gotFutureNack,
                         roundsWithoutNacks>>
          \/ \E rate \in {0, 1}, bdp \in {0} \cup WinSizes, waiting \in WinSizes :
               /\ maxCWin' = ComputeMaxWindow(currentState, rate, bdp, waiting, maxCWin)
               /\ roundsWithoutNacks' \in {0, min(roundsWithoutNacks + 1, RoundsInSync)}
               /\ currentState' \in {"NORMAL", currentState}
               /\ currentCWin' = UpdateWindow(currentState', currentCWin, maxCWin')
               /\ gotNack' = FALSE
               /\ gotFutureNack' = 0
      BY <2>1 DEF UpdateStats, StatsUpdate
    <3>2. /\ maxCWin' \in Nat
          /\ currentCWin' \in Nat
          /\ roundsWithoutNacks' \in 0 .. RoundsInSync
          /\ currentState' \in Phases
          /\ gotNack' \in BOOLEAN
          /\ gotFutureNack' \in 0 .. 2
      <4>1. CASE UNCHANGED <<maxCWin, currentCWin, currentState, gotNack, gotFutureNack,
                            roundsWithoutNacks>>
        BY <4>1 DEF TypeOK
      <4>2. ASSUME NEW rate \in {0, 1}, NEW bdp \in {0} \cup WinSizes,
                   NEW waiting \in WinSizes,
                   /\ maxCWin' = ComputeMaxWindow(currentState, rate, bdp, waiting, maxCWin)
                   /\ roundsWithoutNacks' \in {0, min(roundsWithoutNacks + 1, RoundsInSync)}
                   /\ currentState' \in {"NORMAL", currentState}
                   /\ currentCWin' = UpdateWindow(currentState', currentCWin, maxCWin')
                   /\ gotNack' = FALSE
                   /\ gotFutureNack' = 0
            PROVE  /\ maxCWin' \in Nat
                   /\ currentCWin' \in Nat
                   /\ roundsWithoutNacks' \in 0 .. RoundsInSync
                   /\ currentState' \in Phases
                   /\ gotNack' \in BOOLEAN
                   /\ gotFutureNack' \in 0 .. 2
        <5>1. maxCWin' \in Nat
          BY <4>2, ComputeMaxWindowType DEF TypeOK
        <5>2. currentCWin' \in Nat
          BY <4>2, <5>1, UpdateWindowType DEF TypeOK
        <5>3. roundsWithoutNacks' \in 0 .. RoundsInSync
          BY <4>2 DEF TypeOK, min
        <5>4. currentState' \in Phases
          BY <4>2 DEF TypeOK, Phases
        <5>5. gotNack' \in BOOLEAN
          BY <4>2
        <5>6. gotFutureNack' \in 0 .. 2
          BY <4>2
        <5>. QED
          BY <5>1, <5>2, <5>3, <5>4, <5>5, <5>6
      <4>. QED
        BY <3>1, <4>1, <4>2
    <3>. QED
      BY <1>9, <3>2 DEF CheckRound, TypeOK
  <2>. QED
    BY <1>9, <2>1 DEF CheckRound, UpdateStats, TypeOK
<1>10. CASE PacingDone
  BY <1>10 DEF PacingDone, TypeOK
<1>11. CASE PacingSkip
  BY <1>11, NextSegmentType DEF PacingSkip, TypeOK, DataSeqs
<1>12. CASE PacingSend
  <2>1. Slot(actualSegment) \in Slots
    BY SlotType DEF TypeOK, DataSeqs
  <2>2. PICK stops \in CallbackStops :
          /\ running' = (running /\ ~stops)
          /\ pending' = IF running' THEN pending \cup {actualSegment} ELSE pending
          /\ inflightCount' = IF running' THEN (inflightCount + 1) % UInt32
                              ELSE inflightCount
    BY <1>12 DEF PacingSend
  <2>3. stops \in BOOLEAN
    BY AppStopsAssumption DEF CallbackStops
  <2>. QED
    <3>1. inflight' \in [Slots -> [state : SlotStates, sequence : Names]]
      BY <1>12, <2>1 DEF PacingSend, TypeOK, SlotStates
    <3>2. actualSegment' \in DataSeqs /\ pending' \subseteq Names
      BY <1>12, <2>2, NextSegmentType DEF PacingSend, TypeOK, DataSeqs
    <3>3. inflightCount' \in 0 .. (UInt32 - 1) /\ running' \in BOOLEAN
      BY <2>2, <2>3 DEF TypeOK
    <3>. QED
      BY <1>12, <3>1, <3>2, <3>3 DEF PacingSend, TypeOK
<1>13. CASE UNCHANGED vars
  BY <1>13 DEF vars, TypeOK
<1>. QED
  BY <1>1, <1>2, <1>3, <1>4, <1>5, <1>6, <1>7, <1>8, <1>9, <1>10, <1>11, <1>12, <1>13
     DEF Next

\* Type correctness of the whole model: every reachable state of the RTC
\* consumer (ring slots, counters, retransmission map, window, phase and
\* suffixes) has the types TypeOK gives it.
THEOREM TypeCorrect == Spec => []TypeOK
BY InitTypeOK, NextTypeOK, PTL DEF Spec

-----------------------------------------------------------------------------
(* The retransmission map *)

\* the three invariants of interestRetransmissions_ checked by the runs
RtxInv == RtxTimerArmed /\ RtxAboveLastNack /\ RtxBound

\* erasing a key of a retransmission map keeps the other entries
LEMMA RtxEraseKeys ==
    ASSUME NEW m \in RtxMaps, NEW s \in Names
    PROVE  /\ RtxErase(m, s) \in RtxMaps
           /\ RtxKeys(RtxErase(m, s)) \subseteq RtxKeys(m)
           /\ \A i \in RtxKeys(RtxErase(m, s)) : RtxErase(m, s)[i] = m[i]
BY DEF RtxErase, RtxKeys, RtxMaps

\* the map reset() leaves is empty
LEMMA InitRtxInv == Init => RtxInv
BY DEF Init, RtxInv, RtxTimerArmed, RtxAboveLastNack, RtxBound, RtxKeys, NoRtx

\* no step arms an entry without the timer, adds one below lastSegNacked_
\* or counts one past HICN_MAX_RTX
LEMMA NextRtxInv == TypeOK /\ RtxInv /\ [Next]_vars => RtxInv'
<1>. SUFFICES ASSUME TypeOK, RtxInv, [Next]_vars PROVE RtxInv'
  OBVIOUS
<1>. USE DEF RtxInv
<1>0. rtx \in RtxMaps /\ rtxTimerUsed \in BOOLEAN /\ pending \in SUBSET Names
  BY DEF TypeOK, RtxMaps
\* the steps that leave the map, the timer flag and lastSegNacked_ alone
<1>1. CASE UNCHANGED <<rtx, rtxTimerUsed, lastSegNacked>>
  BY <1>1 DEF RtxTimerArmed, RtxAboveLastNack, RtxBound, RtxKeys
<1>2. CASE RtxTimer
  <2>1. CheckRtx(rtx, NoRtx, pending) /\ UNCHANGED lastSegNacked
    BY <1>2 DEF RtxTimer
  <2>. QED
    BY <1>0, <2>1, CheckRtxEffect DEF RtxTimerArmed, RtxAboveLastNack, RtxBound
<1>3. ASSUME NEW s \in Names, OnTimeout(s) PROVE RtxInv'
  <2>1. UNCHANGED lastSegNacked
    BY <1>3 DEF OnTimeout
  <2>2. CASE rtx' = RtxErase(rtx, s) /\ UNCHANGED rtxTimerUsed
    <3>1. RtxKeys(rtx') \subseteq RtxKeys(rtx) /\ \A i \in RtxKeys(rtx') : rtx'[i] = rtx[i]
      BY <1>0, <2>2, RtxEraseKeys
    <3>. QED
      BY <2>1, <2>2, <3>1 DEF RtxTimerArmed, RtxAboveLastNack, RtxBound
  <2>3. CASE AddRetransmissions(s, (s + 1) % SeqMod, NoRtx, pending \ {s})
    BY <1>0, <2>1, <2>3, AddRetransmissionsEffect
       DEF RtxTimerArmed, RtxAboveLastNack, RtxBound
  <2>. QED
    BY <1>3, <2>2, <2>3 DEF OnTimeout
<1>4. ASSUME NEW s \in Names, NEW ps \in DataSeqs, NEW rate \in {0, 1},
             NEW label \in Paths, OnContentNack(s, ps, rate, label)
      PROVE  RtxInv'
  <2>1. CASE s = probeSeq /\ ~receivedProbe
    BY <1>1, <1>4, <2>1 DEF OnContentNack
  <2>2. CASE ~(s = probeSeq /\ ~receivedProbe)
    <3>. DEFINE purged == [i \in Names |-> IF i < ps THEN NoRtx ELSE rtx[i]]
    <3>1. UNCHANGED rtxTimerUsed
      BY <1>4, <2>2 DEF OnContentNack
    <3>2. \/ rtx' = RtxErase(rtx, s) /\ UNCHANGED lastSegNacked
          \/ rtx' = RtxErase(purged, s) /\ lastSegNacked' = ps
      BY <1>4, <2>2 DEF OnContentNack
    <3>3. /\ purged \in RtxMaps
          /\ RtxKeys(purged) \subseteq RtxKeys(rtx)
          /\ \A i \in RtxKeys(purged) : purged[i] = rtx[i] /\ i >= ps
      BY <1>0 DEF RtxMaps, RtxKeys, NoRtx, DataSeqs, Names
    <3>4. CASE rtx' = RtxErase(rtx, s) /\ UNCHANGED lastSegNacked
      <4>1. RtxKeys(rtx') \subseteq RtxKeys(rtx) /\ \A i \in RtxKeys(rtx') : rtx'[i] = rtx[i]
        BY <1>0, <3>4, RtxEraseKeys
      <4>. QED
        BY <3>1, <3>4, <4>1 DEF RtxTimerArmed, RtxAboveLastNack, RtxBound
    <3>5. CASE rtx' = RtxErase(purged, s) /\ lastSegNacked' = ps
      <4>1. RtxKeys(rtx') \subseteq RtxKeys(purged) /\ \A i \in RtxKeys(rtx') : rtx'[i] = purged[i]
        BY <3>3, <3>5, RtxEraseKeys
      <4>. QED
        BY <3>1, <3>3, <3>5, <4>1 DEF RtxTimerArmed, RtxAboveLastNack, RtxBound
    <3>. QED
      BY <3>2, <3>4, <3>5
  <2>. QED
    BY <2>1, <2>2
<1>5. ASSUME NEW s \in DataSeqs, NEW label \in Paths, OnContentData(s, label)
      PROVE  RtxInv'
  <2>1. UNCHANGED lastSegNacked /\ s \in Names
    BY <1>5, DataSeqsNames DEF OnContentData
  <2>2. CASE AddRetransmissions((lastReceived + 1) % SeqMod, s, s, pending \ {s})
    BY <1>0, <2>1, <2>2, AddRetransmissionsEffect
       DEF RtxTimerArmed, RtxAboveLastNack, RtxBound
  <2>3. CASE rtx' = RtxErase(rtx, s) /\ UNCHANGED rtxTimerUsed
    <3>1. RtxKeys(rtx') \subseteq RtxKeys(rtx) /\ \A i \in RtxKeys(rtx') : rtx'[i] = rtx[i]
      BY <1>0, <2>1, <2>3, RtxEraseKeys
    <3>. QED
      BY <2>1, <2>3, <3>1 DEF RtxTimerArmed, RtxAboveLastNack, RtxBound
  <2>. QED
    BY <1>5, <2>2, <2>3 DEF OnContentData
<1>. QED
  BY <1>1, <1>2, <1>3, <1>4, <1>5
     DEF Next, vars, Resume, Stop, ProbeTimer, NackTimer, CheckRound, PacingDone,
         PacingSkip, PacingSend

\* The retransmission timer is armed whenever interestRetransmissions_ is
\* non-empty, no entry lies below the last past NACK (lastSegNacked_), and
\* no entry has been resent more than HICN_MAX_RTX times: the safety of the
\* edge-triggered rtx timer, of onNack()'s purge and of retransmit()'s cut,
\* for every buffer size, suffix range and retransmission limit.
THEOREM RtxSafety == Spec => [](RtxTimerArmed /\ RtxAboveLastNack /\ RtxBound)
<1>1. Init => TypeOK /\ RtxInv
  BY InitTypeOK, InitRtxInv
<1>2. TypeOK /\ RtxInv /\ [Next]_vars => TypeOK' /\ RtxInv'
  BY NextTypeOK, NextRtxInv
<1>. QED
  BY <1>1, <1>2, PTL DEF Spec, RtxInv

\* No suffix is ever held for more than HICN_MAX_RTX retransmissions:
\* retransmit() erases a suffix at the limit before it could count past it
THEOREM RtxBoundSafety == Spec => []RtxBound
BY RtxSafety, PTL

\* No suffix the producer declared past with a NACK is ever kept for
\* retransmission: onNack() purges below lastSegNacked_ and
\* addRetransmissions() adds nothing below it
THEOREM RtxAboveLastNackSafety == Spec => []RtxAboveLastNack
BY RtxSafety, PTL

-----------------------------------------------------------------------------
(* Sent slots *)

\* a slot in state sent_ holds a data suffix whose ring index is that slot:
\* only the pacing loop marks a slot sent_, and only at its own index
SentSlotHome ==
    \A k \in Slots : inflight[k].state = "sent" =>
                       /\ inflight[k].sequence \in DataSeqs
                       /\ Slot(inflight[k].sequence) = k

\* the inductive invariant behind SentSlotPending
SentInv == SentSlotHome /\ SentSlotPending

\* scheduleNextInterests() runs only on a running protocol: every handler
\* that enters it requires is_running_, and only a callback inside it could
\* stop the protocol
LoopRunning == pc # "idle" => running

\* a step that moves slot Slot(s) out of sent_ and drops at most the
\* pending interest s keeps SentInv
LEMMA ReleaseSlot ==
    ASSUME TypeOK, SentInv, NEW s \in Names, NEW st \in SlotStates \ {"sent"},
           inflight' = [inflight EXCEPT ![Slot(s)].state = st],
           pending \ {s} \subseteq pending'
    PROVE  SentInv'
<1>1. Slot(s) \in Slots
  BY SlotType DEF Names
<1>2. ASSUME NEW k \in Slots, inflight'[k].state = "sent"
      PROVE  /\ k # Slot(s)
             /\ inflight'[k] = inflight[k]
  BY <1>1, <1>2 DEF TypeOK
<1>3. ASSUME NEW k \in Slots, inflight'[k].state = "sent"
      PROVE  inflight'[k].sequence \in pending'
  <2>1. inflight[k].state = "sent" /\ k # Slot(s) /\ inflight'[k] = inflight[k]
    BY <1>2, <1>3
  <2>2. Slot(inflight[k].sequence) = k /\ inflight[k].sequence \in pending
    BY <2>1 DEF SentInv, SentSlotHome, SentSlotPending
  <2>3. inflight[k].sequence # s
    BY <2>1, <2>2
  <2>. QED
    BY <2>1, <2>2, <2>3
<1>. QED
  BY <1>2, <1>3 DEF SentInv, SentSlotHome, SentSlotPending

\* with slots zeroed to a state other than sent_, reset() leaves no slot sent
LEMMA InitSentInv == ZeroState # "sent" /\ Init => SentInv /\ LoopRunning
BY DEF Init, SentInv, SentSlotHome, SentSlotPending, LoopRunning

\* with callbacks that never stop the protocol, the pacing loop only runs
\* while the protocol runs
LEMMA NextLoopRunning ==
    ASSUME ~AppStops
    PROVE  LoopRunning /\ [Next]_vars => LoopRunning'
<1>. SUFFICES ASSUME LoopRunning, [Next]_vars PROVE LoopRunning'
  OBVIOUS
<1>1. CASE PacingSend
  <2>1. CallbackStops = {FALSE}
    BY DEF CallbackStops
  <2>. QED
    BY <1>1, <2>1 DEF PacingSend, LoopRunning
<1>2. CASE Resume \/ Stop \/ ProbeTimer \/ RtxTimer \/ NackTimer
  BY <1>2 DEF LoopRunning, Resume, Stop, ProbeTimer, RtxTimer, NackTimer
<1>3. ASSUME NEW s \in Names, OnTimeout(s) PROVE LoopRunning'
  BY <1>3 DEF OnTimeout, LoopRunning
<1>4. ASSUME NEW s \in Names, NEW ps \in DataSeqs, NEW rate \in {0, 1},
             NEW label \in Paths, OnContentNack(s, ps, rate, label)
      PROVE  LoopRunning'
  BY <1>4 DEF OnContentNack, LoopRunning
<1>5. ASSUME NEW s \in DataSeqs, NEW label \in Paths, OnContentData(s, label)
      PROVE  LoopRunning'
  BY <1>5 DEF OnContentData, LoopRunning
<1>6. CASE CheckRound \/ PacingDone \/ PacingSkip
  BY <1>6 DEF CheckRound, PacingDone, PacingSkip, LoopRunning
<1>7. CASE UNCHANGED vars
  BY <1>7 DEF vars, LoopRunning
<1>. QED
  BY <1>1, <1>2, <1>3, <1>4, <1>5, <1>6, <1>7 DEF Next

\* no handler leaves a sent_ slot without its pending interest
LEMMA NextSentInv ==
    ASSUME ~AppStops
    PROVE  TypeOK /\ SentInv /\ LoopRunning /\ [Next]_vars => SentInv'
<1>. SUFFICES ASSUME TypeOK, SentInv, LoopRunning, [Next]_vars PROVE SentInv'
  OBVIOUS
<1>0. pending \in SUBSET Names
  BY DEF TypeOK
\* the steps that leave the slots alone and keep every pending interest
<1>1. CASE UNCHANGED inflight /\ pending \subseteq pending'
  BY <1>1 DEF SentInv, SentSlotHome, SentSlotPending
<1>2. CASE RtxTimer
  <2>1. CheckRtx(rtx, NoRtx, pending) /\ UNCHANGED inflight
    BY <1>2 DEF RtxTimer
  <2>2. rtx \in RtxMaps
    BY DEF TypeOK, RtxMaps
  <2>. QED
    BY <1>1, <1>0, <2>1, <2>2, CheckRtxEffect
<1>3. ASSUME NEW s \in Names, OnTimeout(s) PROVE SentInv'
  <2>1. pending \ {s} \subseteq pending'
    <3>1. CASE AddRetransmissions(s, (s + 1) % SeqMod, NoRtx, pending \ {s})
      BY <1>0, <3>1, AddRetransmissionsEffect DEF TypeOK, RtxMaps
    <3>. QED
      BY <1>3, <3>1 DEF OnTimeout
  <2>2. \E st \in SlotStates \ {"sent"} : inflight' = [inflight EXCEPT ![Slot(s)].state = st]
    <3>1. inflight[Slot(s)].state \in SlotStates
      BY SlotType DEF TypeOK, Names
    <3>. QED
      BY <1>3, <3>1 DEF OnTimeout, SlotStates
  <2>. QED
    BY <1>3, <2>1, <2>2, ReleaseSlot
<1>4. ASSUME NEW s \in Names, NEW ps \in DataSeqs, NEW rate \in {0, 1},
             NEW label \in Paths, OnContentNack(s, ps, rate, label)
      PROVE  SentInv'
  <2>1. pending' = pending \ {s}
    BY <1>4 DEF OnContentNack
  <2>2. CASE s = probeSeq /\ ~receivedProbe
    <3>1. UNCHANGED inflight
      BY <1>4, <2>2 DEF OnContentNack
    <3>2. s \notin DataSeqs
      BY <2>2 DEF TypeOK, DataSeqs, ProbeSeqs
    <3>. QED
      BY <2>1, <3>1, <3>2 DEF SentInv, SentSlotHome, SentSlotPending
  <2>3. CASE ~(s = probeSeq /\ ~receivedProbe)
    <3>1. \E st \in SlotStates \ {"sent"} : inflight' = [inflight EXCEPT ![Slot(s)].state = st]
      BY <1>4, <2>3 DEF OnContentNack, SlotStates
    <3>. QED
      BY <1>4, <2>1, <3>1, ReleaseSlot
  <2>. QED
    BY <2>2, <2>3
<1>5. ASSUME NEW s \in DataSeqs, NEW label \in Paths, OnContentData(s, label)
      PROVE  SentInv'
  <2>1. s \in Names
    BY DataSeqsNames
  <2>2. pending \ {s} \subseteq pending'
    <3>1. CASE AddRetransmissions((lastReceived + 1) % SeqMod, s, s, pending \ {s})
      BY <1>0, <3>1, AddRetransmissionsEffect DEF TypeOK, RtxMaps
    <3>. QED
      BY <1>5, <3>1 DEF OnContentData
  <2>3. inflight' = [inflight EXCEPT ![Slot(s)].state = "received"]
    BY <1>5 DEF OnContentData
  <2>. QED
    BY <2>1, <2>2, <2>3, ReleaseSlot DEF SlotStates
<1>6. CASE PacingSend
  <2>. DEFINE a == actualSegment
  <2>0. running /\ CallbackStops = {FALSE}
    BY <1>6 DEF PacingSend, LoopRunning, CallbackStops
  <2>1. /\ inflight' = [inflight EXCEPT ![Slot(a)] = [state |-> "sent", sequence |-> a]]
        /\ pending' = pending \cup {a}
    BY <1>6, <2>0 DEF PacingSend
  <2>2. a \in DataSeqs /\ Slot(a) \in Slots
    BY SlotType DEF TypeOK, DataSeqs
  <2>. QED
    BY <2>1, <2>2 DEF SentInv, SentSlotHome, SentSlotPending, TypeOK
<1>. QED
  BY <1>1, <1>2, <1>3, <1>4, <1>5, <1>6
     DEF Next, vars, Resume, ProbeRtt, Stop, ProbeTimer, NackTimer, CheckRound,
         PacingDone, PacingSkip

\* Every ring slot in state sent_ belongs to an interest still pending in
\* the portal, so its timeout, NACK or Data is still to come and will take
\* the slot out of sent_: the pacing loop, onTimeout(), onContentObject()
\* and the probe never leave a sent_ slot orphaned.  It holds when the
\* enumerator 0, which reset() writes into every slot, is not sent_, and
\* when the INTEREST_OUTPUT callback never calls stop(): otherwise the
\* loop marks a slot sent_ for an interest sendInterest() never sends.
THEOREM SentSlotsPending ==
    ASSUME ZeroState # "sent", ~AppStops
    PROVE  Spec => []SentSlotPending
<1>1. Init => TypeOK /\ SentInv /\ LoopRunning
  BY InitTypeOK, InitSentInv
<1>2. TypeOK /\ SentInv /\ LoopRunning /\ [Next]_vars => TypeOK' /\ SentInv' /\ LoopRunning'
  BY NextTypeOK, NextSentInv, NextLoopRunning
<1>. QED
  BY <1>1, <1>2, PTL DEF Spec, SentInv

=============================================================================
