# TLA+ models of hicn

This directory holds TLA+ models of parts of the hicn tree under `src/`:
modules, TLC configurations, and TLAPS proofs. Most of the tree's logic sits
in the real-time (RTC) consumer protocol of libtransport,
`src/libtransport/src/hicn/transport/protocols/rtc.cc`. That file is the core
of the project. The other components are listed below with what is planned
for them.

## 1. Inventory

### Components and how they interact

| Component | Source | Status |
|---|---|---|
| RTC consumer protocol: congestion controller, pacing loop, NACK and timeout handling, RTT probing | `rtc.cc` | modelled (`RtcProtocol`); leaves out delivery to the application and statistics |
| Inflight/retransmission tracker: ring `inflightInterests_`, map `interestRetransmissions_` | `rtc.cc` | modelled (`RtcProtocol`) |
| Per-path statistics (`RTCDataPath`) | not in the tree | abstracted to the set of labels seen |
| Fixed-format manifest codec | `core/manifest_format_fixed.h`, `core/manifest_inline.h`, `test/test_core_manifest.cc` | planned |
| hicn-light connection table | `hicn-light/src/hicn/core/connection_table.c` | partly (`ConnectionTable`): lookups, removal and the random-name loop; allocation macros are not in the tree |
| facemgr configuration: rules, overrides, overlays | `ctrl/facemgr/src/cfg.c` | modelled (`FacemgrCfg`), refined to `FacemgrRules` |
| RTC reassembly, RTC/TLS producer sockets, forwarder io modules | headers | declarations only, nothing to model |
| hicnctrl CLI, hiperf server, http-server content | `.c`/`.cc` | I/O and argument parsing, not modelled |

The RTC consumer runs on one event loop (spec §5). Every callback runs to
completion before the next one starts:

- the socket's `onContentObject` (Data or NACK) and `onTimeout`;
- the probe timer (every second);
- the rtx timer, which is edge-triggered (`checkRtx`);
- the NACK cooldown timer (`checkIfProducerIsActive`, 500 ms).

Every callback ends in `scheduleNextInterests()`, which does two things:

- It polls `checkRound()`. At a round end, `updateStats()` recomputes `maxCWin_`, the phase and `currentCWin_`.
- It sends interests while `inflightInterestsCount_ < currentCWin_`.

The producer and the network form the environment. They may answer a
pending interest with Data or with a NACK that carries a production segment
and a rate. They may also let the interest time out.

### State

| Code | Model variable |
|---|---|
| `is_running_` | `running` |
| position in `scheduleNextInterests()` | `pc` |
| `inflightInterests_` (state and sequence per slot) | `inflight` |
| `inflightInterestsCount_` | `inflightCount` |
| `interestRetransmissions_` (suffix to count) | `rtx` |
| `rtx_timer_used_` | `rtxTimerUsed` |
| `nack_timer_used_` | `nackTimerUsed` |
| `actualSegment_` | `actualSegment` |
| `lastSegNacked_` | `lastSegNacked` |
| `lastReceived_` | `lastReceived` |
| `currentCWin_` | `currentCWin` |
| `maxCWin_` | `maxCWin` |
| `currentState_` | `currentState` |
| `gotNack_` | `gotNack` |
| `gotFutureNack_` | `gotFutureNack` |
| `roundsWithoutNacks_` | `roundsWithoutNacks` |
| labels of `pathTable_` | `pathTable` |
| `probe_seq_number_` | `probeSeq` |
| `received_probe_` | `receivedProbe` |
| interests pending in the portal | `pending` |

### Hard behaviours (the hazards of `PROJECT.json`)

- **Restart.** `resume()` zeroes the inflight count while slots are still `sent_` (rtc.cc:65).
- **Counter underflow.** The count is a uint32, and a decrement at 0 wraps (620, 779, 811).
- **Ring overwrite.** Slot overwrite and stale answers appear when the window exceeds the ring (477, 810).
- **Probe answers.** An answer to an old probe is handled as data (749).
- **Gap fill.** The gap fill after `lastReceived_` re-queues segments that were already recovered (823).
- **Rtx timer.** The timer is edge-triggered and must be re-armed on every insertion (512).
- **Past NACKs.** A past NACK purges entries, and later additions must respect it (499, 705).
- **Retransmission cap.** The `HICN_MAX_RTX` cap is enforced at 538.
- **Window bounds.** `updateWindow` must keep the window within bounds (343).
- **Segment wrap.** `actualSegment_` wraps and `lastSegNacked_` does not (479).
- **NACK cooldown.** The cooldown suppresses NACK handling (655).
- **Unbounded map.** The rtx map is cut only lazily (522).
- **Stop inside the loop.** Application code runs inside the pacing loop: the `INTEREST_OUTPUT` callback of `sendInterest()` (423) and the stats callback of `checkRound()` (279). If it calls `stop()`, `sendInterest()` returns at 427 before the count increment, and the `while` at 444 never looks at `is_running_` again.
- **Endless name loop.** The random-name loop of the connection table never ends when all 256 names are in use (`connection_table.c:151`).
- **Overlay pointers.** `set_overlay` overwrites a pointer without freeing it (cfg.c:368, 571). `unset_overlay` frees by family and must NULL what it frees (cfg.c:175, 633). `rule_free` frees both overlays (cfg.c:122, 151). `set_overlay` dereferences the result of `overlay_create` without checking it for NULL (cfg.c:349).
- **Uninitialised fields.** `override_initialize` leaves `ipv4`/`ipv6` unwritten, and the global getters read them (cfg.c:104, 767).
- **Rule order.** `get_override` takes the first matching rule of the sorted set, so the answer depends on `facemgr_cfg_rule_cmp` (cfg.c:404, 656).
- **Duplicate keys.** `add_rule` of a key already in the set is refused, and the refused rule stays allocated (cfg.c:487).

## 2. Plan

Done:

1. `RtcProtocol` models the RTC consumer. `MCRtcProtocol` instantiates it for TLC, and `RtcProtocolProofs` proves its type and retransmission invariants.
2. `FacemgrCfg` models the facemgr configuration. `FacemgrRules` is its abstract specification. `FacemgrCfgProofs` proves overlay ownership, `FacemgrRulesProofs` the refinement and `NamedRuleWins`, and `FacemgrViewProofs` that every query agrees with the dictionary.
3. `ConnectionTable` models the connection table's lookups and its random-name loop, and shows that the loop need not end (F7).

Next:

4. `ManifestFixed`: the layout sizes and `estimateSerializedLength` as operators, checked against a reference over a bounded number of entries.
5. An abstract tracker for `RtcProtocol`: a set of segments not yet received, with the rtx map refining it once F2 is accounted for.
6. Liveness of `RtcProtocol`; section 3 says why it is not attempted at this suffix range.

## 3. The model `RtcProtocol`

Each handler is one action, and its guard is `running /\ pc = "idle"`. The
handler's trailing `scheduleNextInterests()` is part of the action: it sets
`pc` to `"check"`. The pacing loop is then these steps:

- `CheckRound` is `checkRound()`, and runs `updateStats()` when a round has elapsed;
- `PacingSkip` skips a pending, received or lost segment;
- `PacingSend` is `sendInterest()` followed by a new `checkRound()`. The constant `AppStops` says whether the `INTEREST_OUTPUT` callback may call `stop()` (`CallbackStops`). A stopped protocol returns at 427: the slot is marked `sent_`, but no interest goes out and the count does not grow;
- `PacingDone` ends the loop when the window is full.

No handler runs while `pc # "idle"`, just as the event loop runs nothing
inside a callback. `FairSpec` adds weak fairness on the loop's own steps
(`LoopFairness`): the loop runs on the protocol's one thread, so its next
step is always taken. The stats callback's `stop()` is not modelled; the
interest-output callback is enough to reach the same hang.

What is abstracted:

- **Time.** Whether a round has elapsed is a free choice. Which due entries `retransmit()` resends is a free choice. When a timer fires is a free choice.
- **Estimates.** RTTs, byte counts and the bandwidth become the window sizes they yield, drawn from `WinSizes`. `ComputeMaxWindow` keeps the code's branches.
- **Suffixes.** Suffixes are `0..MaxProbeSeq`, and data suffixes are `0..MinProbeSeq-1`. Wrapping below the probe range is kept.
- **Counters.** uint32 arithmetic on the counter is `% UInt32`.
- **Packet state enum.** It is declared in `rtc.h`, which is not in the tree. `reset()` zeroes the slots to the enumerator with value 0, so that enumerator is the constant `ZeroState`. The MC instances use `"idle"`.

Operators such as `RtxKept`, `RtxAfter`, `CheckRtx` and `AddRetransmissions`
are the helpers of `retransmit()`, `checkRtx()` and `addRetransmissions()`.
Each handler's final `interestRetransmissions_.erase()` is folded in as the
`gone` argument. `PROJECT.json` maps every definition to its lines.

Liveness of the RTC consumer (pacing restarts after the cooldown, a
timed-out segment is resent) is not checked. With data suffixes `0..1` the
pacing loop can skip every data suffix forever, because they are all pending
or received. The real 2^32 suffix space cannot do that. A liveness run at this
size would show that modelling artefact, and a larger suffix range is out of
TLC's reach.

## 3b. The model `FacemgrCfg`

`cfg.c` keeps a global override, rules, and a sorted set of rules. A rule
holds an interface name and type, and an override of its own. An override
holds optional fields and two overlay pointers, `v4` and `v6`, to heap
objects. The model keeps the heap:

- `rules` maps rule cells to `[name, type, ov]`, and `ruleLive` holds the allocated cells;
- `overlays` maps overlay cells to their four fields, and `ovLive` holds the allocated cells;
- `global` is `cfg->global`, and `ruleSet` is `cfg->rule_set`.

Every exported function that changes the configuration is one action:
rule create, free and set_match; set and unset of each override field, for a
rule or the global override; set and unset of an overlay; `add_rule`; and
`del_rule`. `unset_overlay` frees the pointers of its family and NULLs them,
in the same step (`Dropped`, `Cleared`). `set_overlay` allocates a fresh cell
and stores it whatever the slot held (`SetOverlay`). A NULL address or an
invalid port leaves that overlay field unset (`NewOverlay`, `IS_VALID_PORT`).
`rule_free` frees both overlays.

`facemgr_cfg_override_initialize` never writes `is_ipv4`, `ipv4`, `is_ipv6`
or `ipv6`. The value a fresh `malloc` leaves there is undefined, so `Init`
and `RuleCreate` choose it from the constant `Uninit`. The main runs take
`{Unset}`, memory that reads as zero; `MCUninitAny` takes every byte pattern.

Every `facemgr_cfg_get_*` query is an operator. `GetOverride` takes the
first rule of the set in `facemgr_cfg_rule_cmp` order (`Cmp`) that matches
the device. `View` collects every answer for every device, type and family.
The rule set is `util/set.h`, which is not in the tree. It is modelled from
its use: insertion refuses a rule with an equal key, and the array comes out
in ascending `Cmp` order.

**Abstract specification and refinement.** `FacemgrRules` states what the
configuration promises without pointers: a global override and a table from
match keys `<<name or none, type>>` to overrides that hold their overlays by
value. Its actions put, edit or remove one key, or change the global
override without touching `ignore`, `ipv4` or `ipv6`. Its `Override` picks
the most specific matching key. `FacemgrCfg` maps to it as follows:

- `gcfg` is the global override with its pointers dereferenced (`Deref`);
- `table[k]` is the dereferenced override of the rule in the set with key `k`, or Null (`RuleTable`).

The run `facemgr_refinement` checks `Rules!Spec` as a property and
`View = Rules!View` as an invariant. This shows two things. First, each
step of the heap model is a step of the dictionary or a stutter: a rule
outside the set, and freed or leaked overlays, are invisible. Second, the
sorted-set lookup answers every query as the most-specific-key rule does.
`SYMMETRY` is off in this run, because the mapping uses `CHOOSE`.

## 3c. The model `ConnectionTable`

The pool and its two indices (`id_by_pair`, `id_by_name`) are one function
`table` from slots to `[pair, name]` or `Free`. The lookups by pair and by
name and `remove_by_id` are translated from `connection_table.c`.

`connection_table_allocate` and `_deallocate` are macros of
`connection_table.h`, which is not in the tree. They are modelled from the
spec as an environment that keeps pairs and names unique and the pool under
`max_size`.

`get_random_name` loops `while (1)` over `rand() & 0xFF` until the name
`conn<byte>` is free. One iteration is one step (`Draw`), and nothing else
runs on the forwarder's loop meanwhile. The weak fairness of each `Draw(b)`
is justified by `rand()`: over its period it yields every low byte, so a
free byte is eventually drawn when one exists. Nothing in the tree bounds
`max_size` below the 256 `conn<byte>` names (the table is resizeable, line
26), and a user may name a connection `conn<k>` too. So the violation run
lets the pool hold every name (`MaxSize` 3 of 3 names), and the loop then
spins for ever even under this fairness (F7).

## 4. Runs

Instance for `MCRtcProtocol.cfg`:

| Setting | Value |
|---|---|
| ring | 1 slot |
| data suffixes | 0..1 |
| probe suffix | 2 |
| `HICN_MAX_RTX` | 1 |
| `HICN_MAX_RTX_SIZE` | 2 |
| `HICN_MAX_RTX_MAX_AGE` | 1 |
| initial window | 1 |
| initial max window | 2 |
| `WinSizes` | {2} |
| path labels | 1 |
| UInt32 | 8 |

This instance is small, but it is big enough for the interesting cases:

- slot overwrite (two data suffixes on one slot);
- wrap of `actualSegment_`;
- a probe colliding with data;
- exhaustion of the retransmission count;
- past and future NACKs;
- zero-rate NACKs;
- a stop and restart;
- round ends in both phases.

`rtc_safety` also lets the `INTEREST_OUTPUT` callback stop the protocol
(`AppStops = TRUE`, 331,602 states, about 10 seconds). `rtc_sent_slots` takes
callbacks that never stop it (`AppStops = FALSE`, 289,389 states), because a
stopping callback leaves a `sent_` slot with no interest sent.

| Run | Expect | Properties | What it shows |
|---|---|---|---|
| `rtc_safety` | pass | `TypeOK`, `RtxBound`, `RtxTimerArmed`, `RtxAboveLastNack` | the retransmission map is bounded, armed and above the last past NACK, even with a callback that stops the protocol |
| `rtc_sent_slots` | pass | `SentSlotPending` | with callbacks that never stop the protocol, a `sent_` slot always has a pending interest |
| `rtc_stop_in_loop` | violation | `PacingLoopEnds` | finding F6 (`FairSpec`, `AppStops = TRUE`) |
| `rtc_count_after_resume` | violation | `CountNoUnderflow` | finding F1 (ring of 2) |
| `rtc_rtx_of_recovered` | violation | `NoRtxOfReceived` | finding F2 (ring of 4, data 0..2) |
| `rtc_window_bounds` | violation | `WindowBounds` | finding F3 (`WinSizes` = {1, 3}) |
| `facemgr_safety` | pass | `TypeOK`, `OverlayOwnership`, `NamedRuleWins` | no overlay is read after or freed twice, and a rule naming the interface without a type wins every lookup |
| `facemgr_refinement` | pass | `ViewRefined`, `RulesSpec` | the heap model implements `FacemgrRules`, and its queries agree with the dictionary's |
| `facemgr_overlay_leak` | violation | `NoOverlayLeak` | finding F4 |
| `facemgr_ipv4_uninit` | violation | `Ipv4Default` | finding F5 (`Uninit` = any byte pattern) |
| `conn_random_name` | pass | `TypeOK` | the pool and its indices stay well formed, and the loop returns only `conn<byte>` names |
| `conn_name_exhausted` | violation | `RandomNameReturns` | finding F7 (`MaxSize` 3, names `conn0..2`) |

The facemgr instance has 2 rule cells, 2 overlay cells, 2 interface names (one is `lo`), 2 interface types (undefined and
one), one face type, one address, ports {0, 6363} and three `set_overlay`
argument tuples. Two rule cells are enough to have two rules compete for a
device, to collide on a key in `add_rule`, and to have one freed while the
other holds overlays. Two overlay cells let two overrides, or both families
of one override, hold overlays at once. `facemgr_safety` reaches 787,320
distinct states in about 2 minutes, with symmetry over the rule and overlay
cells. The refinement run evaluates `View` in every state, so it uses one
overlay cell and one interface name (63,828 states).

The connection table instance has 3 slots, 3 pairs, the names `conn0..2`
and one user name, and `MaxSize` 2 (914 states). That is enough for the loop
to draw names in use before a free one.

Each property of the passing run has a mutant that TLC must catch. A mutant
is a plausible bug:

- the segment does not wrap;
- `<=` is used instead of `<` against `HICN_MAX_RTX`;
- the rtx timer is not re-armed on insertion;
- the `lastSegNacked_` guard is dropped;
- the slot is marked received only on a first delivery.

The facemgr mutants are:

- ports stored without `IS_VALID_PORT`;
- `unset_overlay` freeing without NULLing;
- NULL names sorting first;
- a lookup over every allocated rule, not the set;
- a copy-paste in the `AF_INET6` branch of `unset_overlay` that frees `v4`.

The connection table mutant is a draw without the `& 0xFF` mask. The
facemgr spec assumes no fairness. `RtcProtocol`'s `FairSpec` assumes only
that its pacing loop keeps running, and `ConnectionTable` only the fairness
of `rand()` given above; both are used by violation runs, so no liveness
result rests on them.

## 5. Findings

- **F1 (rtc.cc:65).** `resume()` sets `inflightInterestsCount_ = 0` while slots are still `sent_`. A later timeout, NACK or Data of those interests decrements again. This contradicts the comment at 797-800, which says the slot states exist so that the count is decremented once. The uint32 then wraps, and `while (inflightInterestsCount_ < currentCWin_)` never sends again. TLC's trace on a ring of 2 (14 states): resume, send interest 0, stop, resume (count 0 with slot 0 still `sent_`), send interest 1 (count 1), a NACK for 1 (count 0), then the timeout of 0 decrements 0 and the counter wraps to `UInt32 - 1`. The violated property is `CountNoUnderflow`.
- **F2 (rtc.cc:823).** `lastReceived_` moves only on first-time Data. When segment n is recovered by retransmission and Data n+1 then arrives, `addRetransmissions(lastReceived_+1, n+1)` re-queues n. `retransmit()` resends it, because its slot still carries n.
- **F3 (rtc.cc:345).** `updateWindow()` does nothing in SYNC, and in NORMAL it shrinks a window by at most one decrease factor per round. So `currentCWin_ > maxCWin_` after a round end, against spec §8 property 1. TLC's trace: a past NACK in SYNC sets `maxCWin_ = 3` and grows the window to 2. The next round in SYNC sets `maxCWin_ = maxWaitingInterest = 1`.

- **F4 (cfg.c:368, 571).** `facemgr_cfg_rule_set_overlay` and `facemgr_cfg_set_overlay` store a new overlay without freeing the one already there. Nothing else frees it, so a second `set_overlay` for a family leaks the first.
- **F6 (rtc.cc:427, 444).** `sendInterest()` calls the `INTEREST_OUTPUT` callback and then returns if the protocol has stopped, so `stop()` from the callback is expected. But the loop at 444 never checks `is_running_`. Once the callback stops the protocol, the count never grows, and the loop marks slot after slot `sent_` for ever. The event loop never regains control to act on `stopEventsLoop()`. TLC's lasso: resume, the first send's callback stops the protocol, and with count 0 below window 1 the loop cycles over the data suffixes (`PacingLoopEnds`).
- **F7 (connection_table.c:151).** Once every `conn<byte>` name is held, `connection_table_get_random_name` never leaves its `while (1)`, whatever `rand()` yields. Nothing in the tree keeps `max_size` below 256, and users may take `conn<k>` names. TLC's lasso holds `conn0..2` and enters the loop (`RandomNameReturns`).
- **F5 (cfg.c:104, 767).** `facemgr_cfg_override_initialize` never writes `is_ipv4`/`ipv4`/`is_ipv6`/`ipv6`, and no global setter exists. When no rule matches, `facemgr_cfg_get_ipv4` reads the global override's uninitialised fields instead of returning the default. TLC finds this in the initial state once `Uninit` allows any byte pattern.

## 6. Proofs (`RtcProtocolProofs`, `FacemgrCfgProofs`, `FacemgrRulesProofs`, `FacemgrViewProofs`, `ConnectionTableProofs`, TLAPS)

- **`TypeCorrect`: `Spec => []TypeOK`.** It is proved from the module's named assumptions:
  - a non-empty ring;
  - a positive `UInt32`;
  - `MinProbeSeq <= MaxProbeSeq`;
  - natural limits;
  - positive window constants and a non-empty set of positive `WinSizes`.

  `TypeOK` is inductive. The step proof has one case per action, and the NACK case is split into one step per primed variable. It uses lemmas on the window helpers (`ComputeMaxWindowType` and the others), on `NextSegment`, and on what `CheckRtx` and `AddRetransmissions` produce.
- **`RtxSafety`: `Spec => [](RtxTimerArmed /\ RtxAboveLastNack /\ RtxBound)`.** The three properties plus `TypeOK` are inductive together. The key facts:
  - every insertion goes through `AddRetransmissions`, which re-arms the timer or finds it armed;
  - a past NACK raises `lastSegNacked` and purges every key below it in the same step;
  - `retransmit()` keeps only keys with count `< MaxRtx` before incrementing.
- **`SentSlotsPending`: `ZeroState # "sent" /\ ~AppStops => (Spec => []SentSlotPending)`.** `SentSlotPending` is not inductive on its own. Slot k could be `sent` with a sequence whose interest is pending, and then an answer to a different suffix mapping to the same slot would change it. The strengthening `SentSlotHome` says that a `sent` slot's sequence is a data suffix that maps to that slot. With it, an answer to suffix s touches slot `Slot(s)` only when the slot's sequence is s, or when the slot is not `sent`. TLC checked `SentSlotHome /\ SentSlotPending` as an invariant on a ring of 2 with suffixes 0..3 (14.6M states) before the proof was written. The hypothesis `ZeroState # "sent"` is needed because `reset()` zeroes the slots: if enumerator 0 were `sent_`, the initial slots would be sent with no interest pending. The hypothesis `~AppStops` is needed because a callback that stops the protocol makes the loop mark a slot `sent_` for an interest it never sends (TLC finds this in 16 states). With it, the loop runs only while the protocol runs (`LoopRunning`, lemma `NextLoopRunning`), and that is part of the inductive invariant.

- **`OwnershipSafety`: `Spec => []OverlayOwnership`** (`FacemgrCfgProofs`). It holds for any sets of rule cells, overlay cells, names, types and arguments with `Null` outside the overlay cells. `OverlayOwnership` says three things:
  - every pointer of the global override or of an allocated rule is allocated;
  - an override's two pointers differ unless both are NULL;
  - no two overrides share an overlay.

  The inductive invariant is `TypeOK /\ OverlayOwnership`. The type is needed to know what `Cleared` and `[@ EXCEPT ![Slot(fam)] = o]` return. The proof has one lemma per action. The central lemma, `OwnershipOneTarget`, covers a step that changes one override only: it frees only what that override pointed to, and allocates only a cell that was free. `set_overlay` allocates a cell no override points to, because every pointer is allocated. The overwritten pointer is leaked, not shared, which is F4. `unset_overlay` and `rule_free` free exactly the pointers they NULL (`ClearedEffect`). The field setters and the rule-set operations move no pointer (`OwnershipSamePtrs`).

- **`RtxBoundSafety` and `RtxAboveLastNackSafety`** state the two conjuncts of `RtxSafety` on their own, by temporal logic from it.
- **`TypeSafety` (`FacemgrCfgProofs`): `Spec => []TypeOK`**, from the same invariant as `OwnershipSafety`.
- **`Refinement` (`FacemgrRulesProofs`).** `Refinement` proves `Spec => RulesSpec`: the heap model implements the dictionary `FacemgrRules` under the mapping of section 3b, for every value of the constants. It assumes `CfgAssumption` and `NullAssumption`. `NullAssumption` says that `Null` is no override of the dictionary, which is true of NULL in C. The inductive invariant is `IInv == TypeOK /\ OverlayOwnership /\ KeysUnique`. `KeysUnique` says that no two rules of the set share a key. It holds because the set refuses a rule whose `Cmp` is 0 against a member, and `Cmp` is 0 exactly on equal keys (lemma `CmpZero`). The refusal is `util/set.h`'s, which is not in the tree, so `KeysUnique` is a conjunct of the proof and no property of cfg.c. Without `KeysUnique`, the `CHOOSE` of `RuleTable` could pick either of two rules of one key, and an edit of one of them would not be an edit of the table. The argument runs one lemma per action:
  - `rule_create`, `rule_free` and `rule_set_match` touch a rule outside the set, so they are stutters (`OutsideStep`);
  - the rule setters, `rule_set_overlay` and `rule_unset_overlay` are an `Edit` of the rule's key if the rule is in the set, and a stutter if not (`EditStep`);
  - the global setters are `SetGlobal`, because `ignore`, `ipv4` and `ipv6` are untouched (`GlobalStep`);
  - `add_rule` is a `Put` of a key no member has, or a stutter when it refuses;
  - `del_rule` is a `Remove` when some member has the key, and a stutter when none has.

  `set_overlay` fills a cell that no override points to. `OverlayOwnership` shows the cell is not allocated, so every other override dereferences as before (`FreshDeref`). This is why ownership is part of the invariant. The table changes at one key at most when every rule of another key keeps its place, key and value (`TableOnlyAt`). TLC checks `RulesSpec` in `facemgr_refinement`.
- **`TypeSafety` (`ConnectionTableProofs`): `Spec => []TypeOK`** for the connection table, which is inductive as it stands.
- **`NamedRuleWinsSafety` (`FacemgrRulesProofs`): `Spec => []NamedRuleWins`.** It follows from `TypeOK` alone, with no further invariant. Take an untyped rule `q0` of name n in the set. Every other candidate `f` for (n, t) is named n or unnamed. `Cmp(f, q0) <= 0` forces f to be named n and untyped (lemma `CmpBelowUntyped`), because `facemgr_cfg_rule_cmp` puts named rules before unnamed ones and, among one name, untyped rules first. So `q0` is a `Cmp`-least candidate and the `CHOOSE` of `GetOverride` picks a rule named n (`UntypedNamedFirst`).
- **`ViewRefinedSafety` (`FacemgrViewProofs`): `Spec => []ViewRefined`.** Every query of cfg.c answers what the dictionary answers, for every device, type and family. It follows from `TypeOK /\ KeysUnique`, which holds by the refinement's invariant. The argument has four steps:
  - some candidate is `Cmp`-least (`LeastRule`). This takes the least name rank and then the least type rank, each by `WFMin` and `NatLessThanWellFounded` of `WellFoundedInduction`, because `SmallestNatural` has an operator parameter that the provers cannot instantiate;
  - the least candidate of cfg.c has the key the dictionary picks with `Before` (`FirstBest`). `Cmp` order is `Before` order on keys (`BeforeOfCmp`), and `KeysUnique` makes the key's rule the table's entry;
  - the override found, or the error code, is the same on both sides (`OverrideCorr`);
  - each field read through it gives the same answer (`NullAnswer`, `RuleAnswer`).

  Two changes to the model were needed for this proof, and neither changes what TLC explores:
  - The lookups (`GetOverride`'s tail, `Lookup`, `IgnoreLookup`, `OverlayLookup` and the dictionary's `Override`, `Field`, `Ignore`, `OverlayField`) were first written as `CASE` with overlapping guards. In TLA+ such a `CASE` picks an unspecified true arm, not the first one. TLC evaluates arms in order, so the runs matched the code, but the provers could not. The lookups are now `IF`/`ELSE IF` chains in the order of the code's early returns.
  - `View` is written over the product of devices and types with one bound variable, `[p \in D \X T |-> ...]`. This is the same function as `[d \in D, t \in T |-> ...]`. The installed backends cannot reason about constructors with two bound variables.

  `NullAssumption` also says that `Null` is no overlay value and no rule cell, as NULL is in C.

What stays with TLC:

- the violations F1 to F7, among them the two liveness failures F6 and F7;
- the action property `WindowBounds`;
- liveness in general (`PacingLoopEnds`, `RandomNameReturns`): it needs fairness and `ENABLED`, outside what TLAPS handles here.

## 7. Not modelled

- `returnContentToApplication()` and reassembly: buffer copies, with no protocol state.
- The values of the statistics (loss rate, queuing delay, bandwidth EWMA) and the stats callback. The stats callback's `stop()` is not modelled; the `INTEREST_OUTPUT` callback's is (F6).
- `RTCDataPath`, which is not in the tree.
- facemgr: `cfg_create`, `cfg_free`, `finalize` and the dump functions. The daemon creates the configuration once, and the dumps only log. A `malloc` failure in `overlay_create` is not modelled either: the model takes every allocation to succeed. On failure `set_overlay` would dereference NULL, a crash no TLC state represents (hazard at cfg.c:349).
- Connection table: `connection_table_free` (teardown), the print functions, and the allocation macros' bodies, which are not in the tree.
- The rest of the tree, for the reasons given in the table of section 1.
