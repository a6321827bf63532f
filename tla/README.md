# Verification of Smart Car Access

TLA+ models of the digital-key system of this repository: a tag, or a phone
behind a USB bridge, opens a car over BLE and UWB; an anchor in the car
authenticates it, measures the distance and drives the doors over CAN; a server
hands out the keys. Paths are relative to `src/`; A, T, B, S stand for

* A `Src/testFreeRTOS/FreeRTOS_Anchor_TestSimFetchKey/FreeRTOS_Anchor_TestSimFetchKey.ino`
* T `Src/testFreeRTOS/FreeRTOS_Tag/FreeRTOS_Tag.ino`
* B `AndroidApp/esp32_firmware/s3_super_mini_central/s3_super_mini_central.ino`
* S `Server/main.py`

## 1. The system

| Part | Where | State it keeps | Operations |
|---|---|---|---|
| Anchor: BLE callbacks | A 515-617 | `deviceConnected`, `connectionGen`, `responseBuffer`, event bits | onConnect, onDisconnect, two onWrite |
| Anchor: `bleTask` (core 0, prio 3) | A 812-901 | `currentChallenge`, characteristics, `lastAdvRefresh` | challenge, verification, notifications, advertising |
| Anchor: `uwbTask` (core 1, prio 4) | A 688-803, 915-959 | DW3000, `EVT_UWB_ACTIVE` | init, respond, deinit |
| Anchor: `canTask` (core 1, prio 2) | A 493-506, 969-1001 | `carUnlocked`, MCP2515 | lock, unlock |
| Tag | T | `connected`, `authenticated`, `tagInUnlockZone`, `uwbStoppedFar`, event bits, `bleWriteQueue`, filter | scan, connect, answer, arm, range, decide the zone |
| USB bridge of the phone | B | pairing key, key flags, BLE client | SET_KEY, connect, answer, then as the tag |
| Server | S | tables `vehicles` and `friend_keys` | pairing, check, delete, share, claim, validate, revoke |
| Key provisioning | A 194-213, 358-487, 662-682; S; the app's `KeyManager.kt`, `PairingRepository.kt`, `EnterVinFragment.kt` | the pairing key in NVS, in the database, in SharedPreferences | fetch over SIM, pair, store |

How they interact. In the anchor the BLE stack calls the callbacks, which put
messages into `bleQueue` (8), `uwbQueue` (4) and `canQueue` (4); three tasks take
them out. `uwbTask` and `canTask` share the SPI bus under `spiMutex`. In the tag
two tasks and the callbacks meet in an event group, four `volatile` flags and
`bleWriteQueue` (8). Tag and anchor exchange characteristic reads, writes and
notifications over a link that breaks at any time, which each end notices in its
own time. Phone, server and anchor share a pairing key that travels over HTTP.

What is hard here: a check in a callback decides a send that a task of the other
core overtakes; event bits cleared by one task when another has just set them;
queues that drop; commands and words left over from a session that has ended; a
generation counter of eight bits and timestamps of 32; mutex waits that give up;
a high-priority task that can starve a low one; CAN frames that fail half way;
answers of the server that are lost after it has acted; restarts of every part.
`PROJECT.json` lists each hazard at its line, with the properties about it.

What makes each part correct:

* Anchor: the SPI bus has one user at a time; a session gets its own challenge;
  after a disconnect the car is locked, ranging stops and the anchor advertises
  again; commands reach the doors in order, each at most once.
* Tag: a lost link ends ranging; every change of the zone is told; nothing of the
  zone survives ranging.
* Tag and anchor together: zone words come from an authenticated tag only; no end
  ranges alone; the car is open only for a tag that holds itself in the zone; a
  tag that asks for ranging ranges, unless the answer was lost.
* Ranging: the distance is the true one wherever the counters wrap; no word
  without a distance that justifies it.
* Server and provisioning: a withdrawn share is refused; phone, anchor and table
  have one key.
* Bridge: a refused key is not tried again, a new one is.

## 2. The modules

```
Anchor --- AnchorInv --- AnchorProofs          Tag --- TagProofs
  |            |                                 \
  |        AnchorDoors --- AnchorDoorsProofs      SmartCarAccess --- SmartCarProofs
  |            |  refines DoorLock               /
  |        AnchorServes --refines--> AnchorService ---(INSTANCE)--> DoorLock
  |          |  \-- AnchorServesProofs
AnchorZone  MCAnchor      KeyServer -- KeyProvisioning -- KeyProofs
                          UwbRanging -- UwbRangingProofs    UsbBridge -- BridgeProofs
```

`Anchor` is the anchor in detail: tasks, queues, bus, generation counter.
`AnchorService` is what a central sees of it, and `Anchor` is shown to implement
it (`AnchorServes`). `SmartCarAccess` EXTENDS `Tag` and `AnchorService` and joins
them by the link, so the composition is checked with the small anchor, and what
is lost in between is what the refinement covers. `DoorLock` is the promise about
the doors alone; `AnchorService` uses its actions for the doors. `UwbRanging`
stands beside `Tag`: `Tag` has of a round only the band it ends in.

### Anchor

| Actions | Code |
|---|---|
| `OnConnect`, `OnDisconnect` (`LinkDown`), `OnWrite`, `OnResponse` | the callbacks up to their first send |
| `Callback` (`CbBle`, `CbUwb`, `CbCan`) | the sends of a callback, one action each |
| `CentralRead`, `AdvStops` | the BLE stack: a read it answers itself; advertising that stops (the comment at A 895) |
| `BleReceive`, `BleTimeout`, `BleCheckChallenge`, `BleNotifyChallenge`, `BleAuthOk`, `BleKick`, `BleNotifyActive`, `BleRestartAdv`, `BleNoRefresh`, `BleRefreshDue`, `BleRefreshAdv` | `bleTask`, cut where it blocks and where a callback may come between a check and what it decides |
| `UwbWake`, `UwbInit`, `UwbSendNotify`, `UwbSetBit`, `UwbPoll`, `UwbTake`, `UwbTakeTimeout`, `UwbRanged`, `UwbDeinit`, `UwbClearBit` | `uwbTask`, cut at every access to shared state |
| `CanReceive`, `CanTake`, `CanTakeTimeout`, `CanFrames` (`CanLock`, `CanUnlock`) | `canTask` |
| `Reset` | power loss or panic, then `setup()` |

A challenge is the number of the session that made `bleTask` draw it, as there is
one request per session and the bytes are random; a response is the challenge it
answers, or `Garbage` for another key. HMAC is perfect, but `computeHMAC` may
fail. The 32 bytes of a response arrive in one write. A wait that can expire is a
choice. `LOCK_CAR` is `WARNING`; `ALERT` changes nothing. The central writes the
commands of `Central` in any order, so what is shown of the anchor does not
depend on the tag. One central is connected at a time. `BleKick` leaves the loss
of the link to `OnDisconnect`, which may happen at any time. `heard`, `session`,
`resets`, `lost` and the field `of` exist only for the properties.

`AnchorZone` adds the last word of the tag. `AnchorInv` holds the inductive
invariant. `AnchorDoors` maps the callbacks, `canQueue` and the command in hand
onto the list of `DoorLock`; `AnchorServes` maps `bleQueue` and `uwbTask` onto the
responses, the ranging state and the announcements of `AnchorService`.

### Tag

One action per step of `bleTask` (scan and connect, challenge, response, await,
arm, retry, monitor loop, cleanup; T 387-551), of `uwbTask` (wake, init, ranging
loop, decision, send, deinit, clear; T 128-304 and 563-592) and of the two
callbacks (T 306-378), cut where another task may come in between. The event group is the set
`events`. The panic of a tag whose characteristics `onDisconnect` set to nullptr
under `connectToServer` is `TagPanic`. Two facts about time are guards: `StopSeen`
(`bleTask` sleeps 1000 ms after a session, a round of ranging takes at most 620
ms, so `uwbTask` has seen `EVT_UWB_STOP` before the next connection clears it), and
UWB_ACTIVE finds `uwbTask` waiting (the `initUWB` of the anchor that precedes it
takes 52 ms or more, `deinitUWB` of the tag about 3 ms). AUTH_OK and AUTH_FAIL may
come at any time. A UWB_ACTIVE that an earlier connection has left over may come
while `uwbTask` is busy; that one is not in `Tag` alone but in `SmartCarAccess`.
`told` and `dropped` are ghosts.

### SmartCarAccess

Each action is one of the tag and one of the anchor together, or one of them
alone. While `link` is TRUE what one end sends the other gets; once it is broken,
what is sent is lost until `TagLearns` and `AnchorLearns` run the two
`onDisconnect`. The two notifications, AUTH_OK and UWB_ACTIVE, are not acknowledged
and may be missed over a working link, too (`AuthOk`, `Active`). Either end may restart.
`excused` names what has gone astray in
this connection: "word" (a zone word found its queue full, was forgotten for want
of the bus, was overtaken by an UNLOCK not executed yet, or an earlier session
left words or an open car), "ranging" (INIT or its announcement left by an
earlier session, the DEINIT of UWB_STOP on a full queue), "unheard" (UWB_ACTIVE missed
or its BLE_NOTIFY_UWB_ACTIVE dropped, or the DEINIT of `onDisconnect` dropped, so
that an anchor which ranges already hears no request; only `AskedRanges` excuses it)
and "stray" (an announcement nobody waits for, see below). Each is a hazard of its own in
`PROJECT.json`; the properties promise nothing about a connection in which one
has happened, and everything about the others.

"stray" takes three connections, more than the runs have; the proof asked for it. The
announcement of the first is sent in the second, answers its request and leaves its own
announcement over; after UWB_STOP the tag asks again and takes that one for
the answer while `uwbTask` is still on its way out (T 590). If the link is lost now,
`uwbTask` clears the EVT_UWB_STOP of the loss and `armUWB` sets EVT_UWB_INIT after
it, so the tag ranges without a link, and on in the third connection, with an anchor
nobody has asked. The excuse therefore outlives the connection for as long as
the tag ranges (`TagRanges`), and no longer.

### UwbRanging

The exchange of T 194-289 and A 688-803 on counters of `Full` values truncated to
`Low`, with the delayed transmit time in units of `Unit`; the ring buffer (T
79-100) as a function, the average compared by its sum; the decisions on the
zone. Distances are counted in ticks of flight; `clockOffsetRatio` and the
rounding of float are left out. The program's thresholds are 3, 3.5 and 10 m.

### KeyServer, KeyProvisioning

The endpoints of `main.py` run in a pool of threads, each call of the database a
transaction of its own, so a request is sent, served and answered in separate
steps. Keys are numbered as they are drawn. `create_friend_share` has its two
transactions (`CreateLooksUp`, `CreateInserts`). `KeyProvisioning` adds the phone (a
tap on Confirm, the shared key pair, the POST, the answer, `savePairingKey`,
`apply()`, a process that is killed) and the anchor (`executeMainFlow` at every
start). Encryption is left out: an answer can be read with the key pair that asked.
`excused` names why the phone may have asked twice: "overlap", "lost", "apply".

### UsbBridge

`usbSerialTask` writes a key byte by byte and then the flags (`SetKey`, `KeyOk`);
`computeHMAC` in between may find the old key, the new one or a mixture
(`KeyRead`). `bleTask` up to the session, `notifyCallback`, `onDisconnect`, and the
panic of `connectToServer` on a characteristic cleared by `onDisconnect` (B 481).
From AUTH_OK on the bridge runs the same arm, monitor and ranging code as the tag.

## 3. What the runs check

| Run | Bounds | Shows |
|---|---|---|
| `anchor_session` | queues 1, `GenMod` 4, 5 sessions, 1 reset; the central reads, answers right or wrong | `TypeOK`, `ChallengeFresh`, `FreshInv`: the counter wraps within a run and a stale request is never notified; `ImplementsService`, with its invariant `ServesInv`: challenges and responses of several sessions are those of `AnchorService` |
| `anchor_tasks` | queues 1, 1 session, mutex waits expire; the central authenticates and writes every command | `BusExclusive`, `DisconnectLocks`, `DisconnectStopsUwb`, and `IndInv`, the invariant of the proofs; `ImplementsService`: ranging and doors are those of `AnchorService` |
| `anchor_live` | queues 1, 1 session, UNLOCK frames may fail half way, fair scheduler | `ReAdvertises`, `EventuallyLocked`; `ImplementsDoorLock`: `Anchor` refines `DoorLock` |
| `tag` | `bleWriteQueue` 2, 1 reset, `initUWB` and the RSSI may fail; AUTH_OK and AUTH_FAIL at any time, UWB_ACTIVE while `uwbTask` waits | `TagTypeOK`, `ZoneNeedsRanging`, `ZoneTold`, `StopPending`, `TagStopsRanging` |
| `smart_car` | queues 1, 2 connections, the driver near or away, the RSSI may stay bad | `CarTypeOK`, `ZoneWordsAuthed`, `CarFollowsTag`, `RangesTogether` across two connections |
| `smart_rearm` | queues 1, 1 connection, 1 restart of the anchor, the driver near or far, the SPI bus may be withheld, queues drop; fair | `CarFollowsTag`, `RangesTogether`, `AskedRanges`: ranging stops far away and is armed again |
| `ranging` | counters of 256 values truncated to 64, unit 2, a filter of 3, flights 0 to 5 with 4 the longest believed | `DistanceRight`, `FilterIsRecent`, `WordsHaveReason` at and around every wrap of both counters |
| `keys` | 2 requests of the phone for a key | `KeysTypeOK`, `NoGrantAfterRevoke`, `SameKeyUnlessExcused` |
| `bridge` | a right and a wrong key | `BridgeTypeOK`, `RefusedKeyRests`, `SetKeyIsTried` |
| `anchor_init_mutex` | lengths of the code | `InitNeedsNoMutex` fails |
| `anchor_leaving` | lengths of the code | `LeavingLocks` fails |
| `keys_same` | 2 requests of the phone for a key | `SameKey` fails |

Why the bounds are enough. A queue of length one makes every drop and every
"still full" case happen with few messages; `tag` has two so that words of
different kinds wait behind each other. Five sessions with `GenMod` 4 wrap the
counter. What a session leaves to the next shows with two:
the messages in `anchor_session`, the commands, words and ranging in `smart_car`. `smart_car` and
`smart_rearm` divide the parameters of the composed system between them: two
connections without going far, one connection with going far, with a withheld
bus and a restart. Nothing connects again after that restart in a run;
`NeverRangesAlone` covers it. Two requests for a key are what it takes to disagree. The
counters of `ranging` are small, but start at every kind of position, at both
sides of each wrap and at the half of it; `RangingExact` covers the real widths.
The theorems of section 5 cover all lengths, sessions, resets and keys.
`MaxSessions`, `MaxResets`, `MaxCarResets`, `MaxTagResets` and `MaxPairs` are the
only bounds of the models. Deadlock is checked except in the composed system,
which really stops when its connections are used up.

The three violations are disagreements of a comment with the code, quoted in
`findings` of `PROJECT.json`: `initUWB` of the anchor drives the SPI bus while
`canTask` holds the mutex (A 923); WARNING is ignored while the UNLOCK it should
undo is still on its way (A 558, against `tag_config.h` 17); the phone may ask
`/owner-pairing` twice and keep another key than the anchor (`KeyManager.kt`
14-15).

## 4. Fairness

* Anchor (`Fairness`): weak fairness of the callbacks and of each task, since
  FreeRTOS runs every ready task of a core in the end; strong fairness of
  `CanTake`, because `uwbTask` sleeps 5 ms after each give (A 943-946), which is
  what leaves the mutex to `canTask`; strong fairness of `BleRefreshDue`, because
  the 10 s timer stays expired until the refresh. `EventuallyLocked` excludes by
  name a LOCK dropped on a full `canQueue`, as nothing retries it.
* Tag (`TagFairness`): weak fairness of `bleTask`, whose calls of the BLE client
  return in the end with one result or another, and of `uwbTask`. The distance a
  round ends with is not fair.
* Both (`CarFairness`): each end's tasks, and the delivery of what is written
  over a link that works. That a notification
  is heard is not assumed: `WF(Active)` holds also if each one is missed. `WF(TagTalks)` is not fairness of the link: a break is
  possible at every step.
* Bridge (`BridgeSpec`): weak fairness of its tasks; strong fairness of `Connect`,
  an anchor that is in range is connected if tried again and again. Without it
  `SetKeyIsTried` could not hold, and B 614-622 retries for that reason.

Nothing is assumed of the central in `Anchor`, of the driver, or of the phone.

## 5. What is proved

| Theorem | Property | Assumes |
|---|---|---|
| `TypeCorrect`, `BusSafe`, `DisconnectAlwaysLocks`, `DisconnectAlwaysStopsUwb`, `RequestsFresh`, `ChallengeAlwaysFresh`, `InvariantHolds` (`AnchorProofs`) | `TypeOK`, `BusExclusive`, `DisconnectLocks`, `DisconnectStopsUwb`, `FreshInv`, `ChallengeFresh`, `IndInv` | `ConstantsOK`, with `GenMod > 2 * BleDepth + 1` |
| `AnchorImplementsDoorLock` (`AnchorDoorsProofs`) | `ImplementsDoorLock` | `ConstantsOK` |
| `TagTypeCorrect`, `StopNeverOverlooked`, `ZoneForgotten`, `ZoneAlwaysTold` (`TagProofs`) | `TagTypeOK`, `StopPending`, `ZoneNeedsRanging`, `ZoneTold` | `TagConstantsOK` |
| `ServesAlways`, `AnchorImplementsService` (`AnchorServesProofs`) | `ServesInv`, `ImplementsService` | `ConstantsOK` |
| `CarTypeCorrect`, `CarAlwaysFollows`, `NeverRangesAlone`, `OnlyAuthedOpens` (`SmartCarProofs`) | `CarTypeOK`, `CarFollowsTag`, `RangesTogether`, `ZoneWordsAuthed` | `CarConstantsOK`, `TagConstantsOK` |
| `CarServes`, `CarImplementsDoorLock` (`SmartCarProofs`) | `ServiceSpec`; `Lock!Spec` | `CarConstantsOK`, `TagConstantsOK` |
| `RangingTypeCorrect` (`UwbRangingProofs`) | `RangingTypeOK` | `RangingConstantsOK` |
| `RangingExact`, `FilterRemembers`, `ReasonForWords` (`UwbRangingProofs`) | `DistanceRight`, `FilterIsRecent`, `WordsHaveReason` | `DW3000`: 40 and 32 bits, units of 256 ticks, a reply after at most 15 ms, at most 18 km; any filter size, any limits |
| `KeysTypeCorrect`, `RevokedIsRefused`, `OneKeyForBoth` (`KeyProofs`) | `KeysTypeOK`, `NoGrantAfterRevoke`, `SameKeyUnlessExcused` | `KeyServerConstantsOK` |
| `BridgeTypeCorrect`, `RefusedKeyWaits` (`BridgeProofs`) | `BridgeTypeOK`, `RefusedKeyRests` | `BridgeConstantsOK` |

The arguments:

* `DisconnectLocks` speaks of an idle `canTask`; `LockInv` says what holds on the
  way there: once `onDisconnect` has queued LOCK it is the last element of
  `canQueue`, or the command in hand, or the last one executed. That needs
  `CallbackInv`: without a central no other callback can queue a command.
  `DisconnectStopsUwb` is the same argument with DEINIT (`StopInv` of `AnchorInv`).
* `ChallengeFresh`: `connectionGen` wraps, so the check at A 825 and 837 is sound
  only if a queued request cannot be overtaken by `GenMod` sessions. A session
  needs advertising, which only `bleTask` starts, at most twice for each command it
  takes. So a request with `i` commands before it can still be overtaken by a
  number of sessions that falls with every step of `bleTask`, and is at most
  `2 * BleDepth + 1` in all: 17 for the code, well below 256.
* `BusExclusive`: `MutexInv`, the owner of `spiMutex` is where its task says.
* `ImplementsDoorLock`: a send appends to the list or finds `CanDepth` commands in
  it; taking a command in hand is a stutter; executing or losing it takes the
  first off the list.
* `ImplementsService`: the doors are those of `DoorLock`. `ServesInv` says that each
  session has one request for a challenge or none on its way through `bleQueue`, in
  the order of the sessions, so what `bleTask` notifies is what `AnchorService` may
  give at this point, and that a response is always to a challenge that was drawn. Ranging
  is mapped through the states of `uwbTask`; its mutex, its waits and the queue for
  announcements are stutters.
* `StopPending` is not inductive: `EVT_UWB_STOP` is cleared by the next connection
  and at the end of a round of ranging, and `uwbTask` may be on its way into
  ranging when the link goes. `StopInv` of `TagProofs` follows `armUWB`: while it
  asks, INIT is clear and `uwbTask` waits (`Arming`); a link lost between READY and
  setting INIT leaves STOP behind (`LostWhileArming`), so an INIT nobody has seen
  comes with the STOP of the lost link (`InitStopped`). The two guards on time of
  section 2 are what it rests on.
* `ZoneTold`: between two rounds the zone and the last word agree; `ToldInv` says
  what holds in the middle of a round and why a new session starts outside.
* `ZoneWordsAuthed`: what the tag takes for its authentication comes from this
  connection (`AuthCurrent`). `onDisconnect` clears the flag before the next
  connection; and the `AUTH_OK` an earlier session has left in the characteristic is
  overwritten by the response before `bleTask` waits, and reads, so an `AUTH_OK`
  found there was put there by `BLE_AUTH_VERIFY` since.
* `RangesTogether`: a round of ranging passes from hand to hand: announced by the
  anchor (`Announced`), seen by `armUWB` (`Asked`), armed or under way in the tag
  (`Armed`), ended by an UWB_STOP that is still to be written (`Stopping`). `RoundInv`
  says that at most one hand has it (`OneHand`), that the stop comes last
  (`StopLast`) and that until the callback has the stop the anchor ranges
  with no DEINIT waiting (`Kept`). It needs `StopInv`, so the absence of strays
  (`StopUnlessStray`): a tag that ranges on from an earlier connection has no hand behind it.
* `CarServes` closes the chain: each step of `SmartCarAccess` is one of `AnchorService`
  (`AnchorSide`) and, but for a stray announcement, one of `Tag` (`TagSide`), so what is
  proved of the parts is used in the whole. `CarImplementsDoorLock` follows with
  `ServiceDoorStep`, and `CallbackOf`: a command of the central is asked for while
  there is one, since `onDisconnect` waits for the callback before it (`cb = "idle"`).
* `CarFollowsTag`: `ToldOnly`, what is queued or under way in the anchor is at most
  what the tag told last; then the last of those words decides what the doors will
  be (`FollowInv`, `MayOpen`), and with none left it is what they are.
* `FilterIsRecent`: the i-th of the recent distances is in the i-th cell of the ring,
  counted from the index once the ring is full (`Cell`). A new distance adds a cell
  (`StoreGrows`) or replaces the oldest (`StoreReplaces`); the sum of the buffer changes by
  the same amount as the sum of the sequence. The lemmas on `SumFunctionOnSet` it
  needs (`SumAdd`, `SumSame`, `SumShift`, `SumOver`) are proved from the definition
  of the fold.
* `WordsHaveReason`: a sum at most `limit * n` has a term at most `limit`
  (`SumAtLeast`, by contradiction), and likewise above.
* `DistanceRight`: the true counters are off by multiples of the widths, which
  cancel in the differences because a round is shorter than half of 32 bits
  (`WrapsCancel`); the truncated bits of the transmit time are the same in what the
  anchor sends and in what it reports.
* `SameKeyUnlessExcused`: without an excuse at most one request is open and its
  answer is kept, so at most one key is drawn (`OneKey`, with `Counted` and `Drawn`
  bounding the keys by the requests served). `NoGrantAfterRevoke`: `Revoked` ties a
  `late` request to a row that is revoked or expired from before it was sent.
* `RefusedKeyRests`: a refused key leaves `EVT_KEY_SET` clear, and the attempt
  under way ends at `authFailed` (`Resting`); that an attempt is under way only
  over a link, or panics, is `Offline`.

Every safety invariant, action property and refinement of the passing runs is a
theorem. Only model-checked are the liveness properties
(`ReAdvertises`, `EventuallyLocked`, `TagStopsRanging`, `AskedRanges`, `SetKeyIsTried`):
liveness under fairness and ENABLED are out of the prover's reach. The induction
theorems of the library take an operator as parameter, which no prover here can
instantiate; the sums of the filter are reasoned about by the least element of a
set of numbers instead (`LeastNat`, `Induction`).

## 6. Behaviour the models show and no property promises

* If UWB_STOP is queued and `uwbStoppedFar` set between T 520 and T 528, `armUWB`
  asks an anchor that was never told to stop and retries for ever, with UWB_STOP
  waiting behind it in `bleWriteQueue`. `AskedRanges` speaks of an empty queue.
* `armUWB` repeats TAG_UWB_READY "until the anchor confirms" (T 456), but an anchor
  whose one UWB_ACTIVE was missed (A 880), or its message dropped (A 931), never
  confirms again: its ranging `uwbTask` throws every further INIT away (A 937), and
  the tag asks for ever over a working link. Unlike AUTH_OK (T 438-440) it has no
  value the tag could read instead. A DEINIT of `onDisconnect` dropped on a full
  `uwbQueue` does the same to the next connection (`smart_rearm` has one). `AskedRanges` excuses both as
  "unheard": the excuse is set by the loss itself, so a tag that forgot an
  announcement it has got would still be found.
* A tag that takes a left-over announcement for the answer to its request may
  overlook the loss of its link and range into the next connection ("stray" in
  section 2), until that connection ends.
* If `initUWB` of the tag fails (T 571), nothing arms ranging again in this session.
* A SET_KEY that arrives during an attempt that fails with AUTH_FAIL is lost
  (B 344), and the ESP32 panics on a nullptr when the anchor has hung up first
  (B 481). The tag panics in the same way (T 422).
* A central that reads the challenge before `bleTask` has drawn the new one gets
  that of the session before, answers it, and is disconnected (A 833).
* Frames of LOCK that fail leave `carUnlocked` FALSE and the doors as they were (A
  496-500); a reset of the anchor sends no LOCK. Both are excused in
  `DisconnectLocks`.
* A share of a vehicle that was deleted stays valid: claim and validate do not
  look at `vehicles`.

## 7. Not modelled

The frame tables of the CAN commands (constant bytes), the parsing of the serial
protocol of the bridge and its DISCONNECT command apart from its effect on the
link, encryption and key derivation, the modem's AT dialogue in `setup()`, the
listing endpoints of the server (they change nothing and decide nothing), the
Android screens and the USB transport. The bridge is `partly` modelled: its arm,
monitor and ranging code is that of `Tag` and is not repeated.

Most of the repository is not part of the running system: `lib/` holds the vendored
DW3000 and MCP2515 drivers, which the models know by their effect; `example/` and
most of `Src/` hold sketches of earlier stages that the sketches modelled here
replaced; `Server/main_backup.py` and `main_test.py` are superseded copies; the BLE
test peripheral, the SMS sketch, the NVS and release tools stand outside. What
runs is about 4000 lines, of which the models cover the parts that decide
something.
