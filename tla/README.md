# Verification of the SI4684 FM/DAB receiver firmware

The repository is the firmware of a portable FM/DAB+ receiver: an ESP32 drives a
Silicon Labs Si4684 tuner over SPI, a display, keys, an encoder and an infrared
remote.  This directory holds TLA+ models of its control logic, the TLC runs that
check them and the proofs TLAPS checks.  Paths below are those of the repository.

Contents: 1 inventory, 2 modules, 3 the switch in detail, 4 the EPG packet
receiver in detail, 5 the parts around them and FM, 6 runs and bounds, 7 fairness,
8 proofs, 9 findings, 10 what is not modelled, 11 plan.

## 1. Inventory

Everything that touches the tuner runs in one cooperative loop
(`SI4684-DAB-Receiver.ino`, `loop`).  Concurrency comes from elsewhere: the user
asks for things at any moment, **one** asynchronous command is at the tuner at a
time and its answer may come late, refuse, or never come, the tuner finishes a
tune on its own and raises STC, and the broadcast arrives in any order.  Objects
that own something at the tuner (a tune, an audio service, a slideshow service, an
EPG packet service) share that one command slot.

| Component | State | Operations | What makes it correct |
|---|---|---|---|
| DAB service switch policy (`src/dab_service_switch_policy.h`) | `Controller`: state, resume, request and command ids, three retry counters, deadline, SLS context | `requestSwitch`, `bindCommand`, `backoff`, `deferData`, `requestDataEvaluation`, `serviceBackoff`, `dispatchRequest` | a superseded command never moves the switch; retries are bounded |
| DAB tune and service driver (`src/si4684.cpp`) | pending tune and service request, command in flight with generation, owned audio and data service, service list, lock, health counters | `setFreq`, `setService`, `scheduleNextDabCommand`, `processDabSwitchState`, `finishDabCommand`, `onHardwareResetComplete` | STOP before START and before tune; ownership agrees with the tuner; nothing of an old ensemble is used; every request ends |
| Scheduler policy (`src/dab_scheduler_policy.h`) | deadlines, DSRV burst counter, display filter | `chooseBackgroundWork`, `takePeriodicDeadline`, CTS classification | bounded bursts, no starvation, no command storms |
| Receive health (`src/dab_receive_health.h`) | watchdog counters; DSRV level, sequence, epoch | `terminal`, `status`, `start`, `finish` | recovery only after real loss; no interrupt lost, none replayed for ever |
| SPI packet probe (`src/dab_spi_probe.h`) | state, endpoints, stop attempts | `request`, `stop`, `advance`, `started`, `stopped` | what it started is stopped before a tune, or quarantined |
| EPG suspension policy (`src/epg_auto_suspend.h`) | state, context, confirmations | `sync`, `directory`, `stopDue`, `allowStart`, `started`, `stopped` | stops only after confirmed emptiness; never stuck off |
| User-application scan (`src/dab_spi_discovery.h`) | token, scheduled, processed, failed | `begin`, `issue`, `commit`; `Selector` | no answer counted in the wrong scan; a choice only from complete data |
| Clock transaction (`src/dab_clock_refresh.h`) | candidate, jump, context, back-off | `observe`, `begin`, `acceptUtc`, `acceptLocal` | published time comes from one ensemble and one coherent triple |
| Slideshow collector (`src/si4684.cpp` 1814-2319) | segment bitmap, packed buffer, transport id, published flag | `storeSlideshowSegment`, `assembleSlideshow`, `acknowledgeSlideshow` | a published image is the object that was sent; the display's buffer is not overwritten |
| DAB full scan, auto search (`.ino` 2664-2910, 3899-4045) | scan state, channel, list generations, deadlines | `ProcessDabFullScan`, cancel, finish, restore | stations are filed under the channel that carries them; the previous service returns |
| FM receiver (`src/si4684.cpp` 2447-3110, `src/fm_af_policy.h`, `.ino`) | frequency, PI and alternatives, AF sweep, seek | `setFmFrequency`, `startFmSeek`, `processFmAf`, `updateFm`, `processFmRds` | only the programme asked for is heard; a sweep ends, on a frequency of that programme |
| FM full scan (`.ino` 2503-2662, `src/fm_station_list.cpp`) | scan state, list, completed flag | `StartFmFullScan`, `ProcessFmFullScan`, cancel, finish | stations are filed under their own frequency; the list is the one a restart loads |
| Storage (`src/nvs_storage.cpp`, `*_station_list.cpp`) | RAM image, dirty flags, records | `commit`, `putScan`, `load` | after a refused write or a reset the list on offer is the one that loads; nothing unsaved is forgotten |
| Settings (`.ino` 973-1111, `src/gui.cpp`) | the variables of the program, what the menu asks for, the snapshot | `CaptureSettingsSnapshot`, `MenuUp`, `ExitSettingsMenu`, `DefaultSettings` | what is in effect, what is stored and what the driver has taken over agree |
| EPG core and runtime (`src/epg_core.cpp`, `epg_runtime.cpp`) | MOT directory, two receiving slots, text pool, cached programmes, contexts with epochs | `feed`, `pump`, `expire`, `select`, `browseDay`, `reset` | what is shown is what was broadcast, for the station and day on show; what is not asked for any more is there |
| Host transport (`src/vendor/si468x`) | vendored | start, service, poll | taken as: started, then answered, refused or timed out |
| Mode switch, recovery (`.ino` 850-971) | radio mode | `SwitchRadioMode`, `doRecovery` | the request in force survives the reset; the mode stored is the one that runs |
| User interface, serial, IR, decoders, audio | screens, parsers, codecs | | formatting and data, see section 10 |

Hard behaviour is concentrated in the driver: requests supersede each other while
commands of earlier ones are at the tuner, completions are stale in two different
ways (an older *request id* or an older *generation*), commands may be carried out
without being answered, and a cold reset can cut through anything.  It is modelled
first.  `PROJECT.json` lists every hazard with its line.

## 2. Modules

| Module | Role |
|---|---|
| `SwitchPolicy` | the controller record and its member functions, as operators |
| `DabSwitch` | the driver: requests, one foreground pass, every completion, recovery, and the tuner it talks to; safety, the inductive invariant, liveness |
| `ServiceNesting` | abstract specification: channel, audio service and slideshow are nested; one is started inside, and stopped before, the next |
| `MCDabSwitch` + `DabSwitch*.cfg` | small instances |
| `DabSwitchProofs` | the inductive invariant and the safety theorems |
| `SwitchOutline` | what other components see of the switch: pending requests, owned services, rest, the command |
| `DabSwitchOutlined` | the driver implements `SwitchOutline` |
| `DabSwitchRefines` | proofs that the driver implements `ServiceNesting` and `SwitchOutline` |
| `EpgPolicy` | the member functions of `Probe` and of `epg_auto::Policy`, as operators |
| `SpiProbe` | the EPG packet receiver composed with the outline of the switch |
| `MCSpiProbe` + `SpiProbe*.cfg` | small instances |
| `SpiProbeProofs` | the inductive invariant of the receiver, its safety theorems |
| `EpgStore` | reception, decoding, cache and selection of the programme guide |
| `MCGuide` + `MCGuide*.cfg` | small instances of the receiver and the store, side by side |
| `GuideProofs` | the inductive invariant of the store, its theorems, and those of the two side by side |
| `DsrvDrain` | draining the data service queue: interrupt tracker and burst policy |
| `MetadataQueue` | the order, retries and renewal of the metadata commands |
| `ClockRefresh` | the clock transaction and the tunes, locks and RF polls it races against |
| `UaScan` | the scan of the components for the programme guide |
| `SlideCollector` | from MOT packets to the image that is decoded in place |
| `DabScan` | the full scan, the restored service, the station list and its copy in the flash |
| `Settings` | the settings, their image and the flash, the menu, the radio mode, standby and restarts |
| `MCParts` + `MCParts.cfg` | small instances of the last seven, side by side in one run |
| `MCSettings` + `SettingsLost.cfg` | a small instance of `Settings` alone |
| `FmReceiver` | FM tuning, seek, the AF sweep, PI and alternatives, with what the loop asks for and shows |
| `FmScan` | the FM full scan over `FmReceiver`, its list and the three records in the flash |
| `MCFm` + `FmScan*.cfg` | small instances |
| `PartsProofs` | inductive invariants and theorems of `DsrvDrain`, `MetadataQueue`, `UaScan`, `SlideCollector`, and of the parts side by side |
| `ClockProofs`, `StorageProofs`, `FmProofs` | the same for `ClockRefresh`; `DabScan` and `Settings`; `FmReceiver` with `FmScan` |

`DabSwitch` EXTENDS `SwitchPolicy` and INSTANCEs `ServiceNesting` with
`channel <- tuner.freq, audio <- active, slideshow <- data`.

`SpiProbe` EXTENDS `SwitchOutline` and `EpgPolicy`: each of its actions takes a step
of the outline or leaves it alone.  Since every step of `DabSwitch` is a step of the
outline (`SwitchIsOutlined`, proved), what `SpiProbe` shows beside the outline holds beside the
switch in detail, without its retry counters, service list and tuner phases.

The parts (`DsrvDrain` to `DabScan`) meet the switch and each other only through
the command slot and through a few facts: a tune is requested, a service plays, the
lock is there, a command is of an older generation.  Each models those facts itself, as
coarsely as it can, so that it can be checked and proved alone.  Their composition would
add no interleaving that the free choices in each part do not have already.  `Settings` shares nothing with them but the
loop; what a setting does in the driver is modelled where it matters (`FmReceiver`, `FmScan`).

A few operators stand just before the one they resemble and are used by nothing
(`TuneFirst`, `AudioFirst`, ...; the module headers list them).  They are bugs a
programmer could have written.  Substituted for their neighbour they make a property fail, which
shows that the property looks at the code.

## 3. The switch in detail

### State

The variables of `DabSwitch` are named after the members of class `DAB` they stand
for (the declaration of each gives the member).  Abstractions:

* *A service* is one value for its SID/CID pair; the slideshow component that goes
  with an audio service has the same value.  `Ensemble[s]` is the channel of s.
* *Time* is a set of flags: a deadline is either in the future (`sw.waiting`,
  `tuneWait`) or has passed.  `Elapse` and `TuneRetryElapse` let it pass at any
  moment, so every order of deadlines and answers is explored.
* *The command* in flight is its operation, its target and the generation it was
  started under.  `Metadata` stands for every command whose answer the driver's
  control ignores: DSRV packets, events, ensemble, time, audio, component
  information.
* *An answer* is `Ok`, a device error (`NotAvailable` is 0x03, `TuneBusy` 0x18), or
  a timeout, which the host classifies as `Genuine` or `HostStarved`.  The vendored
  transport of this build reports no transport errors and never refuses to start a
  command (`hostWriteCommand` and `hostReadReply`, si4684.cpp 349-417, return true),
  so the branches for those cannot be taken and have no action.
* *Health*: a command waits one second by default, eight failures in a row take
  longer than `failureWindowMs`, so the watchdog is a count.
* *The tuner* (external) has a channel, a tune phase and the set of streams it
  decodes.  A tune clears the streams and STC.  A successful command has been carried out,
  a refused one has not, **an unanswered one may or may not have been**.  While a
  tune is under way it has no lock and no list.

### Actions and code

| Actions | Code |
|---|---|
| `SetFreq`, `SetService` | `DAB::setFreq`, `DAB::setService` with their early returns |
| `PassStopData` ... `PassNothing` | one call of `scheduleNextDabCommand`, including the `processDabSwitchState` step at its head; the disjuncts are the command it issues, in the scheduler's priority order |
| `FinishStalled` | a completion that makes the health counters ask for recovery and returns |
| `FinishStale` | a completion of an older generation: ownership only |
| `FinishStopData` ... `FinishMetadata` | a completion of the generation in force, all outcomes |
| `Recover` | `SwitchRadioMode` after `transportStalled()`: reset, boot, `onHardwareResetComplete`, `setFreq` in one call |
| `PollStatus`, `SignalDue` | the status byte the interrupt path reads, and the 1 s RF deadline |
| `TunerAnswers`, `TunerSettles` | the tuner (external) |

A completion is one action because `finishDabCommand` runs to its end in one call;
the tuner's own step is taken with it, since nothing can observe it earlier except
through STC, which has its own action.

### Properties

| Property | Says |
|---|---|
| `TeardownFirst` | no tune and no audio START is at the tuner while the driver owns a running service; a slideshow START names the service that plays |
| `OwnershipReconciled` | what the driver owns is what the tuner runs, on every stream whose last START/STOP was answered |
| `PlayingAsRequested` | `ServiceStart` only for the newest request, and only while it plays |
| `SlsContextSound` | slideshow data is accepted only in the context of the newest request |
| `UsableContext` | `audioContextUsable` implies the requested service plays and no tune waits (proved; it follows from `SwitchInvariant`, which the run checks) |
| `ListBelongsToTunedEnsemble` | an offered list was read from the ensemble tuned to (fails, see findings) |
| `NoStrandedRequest` | a controller at rest without failure has no request left (fails, see findings) |
| `ServicesNest` | the refinement of `ServiceNesting` |
| `ServiceRequestResolved`, `RetuneConcluded` | liveness: every request ends |

## 4. The EPG packet receiver in detail

The programme guide is carried by a packet component beside the audio service.
`dab_probe::Probe` starts and stops that component over the same command slot,
`epg_auto::Policy` decides when an empty guide is switched off for five minutes and looked at
again, and `DEBUG SPI`, `DSRV MODE` and `EPG AUTO` let the operator interfere.
Packets of a component that nobody owns would be taken for data of another, so
every START must be followed by a confirmed STOP, or its endpoint stays quarantined.

### State and abstractions

The variables of `SpiProbe` name the member they stand for at their declaration.

* *Time* is one flag per record, `waiting`; `ProbeElapse` and `AutoElapse` clear it at
  any moment.  A field that no later step reads is put back to its initial value.
* *Discovery* is the status of the scan and its choice.  `Unlisted` stands for an inventory
  that is not valid.  The scan itself is its outcome (`Outcomes`): at most one candidate is chosen.
* *Modes* C and D behave alike for the receiver and are one value, `NoParse`.
* A directory or an object of the guide is two flags: it has content, it confirms
  that there is none.
* Live EPG is compiled in, and the diagnostic replay is idle.
* `recheck` and `byHand` are history variables: nothing but properties reads them.
* Answers are as in `DabSwitch`; `Absent` is reason 03 to a STOP, given only when the component
  does not run.

### Actions and code

| Actions | Code |
|---|---|
| `UserTunes`, `UserSelects` | what `setFreq` and `setService` do to the receiver |
| `DebugSpi`, `DebugSpiStop`, `ToggleDebug`, `SetMode`, `EnableAuto` | the commands of the diagnostic port, with `requestSpiProbe`, `stopSpiProbe` and the refusals |
| `ColdRecovery` | `onHardwareResetComplete` within `doRecovery` |
| `Discovered`, `RoutineScan` | the end of a scan, and the 60 s rescan that starts another |
| `PassProbeStop`, `PassProbeStart`, `PassOther`, `PassNothing` | one call of `scheduleNextDabCommand`: `syncEpgAuto`, taking an idle probe, the policy's STOP, `advance`, then the command that is issued |
| `CompleteStart`, `CompleteStop` | `finishDabCommand` for the probe's own commands |
| `Complete`, `CompleteStalled` | for all others, and the watchdog that returns first |
| `InventoryRead`, `GuideReceived` | a service list, a complete directory or an object |

### Properties

| Property | Says |
|---|---|
| `StreamQuarantined` | a component that is decoded is the one the probe still tracks, through lost answers, cancelled STARTs and failed cleanups |
| `CleanupBeforeSwitch` | no service is stopped or started and no tune is sent while a component is decoded, unless its cleanup was given up |
| `AutoSuspensionSound` | while the policy waits its five minutes nothing is received (`CooldownIsSilent`), and a suspension that is pending has a STOP of the probe under way that will settle it, or a cleanup that was given up (`AutoNotStuck`) |
| `StartInContext` | a START is issued for the newest request only, in an undisturbed service, and never while the policy forbids it |
| `CleanupEnds` | liveness: a STOP is confirmed or given up, so the switch behind it is not held for ever |
| `RecheckIsLimited` | liveness: a recheck that receives nothing ends (fails with the 60 s rescan, see findings) |
| `ManualIsFinite` | a manual probe is not taken for production reception (fails, see findings) |

## 5. The parts around them

All of them are members of class `DAB` or of the main loop that run between the
commands of the switch.  Time is a flag per deadline throughout.

### `DsrvDrain`: packets without losing an interrupt

The tuner queues slideshow and guide packets and raises the DSRV bit, which a read
acknowledges.  Whether the bit falls when blocks are left, or ever, is not documented, so `irqHeld` (external)
is any of three tuners: it falls with the acknowledgement, stays while blocks are queued, stays
for ever.  `dsrv` is the tracker; its sequence numbers are the flag `fresh` (an edge came since the
read started) and its epoch is `outdated`.  `ScheduleRead`, `ScheduleSignal` and `ScheduleLow` are the
three outcomes of `chooseBackgroundWork`; `PollStatus`, `CompleteRead`, `CompleteOther` and `BackoffOver` the calls of
`status` and `finish`; `RequestTune` is `setFreq` and `CarryOutTune` the tune.

* `InterruptNotLost`: a bit over queued blocks is wanted, being read, or still unseen.
* `TurnsTaken`: continuous data starves neither the RF status nor the metadata, and when reception stops
  reading stops too, even under a bit that never falls.

`QuietVerify` is a condition, not a bound.  The tracker reads a level that stays high
once more (the verification read) and then trusts it.  A block that arrives, or an error that happens, *within* that
read is not asked for until the bit falls; with `QuietVerify = FALSE` `InterruptNotLost` fails for a tuner whose bit
stays up.  The property is claimed for undisturbed verification reads only.

### `MetadataQueue`: which metadata is asked next

`due` holds the `...RefreshPending` flags; `Order` is the order of the branches of
`scheduleNextDabCommand`, and the first wanted kind is taken, or holds back the rest when it is
not ready (`Chosen`).  `Ask` and `AskInVain` are the pass, `StaleAnswer` ... `Failure` the completions, the actions above them what
makes kinds due.  A device event has a bit (`eventBit`, external), and `unlisted` remembers that a
reconfiguration was announced and no later list was read.  A periodic kind comes due at most once
between two idle moments: the shortest period is 10 s and a turn takes 100 ms.

* `MetadataServed`: again and again nothing is wanted, and an announced reconfiguration is followed by a list
  (`ListFollowsChange`), also when a second one is announced between the acknowledgement of the first and the completion that
  clears the flag.  It is checked for `Unanswered = {}`, a tuner that answers the type of every service in the end, and fails
  otherwise (section 9).

### `ClockRefresh`: one time from one ensemble

A reading is the ensemble it comes from and whether it is right or off; that is all
that pairing and jump detection can tell apart.  Ensembles are named by the generation
whose tune selected them.  `refresh` is the transaction and its member functions are
operators on it; the pass (`Maintained`, `PassSends`, `IdlePass`) is `maintainDabClock` followed by at most one command.  Tunes may
be refused, unanswered or sent again, and an RF poll may see the old lock while a tune waits.

* `ClockOfThisEnsemble`: a published clock is that of the ensemble received or searched for.
* `JumpCorroborated`: a clock in use jumps only when a second whole cycle said the same (`heard`, history).
* `ClockPublished`: while the lock is kept a usable clock is there again and again.

### `UaScan`: which component carries the guide

The broadcast (`version`, `carriers`) changes under the scan; the structure of the list
stays the same, since then only the version tells two lists apart.  One component is asked
at a time (`AskComponent`, `ComponentAnswers`, ...), a new list, a new service, a failed list, the 60 s rescan and
`setFreq` begin anew while an answer is on its way; the token of the query tells the scans apart.

* `SelectedIsTheOnlyOne`: a selected component is the only carrier, in the service that plays or in the ensemble.
* `AnswersCounted` (with the types): the counters agree with the answers held, none superseded, none missing.
* `ScanConcludes`: with a service and a valid inventory the choice does not stay pending.

### `SlideCollector`: an image that is whole

A segment is a unit of length and stands for itself, so the packed buffer can be compared
with the object that was sent.  Both programmes use the same TransportIds.  `ReceiveSegment` and `Header` are
`getServiceData` down to `assembleSlideshow`, in any order and with repetition and loss; a damaged header (its CRC
is only counted) has any length.  `CacheImage`, `OpenView`, `StartDecoding` ... are the user interface; packets are received while
it decodes, because the decoder pumps the driver.  The objects are JPEG images, whose first and
last bytes are checked.

* `OfferedIsWhole`: an offered image is all of one object of the selected service, in order.
* `HeldWhileDecoded`: nothing is written into an image that is being decoded.
* `CarouselShown`: once the carousel has settled on one object that fits (`OnAir`), the image of that object comes to be on offer and
  stays there (`Offered`), unless it was *exhausted* before: it was the last to be completed, and a segment of another object
  has withdrawn it since (`Exhausted`; the code then refuses it for ever, section 9).  It does not become exhausted
  afterwards (`StaysUnexhausted`, proved).

### `DabScan`: stations filed under their channel

Of the radio there is the channel it receives, the pending tune, the lock and the list, which may be
provisional and comes late.  `ScanPass` is `ProcessDabFullScan` with one action per state; `CancelScan`,
`FinishScan` and `RestoreAfterScan` are the ends; `RestoreService` is the part of `ProcessDAB` that selects
the remembered service.  `Written` is what an interrupted or refused save may leave, `LosePower` a
restart at any moment.  `TuneByHand` may overtake the scan, as the serial command does.

* `StationsOnTheirChannel`: a listed station is carried by its channel, and a restored service by the channel received.
* `ListSurvives`: without a scan, the list and its flag are those a restart would bring back.
* `ScanEnds`: every scan ends, whatever the signals, lists and types do.

`EarlyLock = FALSE` says that no RF poll reports the old lock while a tune waits.  With
`TRUE`, `StationsOnTheirChannel` fails as a consequence of finding 1: the restored service is looked up in the
list of the channel that is being left.

### `Settings`: what runs is what is stored

The settings are in up to five places: the variables of the program (`settings`), what the open menu asks for (`menu`), the
image of the flash records with its dirty flags and the flash (`nv`), and copies in the driver and in the station list (`driver`,
`listRegion`, `application`).  A setting is one of six, after the way it is treated: `af` (changed at once, with a copy in
the driver; it stands for language, brightness and five others too), `region`, `mode`, `gpio` (needs a restart), `i2s` (needs a
restart of the tuner, has a record of its own), `memory` (stored outside the menu: station, presets, tune mode, learned keys).

`OpenMenu`, `EditSetting`, `ExitSettingsMenu`, `ExitCutShort` (a refused write ends the handler early), `ExitRestarts` and
`TuneBySerial` are the menu; `SwitchRadioMode` is an operator that the exit, `SwitchByRemote` and `Recover` use, with a `begin()` that
may fail; `StoreMemory`, `LearnKeys`, `CommitWhenDue` and `Sleep` write; `PowerFails`, `StartWithDefaults` and `DefaultsRefused`
start the program.  A commit that is refused has written any proper part of the dirty records (`RefusedCommit`), and so has
one that a power loss interrupts.

* `RunsAsKept`: outside the menu all five places agree, unless the exit, the defaults or a `begin()` failed since the start.
* `SettingsStored`: the device never sleeps on unsaved settings and saves them in the end, however often a write is refused.

`TuneAfterEdit = FALSE` says that no serial command tunes while the menu holds a change; with `TRUE`, `RunsAsKept`
fails (finding 6).

### `FmReceiver`: the programme that was asked for

`at` is where the tuner is and `to` where its tune or seek leads; `busy` says that its command waits for CTS.
One call of `ProcessDAB` is one of `TunePass` (the end of a tune is polled), `SignalPass`, `RdsPass`, `EmptyPass`,
`AfPass` (`processFmAf` sends a tune), `BlockedPass` and `ServedPass`; each takes along what `processFmAf` does when
it sends nothing (`QuietSweeps`), the muting and the refresh of the display (`Refresh`).  The record `af` is the
sweep: `WeakHold`, a tune to each candidate, its PI, the tune back, `Cooldown`.  `BeginSeek` and `EndSeek` are
`Seek`, `TuneByKnob` is the end of the 250 ms the knob must stay still, `TurnKnob`, `SelectStation`, `PressSeek`,
`LeaveSeek` and `ChangeView` are the user.

Assumed, where the code cannot know better: a signal is valid or not, and its strength is left open, so that every sweep that the
code may begin begins; so are all its deadlines and the order of candidates.  A tune that times out ends where it was aimed.  A PI
that is read is right; what a station *announces* may be wrong.  `chosen` (history) is the frequency last asked for, or where
a seek ended.

* `OnlyVerifiedHeard`: a settled tuner that is not muted is where the user wanted it, or on a station of the same programme.
* `RdsOfThisStation`: PI and alternatives belong to the station received, or, in a sweep, to the one to return to.
* `ShownIsReceived` (proved): at rest the frequency on show is the one received.
* `SearchesEnd`: sweeps and seeks end, whatever is announced and whatever interrupts them (checked as a part of `FmScanEnds`).

`ProbeRequests = FALSE`, in the run, says that no frequency is asked for in the turn of the loop that sends a tune of a sweep, when the
driver would refuse it; section 9 says what happens then, and section 8 under which weaker condition the three are proved.  Two requests of the user are further apart than the wait for CTS.

### `FmScan`: stations filed under their frequency

The scan is one action per state of `ProcessFmFullScan`; `FinishFmScan` saves and reloads, `CancelFmScan` reloads.
A save writes list, region and flag: a failed write (`CutShort`) or a power loss between two of them
(`LosePower`) leaves any prefix.  The list is a set of frequency and PI; of two records of one station the better is left
open, and a full list takes no more.  Frequencies are valid in every region.  The driver gives up a tune
(3 s and 12 s) before the scan does (4 s and 13 s), so that the scan's own deadlines never decide.  Rotary 1 and the keys
cancel a scan, and `FineTuneInScan = FALSE` leaves out rotary 2, which does not (finding 5).

* `ListedAsReceived`: a listed PI is that of the frequency it is listed under.
* `FmListSurvives`: without a scan, list and flag are those a restart would load for the region.
* `FmScanEnds`: every scan ends, although it may never come round to its first station, and so do sweeps and seeks.

### `EpgStore`: what the guide shows

`core` is the object of class `epg::Core` with its fields, and an operator that takes a core and returns one is the
method of its name, so that a handler is a composition: `ReceiveObject` and `ReceiveDirectory` are `feed`,
`EpgPoll` is `poll` (`pump`, then `liveContext`), `ExpireSlot` and `LoseReception` are `expire`, `ChangeStation`,
`ChangeEndpoint` and `Browse` the callers of `setPadEndpoint`, `liveEndpoint` and `browseDay`.

* *Objects* are TransportIds with what they hold (`Object`); segments arrive in any order and with repetition.
  An object that is not valid is found out by the first pass over it, before anything is taken from it.
  `Withheld` are segments that never arrive.
* *Decoding* takes one programme or name per `Pump`, so that selections, directories and losses fall between any two;
  the budget of the code only decides how many are done in a call.
* *Texts* are units of the pool, so an offset is a place; `EraseText` and `EvictContexts` move the rest down.  `EvictContexts` takes
  several contexts at once: what their evictions leave does not depend on the order, since the texts that stay keep theirs.
* *Deadlines* of a slot may pass at any moment in which the code could let them pass: `ExpireSlot` when nothing that is
  missing can come, `LoseReception` (bounded) for any gap in the reception.
* *Versions* are small numbers in their plain order; the code compares 16-bit numbers serially (`epg_core.cpp` 611), which is the same
  as long as the versions of one programme are less than 2^15 apart.
* *Days* are numbers, and a clock that is not trusted is 0.

Properties:

* `SeenIsShown`: an object whose segments are refused because it counts as received has its programmes in the view, in its version or a later one,
  unless the guide says it is limited or ambiguous.
* `TextsOfTheirProgramme`: each programme has the title and description it was broadcast with, and the pool holds nothing else.
* `GuideAsBroadcast`, the two together, is what the run checks: an error in the cache breaks one or the other.
* `GuideAcquired` (liveness): programme information of the station and day on show is received although
  two other objects never become complete.

## 6. Runs and bounds

All runs check deadlock but `parts` (`MCParts.cfg`): a part
whose bounded events are used up, and which has nothing scheduled, stands still, as the program does.

The instance of the switch has services s1 and s2 on one channel and another channel, which is
empty: two services are needed for a switch within an ensemble, a second channel for a retune that
changes what is on air, and s1 after the retune names a service that is not there.  s1 and s2 are interchangeable
and symmetric in the safety run; the liveness run has one channel and no symmetry.  The runs of findings 1 and 2 have a service s3 on the other channel.

| Run | Bounds | Shows |
|---|---|---|
| `switch_faults` | 3 request ids, 2 faults on any command, early RF poll | the safety properties, the inductive invariant, ownership through faults and recoveries; the slideshow context; the refinements of `ServiceNesting` and `SwitchOutline` |
| `switch_live` | 3 request ids, 2 faults on audio STARTs and tunes, watchdog at 2, fair | every service request is resolved, every retune concluded |
| `switch_stale_list`, `switch_stranded` | small | findings 1 and 2 |
| `guide_races` | receiver: 2 components, 3 request ids, 1 command of the operator, 2 faults, 2 attempts to STOP, rescans; store: 7 objects, 2 carousels, 2 stations, 3 events | all safety properties of the receiver and of the store |
| `guide_served` | receiver: 1 component, 3 request ids, 1 fault, no rescans; store: 4 objects, 1 station, 2 events; fair | a cleanup ends; the guide is received |
| `probe_recheck`, `probe_manual` | small | findings 3 and 4 |
| `parts` | see below, fair | the properties of the seven parts |
| `settings_lost` | 2 values, 2 events | finding 6 |
| `fm_scan` | 3 frequencies, 2 programmes, right and wrong announcements, 2 regions, 3 events of any kind, fair | the properties of `FmReceiver` and `FmScan` |
| `fm_scan_retuned` | the same with 2 events and rotary 2 in a scan | finding 5 |

`MaxRequests` bounds request ids: the first `setFreq` has id 2, so 3 allows two more
requests after it, which is a selection and another selection or a retune that overtakes it; recoveries come on top.
`MaxFaults` bounds refusals without cause and unanswered commands.  The retry limits
are 1 each, `FailureLimit` 3 (2 where fewer kinds of faults are allowed) and `StallLimit` 4, smaller
than the code's so that every counter is exhausted within the fault bound.  Answers the tuner gives for a cause
(a STOP of a service that does not run, a START on the wrong channel, a busy tune) are free of charge.
`FaultyOps` confines the faults to some commands and `EarlySignal` says whether the
STOPs before a tune may take longer than the RF deadline; both exist so that the
conditions under which a property holds can be stated.  `switch_faults` sets neither.
`switch_live` leaves TuneStatus out because a failed tune status strands requests (finding 2); a tune that fails takes the
same path of retries.  Its faults are those of START and tune; STOPs that fail are in `switch_faults` only, so that a retune that
waits behind them is shown not to overtake (`TeardownFirst`), but not to end.

For the receiver, `MaxRequests` 3 allows two requests after the first `setFreq`:
a selection that starts reception, and a tune or another selection that must end it.  The code
tries three STOPs, the model two, so that two faults reach
`CleanupFailed` in `guide_races`; `guide_served` has one, so that its cleanups end with a STOP that is confirmed.  One operator command is enough for each command to meet every state of the probe
(`probe_manual` needs two); p1 and p2 are interchangeable and make a discovery that changes its mind
possible.

For the store, two contexts make every change of station or day evict one, 2 programmes and 4 texts make the cache and the pool full
with what one object holds, `EpochMod` 4 lets the counter wrap after three contexts, and
one of the objects replaces a programme of another.  The second carousel names one station twice and sends
an object that cannot be decoded.  Three events are a service, a clock and one that interferes.  In `guide_served` two objects never
become complete, which could hold both slots, and a carousel without one of them follows.
As in `parts`, one half runs in each behaviour: the receiver hands the store segments and a reset, which the store takes in any order,
and the store tells the policy of the receiver that a directory or an object came, which `SpiProbe` chooses freely.

In `parts` one part runs in each behaviour.  The bounds, and what they are enough for:

* draining: a queue of 2 blocks (one left after a read), bursts of 2, one error, one tune;
* metadata: one kind for each way of being handled (`Service` and `Subchannel` behave as `Ensemble` does
  and `Time` is `ClockRefresh`), 2 services (a scan in the middle), 1 failure, 3 events (a start, a
  lock and one that interferes);
* clock: one change of frequency, 5 faults (a jump needs two refused cycles, and each wrong answer counts);
* component scan: 3 components, two of the service that plays and one in the audio stream, 3 versions of
  the list, 1 restart, 1 failed answer;
* slideshow: objects of 3 and 2 segments (a middle segment; a takeover by a shorter object), a buffer that just holds the longer
  one, 1 change of service, 1 damaged header, 2 uses of the view;
* full scan: 2 channels with 1 and 2 services, a list of 2 stations (one is dropped), 2 list requests,
  3 events (a start, and two of a command, a lost lock, a failed write, a power loss);
* settings: 2 values of each, both modes at first, 3 events of edit, refused write, failed `begin()`, store and restart: two
  settings changed in the menu and an exit that fails, or an edit, a refused commit and a power loss.

In `fm_scan`, frequency 1 announces one of its own programme and one of another; the other two announce nothing, which
keeps sweeps from chaining.  A list of 2 stations can be full, 3 seeks bring a scan round the band or to its limit, 2 regions make a
list belong to the other one.  Three events are a scan, a failed write and a power loss, or a sweep that a knob and
a menu interrupt.

## 7. Fairness

`Fairness` is weak fairness of: the foreground pass (the loop calls the pump on
every turn), a completion (the transport ends every command by an answer or its own
deadline), the passing of time, the tuner finishing a tune, the status poll, and the
recovery (the loop tests `transportStalled()` on every turn).  Requests are not fair,
and an answer that succeeds is not promised: the bound on faults is what makes retries
end.  `ServiceRequestResolved` and `RetuneConcluded` accept state `Failed` as an end
because the code reports it and waits for the user.

`SpiProbe` assumes the same of passes, completions, deadlines and recovery, and that a
scan ends.  `PassProbeStart` is strongly fair: other background commands may be issued
before it, but `chooseBackgroundWork` bounds their bursts and then lets the START through.

The parts assume no more: their passes, their completions and their deadlines are
weakly fair.  `SendTime` is strongly fair because other commands take the slot in between; that they
do not take it for ever is `TurnsTaken` and `MetadataServed`.  `SlideCollector` assumes of the
broadcast that every packet of an object that stays on air is received again and again.  In `parts` the fair actions of different parts
share one WF formula each: only one part runs, so that a disjunction is fair exactly when its own action is.

`FmReceiver` assumes that the tuner arrives, that the loop polls a pending tune and the signal, sends the next tune of a sweep,
serves a seek, and ends the wait for the knob; `FmScan` adds its own pass.  RDS is not fair: a candidate may never show a PI.

`Settings` assumes that the loop comes round to the commit three seconds after the last change.

`EpgStore` assumes that the loop polls, that the deadline of each slot passes when nothing more can come for it, and that a segment
of programme information that would be taken comes again: a carousel brings each of its segments once a turn.

The properties of the parts have the forms `[]<>P` and `<>[]P => []<>Q`: requests, tunes and
reconfigurations may come at any time, so a promise is that the work is done again and again, or once the
surroundings stay as they are.

## 8. Proofs

`tlapm` checks every obligation.  The theorems hold for all values of the constants under the
assumptions that the modules name (`RetryAssumption`, `SwitchAssumption`, `DrainAssumption`, ...: types of
the constants, `None` outside of the sets), with any number of requests, faults and events.

### The switch (`DabSwitchProofs`, `DabSwitchRefines`)

The safety properties are not inductive: a START that completes is safe only if the
controller waits for it or has been superseded, which is a fact about the pair of
ids; a tune is safe only if the controller has come to `Idle` with nothing active, which
depends on every state before it.  `Inductive` collects what is needed:

* `CommandAccounted`: a service command in flight is the one the controller waits
  for (ids agree, the state is its wait state, the generation is the one in force), or it is superseded
  and the controller stands in `RequestSwitch`.
* `CommandSafe`: what each command in flight assumes about ownership.
* `PhaseSafe`: the same for each controller state; a back-off counts as the state it resumes.
* `TunePendingOnce`: a tune that is under way is not pending as well.
* `OwnershipReconciled`, `PlayingAsRequested` and the type invariant.

`DabSwitchProofs` proves one lemma per action (`...Preserves`), from lemmas about the
controller operators, about the tuner's answer (`TunerObeys` and the `Terminal` facts) and a frame lemma per
group of actions; `InductiveInvariant` joins them, and each safety theorem follows from it.

`SlsContextIsSound` needs one fact that is nowhere in the code: the slideshow context is entered only when no
tune waits for its end.  The driver does start an audio service while the tuner still tunes, after a
recovery or a repeated tune.  It gets no further than its settle time: the answer to its START shows STC,
so that the next pass must read the tune status, and that reading sends the controller to `Idle`.  `ContextInvariant` says so:

* `TuneTracked`: a tune that waits was not superseded, and its completion is to come or is being read.
* `TuneEndsFirst`: with a tune waiting, the controller is within `AudioSettle` with STC seen, or the reading is under way.
* `ContextKept`: the context is given back with the states in which audio is usable.
* `TornDownForCause`: services are torn down only for a request that is still pending.

`SwitchInvariant`, the two together, is an invariant of the run `switch_faults` and a theorem.

`DabSwitchRefines` proves the two refinements.  `SwitchNestsServices` maps every action to a step of `ServiceNesting` or
a stutter.  `SwitchImplementsOutline` maps it to a step of `SwitchOutline`; `settled` there stands for the two
states of the controller in which the switch rests (`Settled`), and the hard steps are the completions: an answer may leave the switch at rest
only if no request is pending (`RestsThroughFinish`), serve a request only by a START of the service requested
(`RequestsOutlined`), and change what is owned only as the command in flight allows (`OwnersOutlined`).

### The EPG packet receiver (`SpiProbeProofs`)

`ProbeInductive` joins `TypeOK`, `StreamQuarantined` and `CleanupBeforeSwitch` with

* `ProbeFollowed`: a START at the tuner has the probe in `Starting`, a STOP in `Stopping`, and a START finds a quiet tuner;
* `TuneAlone`: a tune is sent with the probe at rest, and nothing is decoded while it is under way;
* `SuspensionFollowed`: what the policy is waiting for is what the probe is doing;
* `OneCommand`: a stalled tuner has no command, and one of this tune that reads its status has a tune to conclude;
* `Grounded`: a scan that ends with a choice has chosen a component.

Lemmas about the operators of `EpgPolicy` come first (`AdvancingKeeps`, `ContextTypes`, `PreparesTypes`, ...): each says in which
states a member function leaves the record.  Five theorems follow, one of them (`StartsOnlyInContext`) about steps.  All
hold beside every behaviour of the outline, and by `SwitchImplementsOutline` beside the driver.

### The programme guide (`GuideProofs`)

A core is one record, and every method a function on it, so the proof is one lemma per method, in the order in which the
methods call each other.  What they keep is `CoreOK`, in four layers:

* `Stored`: every entry of the cache has a valid context of its day and its own places in the pool, with the texts of its programme;
  no place is without an entry, and no two entries of a context are of the same programme (`Pool`).  `EraseText` moves the places by a function
  that is one-to-one but for the text that goes (`Relocated`), and a compaction numbers the places that are left (`RankNumbers`).
* `Epochs`: valid contexts have different epochs, unless they lost theirs when the counter wrapped, and no mark is ahead of the counter.
  A new epoch is one that no context and no object has (`EpochTaken`).
* `Recalls`: what was received under the epoch of a context is in it, unless the context is limited or the station has two names.
  Evictions, new versions, a lease and the return to an earlier selection keep it; the mark of the view is written back to its
  context when the selection changes (`ContextLeft`), until then the field `limited` speaks for it (`LimitedNow`).
* `Progress`: of the object that is decoded a first part has been handled (`InOrder`), so that nothing is missing when it counts as received (`ObjectCompleted`).

`GuideIsAsBroadcast` follows with `Shown`: the context in use is that of the selection, from the first directory or selection on (`Blank` before).
A service whose names disagree is never selected, which is what `CoreOK` adds: without it a programme could be refused as ambiguous and
its object count as received.  The theorems are about all objects, carousels and sizes; `GuideTypeCorrect` and `GuideIsAsBroadcast` are stated for the composition
that the run checks, from `StoreInv` and `ProbeInductive`, and `StoreIsAsBroadcast` for the store by itself.

### The parts

* `PartsProofs`, draining: `InterruptKept` says that `InterruptNotLost` holds when `QuietVerify` does.  `DrainInductive` adds
  that the tracker's level is the tuner's while no answer is on its way (`LevelIsTrue`), and that
  an answer under a high level leads to another read unless nothing was left (`ReadTellsAll`).
* `PartsProofs`, component scan: `SelectionIsTrue`, for any components and any number of versions.  Components are asked in order and one at a time, and a query is of this scan exactly while it
  is active (`OneAtATime`), so that those that have answered are the first ones (`AnsweredFirst`), which gives `AnswersCounted`; and once the
  list on the air has been read, what an answer says of a component is true of it (`AnswersTrue`).
* `PartsProofs`, slideshow: `OfferIsWhole` without induction over the segments: `CollectorSound` says *where* each segment of the packed
  buffer lies (`Arranged`: after as many as are held with lower numbers), and inserting one moves those above it by one; when all
  are there each lies at the place of its own number.  `OfferStaysUnexhausted` is the safety part of `CarouselShown`: while the
  carousel repeats one object, whatever is assembled is that object.  `ImageUndisturbed` adds that an image being decoded is on offer and marked
  for drawing (`MarkedWhileDecoded`), so that the collector is closed.
* `PartsProofs`, side by side: `PartsTypeCorrect` for the composition that the run checks, from `OneRuns`.
* `ClockProofs`: `ClockIsFromHere` says that the published clock is that of this ensemble.  A cycle is accepted only
  with the transaction's lock, which a pass takes away before it sends a tune (`AcceptedAtRest`,
  `NoPairDuringTune`); a tune is sent again only if it may have been carried out, and then leads to where
  the tuner is (`SameAgain`); a tune of an older generation finds no clock (`OldTuneFindsNone`).  `JumpsAreCorroborated`, about
  steps, rests on `JumpIsHeard`: a jump that waits for its corroboration was said by a cycle under this lock.
* `StorageProofs`, full scan: `StationsCorrect` for `EarlyLock = FALSE`, from the facts that lists and services are of the channel
  requested and received once the tune is over (`ScanInductive`); `ListSurvivesAlways` without that condition.
* `StorageProofs`, settings: `RunsAsKeptAlways` for `TuneAfterEdit = FALSE`, and `NothingForgotten`, the safety part of `SettingsStored`,
  without it.  `Sound` says of the image that a value that differs from the flash is in a dirty record, and that a dirty record
  has its commit due; every operator on the store keeps it.  `Agreed` extends `RunsAsKept` into the open menu, where the
  image has what was set when it was opened (`Base`); `ExitWrites` shows that the writes of the exit, one per changed setting,
  make it what is asked for.
* `FmProofs`, the receiver: `VerifiedIsHeard`, `RdsIsOfThisStation` and `ShownIsReceivedAlways` for any band, programmes and announcements.
  `FmInductive` says what a tune that is under way will have been for: it was asked for (`TuneIsAsked`), or the sweep waits for it
  (`TuneIsAwaited`); a tuner at rest receives what the driver believes (`RestIsReceived`); the sweep's original is of the
  programme chosen, and its candidate is where the tuner is while its PI is read (`SweepIsAccounted`, `SweepIsNamed`);
  the alternatives are announced by that programme (`AfOfProgramme`); the display follows (`ShownFollows`).  These three hold of
  every behaviour in which no request is refused, `[][~RequestRefused]_fmVars`: a request is refused if its frequency is asked for
  while the command of the sweep waits for CTS.  That is weaker than `ProbeRequests = FALSE`, which excludes such requests
  beforehand (`NoneRefused`), and says of any behaviour that the three hold up to the first refusal, since what went before
  may be followed by stuttering.  Types (`FmTypeCorrect`) and `AlternativesAreOfProgramme` hold without it.
* `FmProofs`, the full scan: `SoundDuringScans` says the same with a scan beside it: what the scan asks for is a request like those of the user.
  `FmListIsKept` holds without conditions: the flag always agrees with the flash, and every step loads the list again or leaves it, unless it is one of a scan
  (`FlagAndListKept`).  `ListedIsReceived` holds if no request is refused and
  `FineTuneInScan = FALSE`: a scan that dwells is held at its candidate, at rest (`ScanIsHeld`, `DwellIsAtRest`), so that the PI is none or that of the
  candidate, and every way in which the list and the flash change keeps `ListsReceived`.

### Conditions

Eight theorems have a hypothesis that the code does not guarantee, of five kinds:

| hypothesis | theorems |
|---|---|
| `QuietVerify` | `InterruptKept` |
| `~EarlyLock` | `StationsCorrect` |
| `~TuneAfterEdit` | `RunsAsKeptAlways` |
| no request is refused | `VerifiedIsHeard`, `RdsIsOfThisStation`, `ShownIsReceivedAlways`, `SoundDuringScans`, `ListedIsReceived` |
| `~FineTuneInScan` | `ListedIsReceived` |

Each leaves out one situation in which the property is false, which is listed in section 9 or said in section 5, and the run that
checks the property leaves it out too.  Without it TLC finds the property violated, with one exception: `ListedAsReceived` has no
counterexample with `ProbeRequests = TRUE` in the instance of `fm_scan`; its proof rests on the invariant of the receiver, which has.

### Only model-checked

* Liveness (`ServiceRequestResolved`, `RetuneConcluded`, `CleanupEnds`, `GuideAcquired`, `TurnsTaken`, `MetadataServed`,
  `ClockPublished`, `ScanConcludes`, `CarouselShown` but for its first conjunct, `ScanEnds`, `SettingsStored`, `FmScanEnds`): the prover has neither fairness of an action
  with its ENABLED nor well-founded induction over operators.
* `ListBelongsToTunedEnsemble`, `NoStrandedRequest`, `RecheckIsLimited`, `ManualIsFinite`, which fail, and what holds only for some
  values of `FaultyOps` and `EarlySignal`.

## 9. Findings

1. **A list of the old multiplex under the new tune** (`switch_stale_list`).  `setFreq`
   forgets the list and moves to a new generation, but the tuner stays where it is until the
   STOPs are done.  An RF poll that falls due meanwhile is answered with the old lock, the old
   list is read, and nothing invalidates it when the tune completes.
2. **A stranded service request** (`switch_stranded`).  The success of a repeated `TuneStatus`
   puts the controller to `Idle` without looking at what it is doing; a selection made before it is
   lost, and selecting the same service again is ignored.
3. **A recheck without a limit** (`probe_recheck`).  A recheck of an empty guide is limited to 30 s.
   The 60 s rescan of the components meanwhile makes the policy forget that it was rechecking; it comes
   back as `Active`, which has no limit, and a carousel that sends nothing is received for ever.
4. **A manual probe that does not end** (`probe_manual`).  Two `DEBUG SPI` while the tuner is
   busy with a command: the first stops production reception, the second takes the idle probe before a pass has cleared
   `epgContinuous`, and the manual probe observes without its 30 s window.
5. **A station under another frequency** (`fm_scan_retuned`).  Rotary 2 and the fine steps of the remote control do not cancel a
   full scan.  Turned while the scan dwells on a station they tune away, and the PI and name of the new frequency are listed
   under the old one.
6. **Settings that are never saved** (`settings_lost`).  The serial command `T` closes the menu without its exit.  Language,
   brightness, AF and the others that were changed at once stay in effect, FM seek and AF without reaching the driver; the next opening of
   the menu takes them for the saved ones, so that its exit does not write them either, and they are gone after a restart.

`PROJECT.json` quotes the lines.

Observed while modelling, without a run of their own:

* An audio START that is not answered may have been carried out; the driver owns nothing then, and the next selection starts
  its service without a STOP (`si4684.cpp` 3564).
* A service type that the tuner refuses each time is asked for in every turn of the metadata; the ensemble, audio and component
  queries behind it are never sent.  With `Unanswered` not empty in `MetadataQueue`, `MetadataServed` fails (`si4684.cpp` 4573).
* A frequency asked for in the turn of the loop that sent a tune of an AF sweep is lost: `setFmFrequency` forgets the sweep, the command slot is
  taken, and nothing repeats the request; the candidate stays, audible and unverified, its PI is taken for that of the station asked for, and
  the frequency asked for stays on show until the signal is polled.  With `ProbeRequests = TRUE` `OnlyVerifiedHeard`,
  `RdsOfThisStation` and `ShownIsReceived` fail (`si4684.cpp` 2498).
* A slideshow image that is withdrawn may never come back.  The first segment of another object withdraws the image on offer
  but leaves `lastCompletedTransportId` (`si4684.cpp` 2137-2143).  If the carousel settles on the first object before the other one is
  complete, its segments are drained as those of a completed object (1912, 1991); the time-out resets the collector
  only (5102-5107), and the identifier is forgotten only with the service or on a reset (726, 2403, 2486, 3165).  Without the
  exception for an exhausted image, that is as `<>[]OnAir => <>[]Offered`, `CarouselShown` fails.
* `putScan` writes a list before its region.  If the second write fails the new list stands under the old region and
  is loaded there after a change of the region (`nvs_storage.cpp` 187).
* The branch of the FM scan for more than 220 seeks in `StartSeek` cannot be reached; the dwell ends the scan first.  Replacing a
  record of the same PI by one of another frequency leaves the FM list unsorted.

* The DSRV interrupt can be lost when a block arrives or an error happens within a verification read
  (section 5; `dab_receive_health.h` 41-47).
* README.md 174-176 says that after a burst the RF status *and then* one metadata command get a
  turn; `si4684.cpp` 4543 resets the burst counter after the RF status, so that draining resumes
  before the metadata.  `TurnsTaken` holds nevertheless.
* `browseDay` before any clock was received takes the day that is already shifted as its base (`epg_core.cpp` 268, 300), so that one
  day on and one day back end on another day than they began on when that day is announced too.
* `wanted()` (`epg_core.cpp` 471), which rotates the preference of objects, is called by nothing in the firmware but itself: reception takes what comes first.
* After an exit from the menu whose change of mode fails, the new mode is stored and the old one in force.  A later recovery, or a change of
  the I2S mode, starts the old one with success and leaves the stored one, so that the next start comes up in the other (`.ino` 1107, 927).
* If the I2S mode cannot be saved, the exit is cut short: the region is changed in the program and not in the driver nor in the station
  list, and the I2S mode whose "radio reload" was "cancelled" is committed three seconds later and in force after the next start.
* Factory defaults that cannot be saved are reported, the program goes on with what it had loaded, and the defaults are committed
  three seconds later if the write succeeds then (`.ino` 1662).  `RunsAsKept` leaves these three out by `cut`.
* A PNG image has no end that is checked: with a damaged header whose BodySize is too small it could be published truncated.


## 10. Not modelled

More than two thirds of the lines of the implementation are data: the tuner's firmware image (`firmware.h`), fonts
(`font.h`) and bitmaps (`graphics.h`).  They have no behaviour to model, so that no model can cover most of the lines.

Nothing here says anything about SPI framing, the boot of the tuner, or the vendored driver;
the image decoders, XML and label decoding, fonts, screens, serial formatting and IR pulse tables, which are
data handling without interleaving; and diagnostics.

Not yet modelled, though they could be: the assembly of PS, radiotext and clock-time in RDS, the frequency stored for the next start; the logos and the availability shown by the programme guide; the automatic search for the next ensemble; flash records that are missing or malformed; what a preset holds; the learn dialogue of the infrared remote.

In the modelled parts: 32-bit wrap of ids, deadline arithmetic (a deadline is a flag), the
contents of metadata answers, the `RefreshPause` of the diagnostic port, the slideshow identities of
the component scan, the bytes of EPG packets and their tokens, the archive preview and the focus of the demo, and the diagnostic replay.

## 11. Plan

In order of importance:

1. done, with proofs of every safety property that is checked: `SwitchPolicy`, `DabSwitch`, `ServiceNesting`, `SwitchOutline`, `EpgPolicy`,
   `SpiProbe`, `EpgStore`, `DsrvDrain`, `MetadataQueue`, `ClockRefresh`, `UaScan`, `SlideCollector`, `DabScan`, `Settings`, `FmReceiver`,
   `FmScan`.
2. To prove next: `ListFollowsChange` of `MetadataQueue` as an invariant (a reconfiguration that was announced has a list due, asked for or an event to
   come), and of the outline that a probe beside `DabSwitch` is a behaviour of `SpiProbe`.
3. Wrap-around of the request ids as bounded arithmetic.

New modules join the run `parts` or `guide_races` when their state is disjoint from the others', so that each run
keeps asking a question of its own.
