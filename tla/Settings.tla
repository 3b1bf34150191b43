------------------------------ MODULE Settings -------------------------------
(***************************************************************************)
(* The settings of src/SI4684-DAB-Receiver.ino: the menu (EditSetting,     *)
(* ExitSettingsMenu), the change between DAB and FM (SwitchRadioMode), the *)
(* image of the flash records with its dirty flags                         *)
(* (src/src/nvs_storage.cpp), the delayed commit, standby, restarts,       *)
(* factory defaults, and what of the settings the driver and the station   *)
(* list have taken over, across refused writes, a tuner that does not      *)
(* start and power losses.                                                 *)
(*                                                                         *)
(* "af" stands for the eight settings that the menu changes at once, of    *)
(* which the driver has a copy of FM seek and FM AF; "memory" for all that *)
(* is stored outside the menu (presets, the station, the tune mode, the    *)
(* learned keys).  Every record is present and valid.  What a setting      *)
(* implies for the frequency is left out.  A step is a whole handler; a    *)
(* power loss in the middle of one leaves some of the records it writes.   *)
(*                                                                         *)
(* ForgetToMark, RefusedIsOver, RegionInFm and SleepAnyway are faulty      *)
(* variants of the operator that follows them.                             *)
(***************************************************************************)
EXTENDS Naturals

CONSTANTS
  Options,           \* the values of a setting, the radio mode excepted
  Defaults,          \* DefaultSettings
  TuneAfterEdit,     \* may a serial command tune while the menu is open, and has changed something?
  MaxSettingEvents   \* bound: edits, refused writes, failed starts, restarts

Modes == {"DAB", "FM"}
Keys == {"af", "region", "mode", "gpio", "i2s", "memory"}
Contents ==
  {c \in [Keys -> Options \cup Modes] : c.mode \in Modes /\ \A k \in Keys \ {"mode"} : c[k] \in Options}

ASSUME SettingsAssumption ==
  Defaults \in Contents /\ TuneAfterEdit \in BOOLEAN /\ MaxSettingEvents \in Nat

\* The NVS key a setting belongs to; "memory" stands for three.
NvsKeys == {"settings", "i2s_audio", "presets"}
RecordOf(k) == IF k = "i2s" THEN "i2s_audio" ELSE IF k = "memory" THEN "presets" ELSE "settings"

VARIABLES
  nv,            \* flash, the image, the dirty flags of Storage; eepromDirty
  settings,      \* the variables of the program
  menu,          \* requestedRadioMode ... and settingsOriginal, while the menu is open
  driver,        \* activeFmRegion, the I2S mode and the FM seek and AF settings of the driver
  application,   \* the tuner image that runs, "None" after a begin() that failed
  listRegion,    \* the region FmStations was loaded for
  power,
  cut,           \* since the start the exit of the menu, the defaults or a begin() failed
  settingEvents  \* bound: events so far

settingsVars == <<nv, settings, menu, driver, application, listRegion, power, cut, settingEvents>>

Storage == [flash : Contents, image : Contents, dirty : SUBSET NvsKeys, due : BOOLEAN]
Closed == [open |-> FALSE, asked |-> Defaults, before |-> Defaults.af]

SettingsTypeOK ==
  /\ nv \in Storage /\ settings \in Contents
  /\ menu \in [open : BOOLEAN, asked : Contents, before : Options]
  /\ driver \in [af : Options, region : Options, i2s : Options]
  /\ application \in Modes \cup {"None"} /\ listRegion \in Options
  /\ power \in {"On", "Asleep", "Halted"} /\ cut \in BOOLEAN
  /\ settingEvents \in 0..MaxSettingEvents

-----------------------------------------------------------------------------
(* The flash and its image. *)

\* Storage.writeByte, put and setI2sAudioMode, for the keys whose value changes
Put(s, new) ==
  [s EXCEPT !.image = new,
            !.dirty = @ \cup {RecordOf(k) : k \in {j \in Keys : s.image[j] # new[j]}}]

\* What is written waits until something else is saved.
ForgetToMark(s) == s

\* MarkEepromDirty
Mark(s) == [s EXCEPT !.due = TRUE]

\* The flash when these records have been written
FlashWith(s, records) ==
  [k \in Keys |-> IF RecordOf(k) \in records THEN s.image[k] ELSE s.flash[k]]

\* NvsStorage::commit
Commit(s) == [s EXCEPT !.flash = FlashWith(s, s.dirty), !.dirty = {}, !.due = FALSE]

\* CommitEepromNow: the flag is cleared before the commit.
RefusedIsOver(s, records) == [s EXCEPT !.flash = FlashWith(s, records), !.due = FALSE]

\* At least one dirty record is refused, and all stay dirty.
Refused(s, records) == [s EXCEPT !.flash = FlashWith(s, records), !.due = TRUE]

\* FlushEeprom
Flushed(s) == IF s.due THEN Commit(s) ELSE s
RefusedCommit(s) == {Refused(s, records) : records \in (SUBSET s.dirty) \ {s.dirty}}
RefusedFlush(s) == IF s.due THEN RefusedCommit(s) ELSE {}

-----------------------------------------------------------------------------
(* Starting. *)

SettingEvent == settingEvents < MaxSettingEvents /\ settingEvents' = settingEvents + 1
Meets(works) == IF works THEN UNCHANGED settingEvents ELSE SettingEvent

InDriver(c) == [af |-> c.af, region |-> c.region, i2s |-> c.i2s]
Fresh(contents) == [flash |-> contents, image |-> contents, dirty |-> {}, due |-> FALSE]

\* setup(): a tuner that does not start halts the program.
Running(contents, works) ==
  /\ settings' = contents /\ menu' = Closed
  /\ driver' = InDriver(contents) /\ listRegion' = contents.region
  /\ application' = IF works THEN contents.mode ELSE "None"
  /\ power' = IF works THEN "On" ELSE "Halted"

Started(contents, works) == nv' = Fresh(contents) /\ Running(contents, works) /\ cut' = FALSE

SettingsInit ==
  /\ settings \in Contents /\ nv = Fresh(settings) /\ menu = Closed
  /\ driver = InDriver(settings) /\ listRegion = settings.region
  /\ application = settings.mode /\ power = "On" /\ cut = FALSE
  /\ settingEvents = 0

\* The power fails, perhaps in a commit, and comes back.
PowerFails ==
  /\ SettingEvent
  /\ \E records \in SUBSET nv.dirty, works \in BOOLEAN : Started(FlashWith(nv, records), works)

\* DefaultSettings, asked for by two keys at the start: saved, and started again
StartWithDefaults == SettingEvent /\ \E works \in BOOLEAN : Started(Defaults, works)

\* The defaults, or the removal of a scan, are refused: it goes on with what it had loaded.
DefaultsRefused ==
  LET reset == Put(Fresh(nv.flash), Defaults)
  IN /\ SettingEvent
     /\ nv' \in {Commit(reset)} \cup RefusedCommit(reset)
     /\ \E works \in BOOLEAN : Running(nv.flash, works)
     /\ cut' = TRUE

-----------------------------------------------------------------------------
(* The radio mode. *)

\* SwitchRadioMode, from the settings c and the image s; begin() may fail.
SwitchRadioMode(s, c, mode, works) ==
  /\ application' = IF works THEN mode ELSE "None"
  /\ settings' = IF works THEN [c EXCEPT !.mode = mode] ELSE c
  /\ nv' = IF works /\ mode # c.mode THEN Mark(Put(s, [s.image EXCEPT !.mode = mode])) ELSE s
  /\ cut' = (cut \/ ~works)
  /\ Meets(works)

\* RemoteModeLongAction
SwitchByRemote ==
  /\ power = "On" /\ ~menu.open
  /\ \E mode \in Modes \ {settings.mode}, works \in BOOLEAN :
       SwitchRadioMode(nv, settings, mode, works)
  /\ UNCHANGED <<menu, driver, listRegion, power>>

\* doRecovery, after the transport has stalled
Recover ==
  /\ power = "On" /\ settings.mode = "DAB" /\ application = "DAB"
  /\ \E works \in BOOLEAN : SwitchRadioMode(nv, settings, "DAB", works)
  /\ UNCHANGED <<menu, driver, listRegion, power>>

-----------------------------------------------------------------------------
(* The menu. *)

\* CaptureSettingsSnapshot
OpenMenu ==
  /\ power = "On" /\ ~menu.open
  /\ menu' = [open |-> TRUE, asked |-> settings, before |-> settings.af]
  /\ UNCHANGED <<nv, settings, driver, application, listRegion, power, cut, settingEvents>>

\* Region, mode, GPIO12 and I2S are asked for, the others change at once.
EditSetting ==
  /\ power = "On" /\ menu.open /\ SettingEvent
  /\ \/ /\ settings' \in {[settings EXCEPT !.af = v] : v \in Options}
        /\ UNCHANGED menu
     \/ /\ menu' \in {[menu EXCEPT !.asked[k] = v] : k \in {"region", "gpio", "i2s"}, v \in Options}
                     \cup {[menu EXCEPT !.asked.mode = v] : v \in Modes}
        /\ UNCHANGED settings
  /\ UNCHANGED <<nv, driver, application, listRegion, power, cut>>

Entered == [settings EXCEPT !.af = menu.before]
Asked == [menu.asked EXCEPT !.af = settings.af, !.memory = settings.memory]
Changed(k) == Asked[k] # Entered[k]

\* What ExitSettingsMenu writes into the image
AfterWrites ==
  IF Asked = Entered THEN nv
  ELSE Mark(Put(nv, [k \in Keys |-> IF Changed(k) THEN Asked[k] ELSE nv.image[k]]))

\* The I2S mode or GPIO12 cannot be saved: "NVS ERROR", and the rest is not carried out.
ExitCutShort ==
  /\ power = "On" /\ menu.open /\ SettingEvent
  /\ Changed("i2s") \/ Changed("gpio")
  /\ nv' \in RefusedFlush(AfterWrites)
  /\ settings' = [settings EXCEPT !.region = Asked.region]
  /\ menu' = Closed /\ cut' = TRUE
  /\ UNCHANGED <<driver, application, listRegion, power>>

\* GPIO12 has changed.
ExitRestarts ==
  /\ power = "On" /\ menu.open /\ Changed("gpio")
  /\ \E works \in BOOLEAN : Started(Flushed(AfterWrites).flash, works) /\ Meets(works)

\* The region is for the tuner only while it receives FM.
RegionInFm == Changed("region") /\ settings.mode = "FM" /\ Asked.mode = "FM"

RegionForDriver == Changed("region")

ExitSettingsMenu ==
  /\ power = "On" /\ menu.open /\ ~Changed("gpio")
  /\ LET saved == IF Changed("i2s") THEN Flushed(AfterWrites) ELSE AfterWrites
         taken == [settings EXCEPT !.region = Asked.region, !.i2s = Asked.i2s]
     IN IF Asked.mode # settings.mode \/ Changed("i2s")
        THEN \E works \in BOOLEAN : SwitchRadioMode(saved, taken, Asked.mode, works)
        ELSE nv' = saved /\ settings' = taken /\ UNCHANGED <<application, cut, settingEvents>>
  /\ driver' = [af |-> IF Changed("af") THEN settings.af ELSE driver.af,
                region |-> IF RegionForDriver THEN Asked.region ELSE driver.region,
                i2s |-> IF Changed("i2s") THEN Asked.i2s ELSE driver.i2s]
  /\ listRegion' = IF Changed("region") THEN Asked.region ELSE listRegion
  /\ menu' = Closed
  /\ UNCHANGED power

\* T of the serial protocol closes the menu and leaves the settings as they are.
TuneBySerial ==
  /\ power = "On" /\ menu.open /\ application = "DAB"
  /\ settings.af # menu.before => TuneAfterEdit
  /\ menu' = Closed
  /\ UNCHANGED <<nv, settings, driver, application, listRegion, power, cut, settingEvents>>

-----------------------------------------------------------------------------
(* Storing and sleeping. *)

WithMemory(v) == Mark(Put(nv, [nv.image EXCEPT !.memory = v]))
Remember(v) == settings' = [settings EXCEPT !.memory = v]

\* A preset, a station, the volume or the tune mode
StoreMemory ==
  /\ power = "On" /\ SettingEvent
  /\ \E v \in Options : nv' = WithMemory(v) /\ Remember(v)
  /\ UNCHANGED <<menu, driver, application, listRegion, power, cut>>

\* saveProfile and clearProfile
LearnKeys ==
  /\ power = "On" /\ menu.open /\ SettingEvent
  /\ \E v \in Options \ {settings.memory} :
       nv' \in {Flushed(WithMemory(v))} \cup RefusedFlush(WithMemory(v)) /\ Remember(v)
  /\ UNCHANGED <<menu, driver, application, listRegion, power, cut>>

\* Three seconds after the last MarkEepromDirty
CommitWhenDue ==
  /\ power = "On" /\ nv.due
  /\ \/ nv' = Flushed(nv) /\ UNCHANGED settingEvents
     \/ nv' \in RefusedFlush(nv) /\ SettingEvent
  /\ UNCHANGED <<settings, menu, driver, application, listRegion, power, cut>>

\* It sleeps although the commit failed.
SleepAnyway == power' = "Asleep"

AfterRefusal == UNCHANGED power

\* doStandby, and deepSleep, which stores the station before
Sleep ==
  /\ power = "On"
  /\ \E v \in Options :
       LET s == IF nv.image.memory = v THEN nv ELSE WithMemory(v)
       IN /\ s # nv => Remember(v)
          /\ s = nv => UNCHANGED settings
          /\ \/ nv' = Flushed(s) /\ power' = "Asleep" /\ UNCHANGED settingEvents
             \/ nv' \in RefusedFlush(s) /\ AfterRefusal /\ SettingEvent
  /\ UNCHANGED <<menu, driver, application, listRegion, cut>>

Wake ==
  /\ power = "Asleep" /\ power' = "On"
  /\ UNCHANGED <<nv, settings, menu, driver, application, listRegion, cut, settingEvents>>

SettingsNext ==
  \/ PowerFails \/ StartWithDefaults \/ DefaultsRefused
  \/ SwitchByRemote \/ Recover
  \/ OpenMenu \/ EditSetting \/ ExitCutShort \/ ExitRestarts \/ ExitSettingsMenu \/ TuneBySerial
  \/ StoreMemory \/ LearnKeys \/ CommitWhenDue \/ Sleep \/ Wake

SettingsSpec == SettingsInit /\ [][SettingsNext]_settingsVars

\* The loop comes round to the commit.
SettingsFairSpec == SettingsSpec /\ WF_settingsVars(CommitWhenDue)

-----------------------------------------------------------------------------
(* Properties. *)

\* Outside the menu the program, the image, the driver, the list and the tuner agree on every
\* setting: "Settings are edited in RAM and committed when leaving Settings" (src/README.md:639).
\* Not after an exit that was cut short, refused defaults or a begin() that failed, until the
\* next start.
RunsAsKept ==
  power = "On" /\ ~menu.open /\ ~cut =>
    /\ settings = nv.image
    /\ driver = InDriver(settings)
    /\ listRegion = settings.region /\ application = settings.mode

\* It never sleeps on unsaved settings (CommitEepromNow: "Critical callers (restart/standby/IR
\* learn) also receive the failure immediately"), and saves them in the end, unless it halts.
SettingsStored ==
  /\ [](power = "Asleep" => nv.flash = nv.image)
  /\ []<>(nv.flash = nv.image \/ power = "Halted")
=============================================================================
