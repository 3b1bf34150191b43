SPECIFICATION SettingsSpec
CONSTANTS
  Options = {"a", "b"}
  Defaults <- MCDefaults
  TuneAfterEdit = TRUE
  MaxSettingEvents = 2
CHECK_DEADLOCK FALSE
INVARIANT RunsAsKept
