SPECIFICATION AlgorithmsSpec
CONSTANTS
  None = None
  DateDays <- DateDaysDef
  ClockDays <- ClockDaysDef
  MinuteMarks = {0, 1439}
  Topics = {"dates", "quirks", "gcode", "commands", "options", "addresses", "ams reports",
            "mapping", "drying", "device reports", "projects", "jobs", "ssdp", "io"}
INVARIANTS ReportsFaithful TraysAddressed MappingSound JobsFit SupportConsistent
  CommandsSafe SettingsReadBack PrinterFilesRead DevicesIdentified IoVerdictsSound
