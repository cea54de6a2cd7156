SPECIFICATION Spec
CONSTANTS
  Channels <- MCChannels
  LabelOf <- MCLabelOf
  Warning = "dc_warning"
  Elfutils = "dc_elfutils"
  Rcfile = "dc_rcfile"
  Threads <- MCThreads
  Main = "main"
  FatalChannels <- MCFatalChannels
  BeforeMain <- MCBeforeMain
  Late = {"late"}
  MinWidth = 3
  Alphabet <- MCAlphabet
  WarningLabel <- MCWarningLabel
  Configurations <- ManualConfigurations
  MainMode = "from_rcfile"
  ThreadModes = {"from_rcfile"}
  OffBefore <- MCOffBefore
  Toggled = {"foo"}
  Abbreviations <- MCAbbreviations
INVARIANT ConfiguredAsDocumented
CHECK_DEADLOCK FALSE
