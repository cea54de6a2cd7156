SPECIFICATION Spec
CONSTANTS
  Channels <- MCChannels
  LabelOf <- MCLabelOf
  Warning = "dc_warning"
  Elfutils = "dc_elfutils"
  Rcfile = "dc_rcfile"
  Threads <- MCThreads
  Main = "main"
  FatalChannels <- MCFatalChannels
  BeforeMain <- MCBeforeMain
  Late = {"late"}
  MinWidth = 3
  Alphabet <- MCAlphabet
  WarningLabel <- MCWarningLabel
  Configurations <- MCConfigurations
  MainMode = "from_rcfile"
  ThreadModes = {"from_rcfile", "copy_from_main", "debug_off"}
  OffBefore <- MCOffBefore
  Toggled = {"foo"}
  Abbreviations <- MCAbbreviations
INVARIANT TypeOK
INVARIANT FindsLargest
INVARIANT NoCoreDump
INVARIANT ConfiguredAsWritten
INVARIANT StartsAsConfigured
INVARIANT CopiesMain
CHECK_DEADLOCK FALSE
