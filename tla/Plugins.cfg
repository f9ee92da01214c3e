\* Two plugins opened and closed at once, with codecs in common or none.
SPECIFICATION FairSpec
CONSTANTS
  Plugins <- Two
  HostLists <- SomeHosts
  PluginLists <- SomePlugins
  Failures = TRUE
INVARIANTS TypeOK CodecsAgree FailedOpenLeavesNothing
PROPERTIES LoopSeesExit OpenReturns CloseReleases
CHECK_DEADLOCK FALSE
