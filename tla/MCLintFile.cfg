CONSTANTS
  NamespaceLines = 2
  SmallClass = 3
  Files <- FilesSome
  Root <- RootSome
  Disk <- DiskSome
  NormalTrigger = 1
  TestTrigger = 2
  Verbosity = 0
SPECIFICATION Spec
INVARIANTS StackIsTheOpenBraces ChecksResume OrderIsJudged DuplicatesAreReported LongFunctionsAreTold MissingIsMissing OwnHeaderIsRead ClassesAreJudged
CHECK_DEADLOCK FALSE
