SPECIFICATION BinderSpec
CONSTANTS
  None = None
  Disks <- MCDisks
  Content <- MCContent
  Modules <- MCModules
  RootLists <- MCRootLists
  LimitChoices <- MCLimits
  HeaderBytes = 1024
  ProfileLists <- MCProfileLists
CHECK_DEADLOCK FALSE
INVARIANTS
  ExaminesInOrder
  UntruncatedIsComplete
  BindsAsProber
  MappedExactly
