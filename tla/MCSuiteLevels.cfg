SPECIFICATION FairSuiteSpec
CONSTANTS
  Names <- MCNames
  DepLists <- MCDepLists
INVARIANTS
  SuiteTypeOK
  LevelsOrdered
  LevelsAreDepths
  VerdictIsRight
PROPERTIES
  LevelsComesBack
