SPECIFICATION FairSpec
CONSTANTS
  MaxActs = 3
  MaxActions = 2
  ReportRoom = 1
  MaxCrashes = 2
  MaxBreaks = 2
INVARIANT TypeOK
INVARIANT DeliveredInOrder
INVARIANT NvsHoldsJournal
INVARIANT NothingHeldWhileOnline
INVARIANT CrashReportedOnce
PROPERTY ImplementsLedger
PROPERTY SavedJournalIsTakenUp
PROPERTY SavedReachesCloudWhenQuiet
