\* Requests on two events while the cron sends reminders, with one restart.
SPECIFICATION FairSpec
CONSTANTS
  Unused = Unused
  Deleted = Deleted
  Events = {e1, e2}
  Planned = {e1}
  LongTitled = {e2}
  Offsets = {1, 2}
  Starts = {2, 3}
  OffsetChoices = {{1, 2}}
  Requests = {r1, r2}
  Passes = {p1}
  Ops = {"create", "update", "cancel", "remove"}
  MaxNow = 3
  MaxCrashes = 1
INVARIANTS TypeOK RecordedOnlyWhenSent NoRepetition
PROPERTIES CancelledForGood RemindersGoOutUnlessRefused
