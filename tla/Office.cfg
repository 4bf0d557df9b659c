\* The portal and the daily work of a society: six parts, each on its own.
SPECIFICATION OfficeSpec
CONSTANTS
  ana = ana
  bor = bor
  cene = cene
\* Portal: a member who leads and signs in with a code, an administrator of the platform; two tabs.
  Nobody = Nobody
  Members = {ana, bor}
  Leaders = {ana}
  Admins = {bor}
  TwoStep = {ana}
  Tabs = {t1, t2}
  MaxCalls = 2
  MaxSessions = 2
  MaxExpiries = 2
  MaxMoves = 1
\* Forms
  Pages = {"vehicle", "event", "equipment", "member", "organization"}
  Blank = Blank
  Texts = {"a"}
  FirstRows <- MCFirstRows
  Member = "a"
  MaxSaves = 1
  MaxNews = 1
\* Responses
  NoRow = NoRow
  Respondents = {ana, bor}
  Prompt = {ana}
  RsvpStatus = {attending, late}
  MaxTaps = 2
  MaxOutages = 1
\* Notices
  Recipients = {ana, bor}
  FirstGroups <- MCFirstGroups
  Groupings = {{"inactive"}}
  Aimed = {"leadership", "specific"}
  Muted = {bor}
  Devices = {d1, d2}
  NoDevice = NoDevice
  FcmBatch = 1
  ListLength = 1
  MaxNotices = 2
  MaxMemberNews = 3
\* Deadlines
  Societies = {"a", "b"}
  Things <- MCThings
  SocietyOf <- MCSocietyOf
  KindOf <- MCKindOf
  Held = {"mask"}
  FirstDue <- MCFirstDue
  Announced <- MCAnnounced
  NoDeadline = NoDeadline
  Removed = Removed
  Dates = {1, 2}
  LastDay = 1
  MaxEdits = 2
  MaxMishaps = 1
\* Membership
  People = {ana, bor, cene}
  Founder = ana
  Roles = {member, admin}
  Basic = member
  Admin = admin
  Emails = {e1, e2}
  FoundersEmail = e1
  NoEmail = NoEmail
  MaxRequests = 2
  MaxBreaks = 1
INVARIANTS OfficeTypeOK OwnSavesShown WaitersAreServed AnswersStand SentToAll NoDailyRepeat AllDueTold RolesAsSent
PROPERTIES OnlyTypedChanges TypingStays SignedOutStays LiveTokensKept
CHECK_DEADLOCK FALSE
