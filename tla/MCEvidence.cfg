SPECIFICATION AllSpec
SYMMETRY Symmetric
CONSTANTS
  v1 = v1
  v2 = v2
  Contents = {v1, v2}
  CacheTtl = 1
  RequestBudget = 4
  MaxRetries = 1
  CircuitThreshold = 2
  MaxTicks = 2
  MaxFetches = 3
  MaxKills = 1
  NoFile = NoFile
  TornFile = TornFile
  page1 = page1
  page2 = page2
  page3 = page3
  page4 = page4
  page5 = page5
  injuries = injuries
  sheet1 = sheet1
  sheet2 = sheet2
  renamed = renamed
  garbled = garbled
  Pages = {page1, page2, page3, page4, page5}
  Listed = {page1, page2, page3, page5}
  Upcoming = {page1, page2, page5}
  Broken = {page4}
  Loose = {page5}
  Clashing <- PagesThatClash
  Endpoints = {injuries}
  Sheets = {sheet1, sheet2, renamed, garbled}
  Unparsable = {garbled}
  Naming <- NamesInSheets
  Nobody = Nobody
  MaxDays = 2
  MaxCanaries = 2
  MaxReplays = 2
  MaxKilled = 2
  Absent = Absent
  Half = Half
  Whole = Whole
  Sessions = {session1, session2}
  Books = {book1, book2}
  Boards <- FlatBoards
  Announcements = {confirmed, corrected}
  MaximumAge = 1
  PreliminaryAge = 2
  MinimumBookmakers = 2
  Deviation = 20
  Lookback = 1
  MaxTime = 2
  MaxMoves = 1
  g1 = g1
  g2 = g2
  g3 = g3
  g4 = g4
  Fixtures = {g1, g2, g3, g4}
  Sides <- LeagueSides
  Goals = {0, 1}
  Length = 1
  FormWindow = 1
  LastKickoff = 2
  NoScore = NoScore
INVARIANTS
  AllTypeOK
  FetchIsTrue
  HostIsSpared
  ArchiveIsReplayable
  StoreMatchesArchive
  VerdictsStand
  ReplayRepeats
CHECK_DEADLOCK FALSE
