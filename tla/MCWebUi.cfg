\* Two events, two connections, two replays; logs of up to four events.
CONSTANTS
  MaxEvents = 2
  MaxStreams = 2
  MaxReplays = 2
  Matching = {2}
  Calls <- MCCalls
  Micro = 3
  MaxLog = 4
  MaxTimes = 11
SPECIFICATION MCSpec
INVARIANTS TypeOK PageInOrder OneConnection PanelShowsSelection ReplayOutputFits TableIsCurrent AnalyticsAgree P95Cuts
PROPERTIES ComesBack
