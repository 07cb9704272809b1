SPECIFICATION PingsFairSpec
CONSTANTS
  Cold = 1
  Warm = 2
  Chosen = {"in_progress", "responded", "qualified", "no_response", "not_interested", "bad_timing"}
  MaxEvents = 5
  MaxActs = 2
  MaxFaults = 1
INVARIANTS OnePingPerStep DecisionsKept
PROPERTIES PingsSettle
CONSTRAINT Few
