SPECIFICATION ObsSpec
CONSTANTS
  Goroutines = {g1, g2}
  Statuses = {"accepted", "retrying", "failed"}
  Labels = {"ack_timeout", "ok"}
  Latencies <- MCLatencies
  Bounds <- MCBounds
  MaxKept = 2
  PageLimit = 2
  MaxActivities = 2
  MaxFetches = 2
  Pages = {"events"}
INVARIANTS
  ScrapeCoherent
PROPERTIES
  LiveShowsNewest
