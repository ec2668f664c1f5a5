SPECIFICATION FairSpec
CONSTANTS
  Contacts = {c1}
  None = None
  Requests = {r1}
  Executors = {e1}
  BatchSize = 1
  ProviderRegistered = TRUE
  Schedules = {"none", "future"}
  MaxFaults = 0
PROPERTY
  DueCampaignStarts
