SPECIFICATION FairSpec
CONSTANTS
  Person = {p1}
  Campaign = {c1}
  First = c1
  Acme = acme
  CompanyOf <- MCCompanyOf
  Enrolled <- MCEnrolled
  Steps = 2
  Delay <- MCDelay
  AwayDays = {1, 2}
  Env = {"crash", "lose", "refuse", "away", "replied"}
  MaxFaults = 2
  Nobody = Nobody
  NoCampaign = NoCampaign
CHECK_DEADLOCK FALSE
PROPERTIES ChainEnds RowsCatchUp
