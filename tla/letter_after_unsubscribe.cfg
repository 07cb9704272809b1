SPECIFICATION Spec
CONSTANTS
  Person = {p1, p2}
  Campaign = {c1}
  First = c1
  Acme = acme
  CompanyOf <- MCCompanyOf
  Enrolled <- MCEnrolled
  Steps = 2
  Delay <- MCDelay
  AwayDays = {1}
  Env = {"unsubscribed"}
  MaxFaults = 0
  Nobody = Nobody
  NoCampaign = NoCampaign
CHECK_DEADLOCK FALSE
INVARIANT NothingAfterUnsubscribe
