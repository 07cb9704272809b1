SPECIFICATION Spec
CONSTANTS
  Person = {p1, p2}
  Campaign = {c1, c2}
  First = c1
  Acme = acme
  CompanyOf <- MCCompanyOf
  Enrolled <- MCOneEnrolled
  Steps = 2
  Delay <- MCDelay
  AwayDays = {1}
  Env = {"crash", "lose", "refuse", "resume", "halt", "away", "unfit", "bounced",
         "enroll", "replied", "pause", "finish", "remove", "unsubscribed", "limits", "erase"}
  MaxFaults = 2
  Nobody = Nobody
  NoCampaign = NoCampaign
CHECK_DEADLOCK FALSE
CONSTRAINT OneStory
ACTION_CONSTRAINT StoryGoesOn
INVARIANTS AtMostOnce InTurn AtMostOneAfterStop OneCampaignEach
PROPERTIES AtMostOneAfterWord ForgottenStaysForgotten
