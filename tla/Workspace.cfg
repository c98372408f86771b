CONSTANTS
  Opportunity = {o1, o2}
  Package = {k1}
  Client = {c1, c2}
  NoClient = none
  Decision = {"CONFIRMED", "CHANGES_REQUESTED"}
  Meetings <- MCMeetings
  MaxMishaps = 1
SPECIFICATION PagesSpec
INVARIANTS
  AcknowledgedIsShown
  BannerFollowsTheChoice
PROPERTY
  ButtonsComeBack
