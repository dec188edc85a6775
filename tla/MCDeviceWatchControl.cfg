SPECIFICATION FairSpec
CONSTANTS
  s1 = s1
  s2 = s2
  n1 = n1
  n2 = n2
  None = None
  Scopes = {s1, s2}
  Networks = {n1, n2}
  BindingOf <- Elsewhere
INVARIANTS IntentHolds AppliedDisableHolds VerifiedIsCurrentIntent
PROPERTIES StopsAreNoticed
