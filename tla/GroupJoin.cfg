SPECIFICATION FairSpec
CONSTANTS
  Users = {u1, u2}
  Moderators = {m1}
  Requests = {r1, r2}
  Sessions = {s1, s2}
  None = None
INVARIANTS NoStrandedApplicant OnePendingPerUser
PROPERTIES FiledOnlyWhenPrivate ReviewedIsFinal ApprovalAdmits HandlersFinish
CHECK_DEADLOCK FALSE
