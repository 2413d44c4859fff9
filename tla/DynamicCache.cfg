\* The counts of the code, two contents, a key of the configuration and one of a tag.
CONSTANTS
  Keys = {cfg, run}
  Config = {cfg}
  Values = {v1, v2}
  Nothing = Nothing
  MaxBackoff = 60
  Burst = 5
  Period = 12
SPECIFICATION DCFairSpec
INVARIANT TriesEveryPeriod
PROPERTIES FollowsRedis ConfigIsRepaired
