SPECIFICATION FairSpec
CONSTANTS
  d1 = d1
  d2 = d2
  Delivery = {d1, d2}
  Webhook = {d1}
  Edited = {d2}
  MaxRetry <- MCMaxRetry
  Schedule <- MCSchedule
  HandleMax = 1
  MaxFaults = 1
  MaxCrashes = 1
INVARIANT DeliverySound
PROPERTY DeliverySettles
