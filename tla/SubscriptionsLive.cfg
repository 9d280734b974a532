\* Slots and synchronizations with clients that are late, too long or incomplete.
SPECIFICATION FairSpec
CONSTANTS
  Clients = {c1, c2}
  NoOne = NoOne
  MaxSubscriptions = 1
  Durations = {1}
  MaxTime = 4
  Requests = {"subscribe", "renew", "unsubscribe", "sync"}
  Deviations = {"late", "no_message_id", "long_address"}
PROPERTIES
  SlotsComeBack
  SyncIsServed
CHECK_DEADLOCK FALSE
