\* Two parties, three lists of profiles, and SetEnabled between the steps.
CONSTANTS
  ProfileLists <- Lists
  Unknown = {"iLBC", "other"}
  PeerOffers <- Peers
  Toggled = {"opus", "G722", "telephone-event"}
  MaxSets = 2
CHECK_DEADLOCK FALSE
SPECIFICATION Spec
INVARIANTS ConfigsAgree AnswerWithinOffer
PROPERTY AnswersApply
