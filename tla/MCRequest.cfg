SPECIFICATION Spec
CONSTANTS
  Word = 16
  NodesRequests <- MCNodesRequests
  Emoji <- MCEmoji
  Space = " "
  NoGroup = "NoGroup"
  ConfRequests <- MCConfRequests
  Files <- MCFiles
  Preferences <- MCPreferences
  maxAllowedRulesets = 2
  Setups <- MCSetups
CHECK_DEADLOCK FALSE
INVARIANTS
  GroupsTellLinksApart
  NodesAreWhole
  NamesStayReadable
  RulesAreKept
  ProvidersServe
  PrecedenceIsKept
  WholeOrNothing
  EntriesStandAlone
  EveryEntryIsReadOnce
  ArtifactsStandAlone
  ProfilesAreJoined
  AnswersAgree
  InfoIsOfOneLink
