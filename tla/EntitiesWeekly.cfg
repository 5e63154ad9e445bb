\* Five appearances of four names, three of which the model may match
SPECIFICATION Spec
CONSTANTS
  Name <- MCName
  Tokens <- MCTokens
  Noise <- MCNoise
  Article <- MCArticle
  GroupToken <- MCGroupToken
  NearToken <- MCNearToken
  Prefix <- MCPrefix
  Unsuffixed <- MCUnsuffixed
  Precedence <- MCPrecedence
  PairId <- MCPairId
  Appearance <- MCAppearance
  NameOf <- MCNameOf
  PodcastOf <- MCPodcastOf
  Passing = {3}
  Rules <- MCRules
  MaxBlockSize = 3
  LimitPairs = 3
  MinScore = 2
  MaxScore = 3
INVARIANTS
  TypeOK
  AppearancesAreLinked
  KindsStayApart
PROPERTIES
  MatchesArePreserved
  MatchesMoveUp
