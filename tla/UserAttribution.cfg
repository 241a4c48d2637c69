SPECIFICATION ArtifactsSpec
CONSTANTS
  Ids = {0, 1, 2, 3, 4, 5, 6, 7, 8, 9, 10}
  Root = 0
  NoKey = 99
  NoValue = NoValue
  NoNumber = NoNumber
  NoResolver = NoResolver
  NoTarget = NoTarget
  NoPath = NoPath
  NoName = NoName
  NoText = NoText
  Star = "*"
  MAX_GLOB_DEPTH = 3
  MAX_GLOB_MATCHES = 4
  Names <- MCNames
  ClassesNames = {"SID_CLASSES"}
  Texts <- MCTexts
  Blobs <- MCBlobs
  Letters <- MCLetters
  SetName <- MCSetName
  ControlSetName <- MCSetName
  Patterns <- MCPatterns
  DeepPatterns = {"**", "**5"}
  Placeholders = {"%%SID%%", "SOFTWARE/RUN"}
  HiveRoots = {"HKEY_CLASSES_ROOT"}
  CATALOG <- MCCatalog
  ConfigHives <- MCConfigHives
  ShimcacheSuffix <- MCShimcacheSuffix
  UserWritable = {"temp"}
  Interpreters = {"cmd"}
  SystemDirs = {"system32"}
  Marker10 = 100
  Marker00 = 101
  Win10HeaderLens = {3}
  WIN8_HEADER_SIG = 80
  HeaderSize = 4
  FlagsLen = 1
  Inputs = {}
  Machines = {}
  UserSets = {}
  Evidence <- HomeEvidence
  SystemHives = {}
  Caches = {}
INVARIANT AttributedToOwner
CHECK_DEADLOCK FALSE
