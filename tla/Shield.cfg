SPECIFICATION FairSpec
CONSTANTS
  Words <- Vocabulary
  Core <- Bundled
  Customs <- Texts
  Requests <- Asked
  MaxPosts = 2
INVARIANTS
  TypeOK
  NeverAnOldList
  Precedence
  PlainLinesAgree
PROPERTIES
  OffMeansOpen
