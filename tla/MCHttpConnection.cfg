CONSTANTS
  MAX_HEADER_BYTES = 4
  MAX_BODY_BYTES = 2
  Letters = {"a", "b", "T", "{"}
  Exchanges <- MCExchanges
  Vocabulary <- MCVocabulary
SPECIFICATION Spec
INVARIANTS
  TypeOK
  HandledAsSent
  TextDecodedOnce
  StopSequenceCuts
  StreamWellFormed
  StreamAgrees
PROPERTIES
  ConnectionEnds
