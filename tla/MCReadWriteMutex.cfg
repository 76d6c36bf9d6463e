CONSTANTS
  Threads = {t1, t2, t3}
  CasReturnsSuccess = FALSE
SPECIFICATION FairSpec
INVARIANTS
  TypeOK
  MutualExclusion
  WordsExact
PROPERTIES
  WriterPreference
  ImplementsReadersWriters
  SomeWriterEnters
  AnnouncedReaderEnters
  ReaderEntersAfterWriters
