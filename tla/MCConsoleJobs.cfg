SPECIFICATION FairSpec
CONSTANTS
  j1 = j1
  j2 = j2
  s1 = s1
  NoJob = NoJob
  Jobs <- MCJobs
  Streams <- MCStreams
  MaxLines <- MCMaxLines
INVARIANTS
  TypeOK
  OneRunAtATime
  OneVerdict
  StreamsComplete
  NoLinkToFailure
PROPERTIES
  NobodyWaits
