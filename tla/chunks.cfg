CONSTANTS
  r1 = r1
  r2 = r2
  s1 = s1
  s2 = s2
  s3 = s3
  s4 = s4
  s5 = s5
  NoSend = NoSend
  Runs = {r1, r2}
  CliSends = {s1}
  UiSends = {s2, s3}
  OtherSends = {s4, s5}
  SendTail <- Tails
  Plans <- EachReader
  MaxSequence = 2
  MaxTrouble = 1
SPECIFICATION FairChunkSpec
INVARIANTS
  ChunkTypeOK
  LoneRunNeverRefused
  OutputInOrder
  OnlyLateMissed
PROPERTIES
  ActivityIsShown
  AskedIsAnswered
CHECK_DEADLOCK FALSE
