\* Two requests of any kinds, uploads of up to three messages.
CONSTANTS
  a = a  b = b
  Requests = {a, b}
  Mixes <- Pairs
  MaxMsgs = 3
SPECIFICATION FairSpec
INVARIANTS
  AckIsComplete
  OnlyClientsOutlive
  AnsweredOnce
PROPERTIES
  OverCallEnds
CHECK_DEADLOCK FALSE
