CONSTANTS
  q1 = q1
  q2 = q2
  c1 = c1
  c2 = c2
  directory = directory
  names = names
  Questions <- TwoQuestions
  Callers <- TwoCallers
  Names <- TwoNames
  Pinned <- OnePinned
  LastPointer = 3
  LastActive = 2
SPECIFICATION MCFairSpec
PROPERTY LoadsEnd
INVARIANT ServesFromNextQuestion
INVARIANT MixedIsNeverCurrent
INVARIANT NoSecondBuild
INVARIANT OwnIndex
PROPERTY MessageRead
PROPERTY EvidenceSound
PROPERTY PublishedSound
PROPERTY NamesSound
PROPERTY PacketSound
PROPERTY CalendarSound
PROPERTY TimesSound
PROPERTY AnswerSound
CHECK_DEADLOCK FALSE
