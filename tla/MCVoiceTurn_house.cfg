SPECIFICATION VoiceSpec
CONSTANTS
  u1 = u1
  u2 = u2
  Turns <- MCTurns
  Jobs <- MCTurns
  Sources <- MCSources
  Spoken <- MCSpoken
  MaxUpsets = 1
INVARIANTS CommandsSound AnswersTrue JobsSound
PROPERTIES EveryoneAnswered
