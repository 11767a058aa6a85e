SPECIFICATION Spec
CONSTANTS
  doc = doc
  here = here
  there = there
  apart = apart
  Docs <- OneDoc
  MaxText = 5
  MaxOpens = 2
  MaxVersion <- Versions
  Place <- Places
  Origin <- Origins
  Word <- Words
  ClientFails = TRUE
  Bare = FALSE
  None = None
  Nothing = Nothing
  Garbage = Garbage
ACTION_CONSTRAINT InFamily
INVARIANTS
  TypeOK
  RequestsFit
  FormatIsAnswered
PROPERTIES
  AnswersFit
  ServerFollows
  Closes
