SPECIFICATION Spec
CONSTANTS
  Requests = {r1, r2}
  Dialogs = {d1, d2, d3}
  NoRequest = NoRequest
  NoDialog = NoDialog
INVARIANTS TypeOK HandleIsAlive
PROPERTIES ImplementsChallenges DialogsVanish AnswerResumes
CHECK_DEADLOCK FALSE
