\* Requests of both platforms, whole, cut, longer or with one byte changed.
CONSTANTS
  Platforms = {"linux", "darwin"}
  Idents = {0, 258, 65535}
  Payloads <- SomePayloads
  Patches = {0, 6, 30, 96, 128, 255}
SPECIFICATION Spec
CHECK_DEADLOCK FALSE
INVARIANTS
  ChecksumVerifies
  ReplyAnswers
  AnswersWhole
