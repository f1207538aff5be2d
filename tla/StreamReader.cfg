\* Every stream of up to 7 bits and of up to 7 characters of JSON, cut in
\* every way: frames of 1 and 2 bytes, archives of 0 to 3.
SPECIFICATION Spec
CONSTANTS
  MaxStream = 7
  MaxText = 7
  MaxFrame = 2
  MaxArchive = 3
INVARIANTS
  TypeOK
  ChunksDoNotShow
  AnswersPromptly
