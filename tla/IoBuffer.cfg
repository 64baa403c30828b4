\* Every stream of five bytes, every way to cut it into chunks.
SPECIFICATION Spec
CONSTANTS
  Size = 4
  CR = CR
  LF = LF
  Text = {x}
  LongestReply = 3
  MaxBytes = 5
INVARIANTS
  TypeOK
  LinesInOrder
  DroppedOnlyWhenFull
  RepliesInOrder
PROPERTY
  ArrivedIsTaken
