CONSTANTS
  d1 = d1
  d2 = d2
  v1 = v1
  None = None
  Devices <- MCDevices
  Cases <- MCCases
  Versions <- MCVersions
  Kinds <- MCKinds

SPECIFICATION Spec

INVARIANT TypeOK
INVARIANT ManualAnswerOwnPrompt
PROPERTY FlashAndTestReturns
