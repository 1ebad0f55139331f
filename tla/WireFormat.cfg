SPECIFICATION Spec
CONSTANTS
  Fields <- MCFields
  Statuses <- MCStatuses
  Destination = 3
  Cookie = 250
  Code = 7
  MaxFields = 3
INVARIANTS TypeOK FieldsRoundTrip FrameHoldsOneMessage StatusArrivesInPart
CHECK_DEADLOCK FALSE
