\* One connection whose peer sends up to two framed messages (empty, one- or
\* two-byte payloads) and may close or die mid-frame; the receiver reads with
\* every split recv can produce.  The connection ends, so the model stops:
\* deadlock is not an error.
SPECIFICATION Spec
CONSTANTS
  Payloads <- MCPayloadsAll
  MaxMsgs = 2
  MaxRetries = 2
  PeerFaults <- MCFaultsCrash
  NoMsg = NoMsg
INVARIANTS
  TypeOK
  AcceptedInOrder
  LengthCodecCorrect
PROPERTY
  ReceiverReturns
CHECK_DEADLOCK FALSE
