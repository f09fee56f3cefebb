\* A peer that frames an empty payload (spec scenario 6: valid framing) or
\* dies mid-frame: either makes recv_clt_message return false.
SPECIFICATION Spec
CONSTANTS
  Payloads <- MCPayloadsWithEmpty
  MaxMsgs = 2
  MaxRetries = 2
  PeerFaults <- MCFaultsCrash
  NoMsg = NoMsg
INVARIANT
  DispatchOnlyReceived
CHECK_DEADLOCK FALSE
