\* A peer that may stop mid-frame without closing: recv times out with -1.
SPECIFICATION SpecWithStall
CONSTANTS
  Payloads <- MCPayloads
  MaxMsgs = 2
  MaxRetries = 2
  PeerFaults <- MCFaultsStall
  NoMsg = NoMsg
PROPERTY
  ReceiverReturns
CHECK_DEADLOCK FALSE
