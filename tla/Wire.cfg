\* An in buffer of eight bytes, so that messages come in pieces; an out buffer
\* in which the header of a message can have either size.
CONSTANTS
  InLen = 8
  OutLen = 140
  Word = 1073741824
  Messages <- MCMessages
  Outbound <- MCOutbound
  Infos <- MCInfos
  Garbage <- MCGarbage
  Ids = {258}
  StaleIds = {0, 50}
  Overlong = {0, 1073741823}
  Pieces = {1, 4, 7}
  MaxMessages = 2
SPECIFICATION Spec
INVARIANTS TypeOK CleanDelivery WithinBuffer UnacceptedIsStale OutboundDecodes
