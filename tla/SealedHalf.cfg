SPECIFICATION Spec
CONSTANTS
  ana = ana
  bea = bea
  room = room
  photo = photo
  note = note
  Identity = {ana, bea}
  Call = {room, photo, note}
  To <- MCTo
  Pieces <- MCPieces
  Bytes = {room, photo}
  MaxKeys = 1
  MaxTroubles = 1
CHECK_DEADLOCK FALSE
INVARIANT NoHalfRoom
