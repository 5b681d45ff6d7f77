\* Three uploads of two uploaders and an exempt one, room for two.
SPECIFICATION LimiterSpec
CONSTANTS
  u1 = u1
  u2 = u2
  u3 = u3
  u4 = u4
  a = a
  b = b
  Uploads = {u1, u2, u3, u4}
  Exempt = {u4}
  By <- Uploader
  Size <- SizeOf
  Least = 1
  FilesPerHour = 1
  BytesPerDay = 2
  Quota = 2
  Day = 2
  TTL = 1
INVARIANTS LimitsOK
PROPERTIES RoomReturns
