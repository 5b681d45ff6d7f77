\* Two presigns of one uploader on both sides of an hour.
SPECIFICATION LimiterSpec
CONSTANTS
  u1 = u1
  u2 = u2
  u3 = u3
  u4 = u4
  a = a
  b = b
  Uploads = {u1, u2}
  Exempt = {}
  By <- Uploader
  Size <- SizeOf
  Least = 1
  FilesPerHour = 1
  BytesPerDay = 2
  Quota = 3
  Day = 2
  TTL = 1
INVARIANTS DayHolds
