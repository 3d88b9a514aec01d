\* One request at a time on each upload; any request may be cut short.
CONSTANTS
  u1 = u1  u2 = u2  u3 = u3
  a = a  b = b
  Uploads = {u1, u2, u3}
  Requests = {r1, r2}
  Paths = {a, b}
  HeadPaths = {b}
  None = None
  Torn = Torn
  Dest <- TwoToOnePath
  Size <- SomeSizes
  MaxSize = 2
  MaxFailures = 1
  Resends = FALSE
SPECIFICATION Spec
INVARIANTS TypeOK MirrorWhole DeliveredForGood
PROPERTY UploadIsAtomic
CHECK_DEADLOCK FALSE
