\* Two users who pass two devices and one push token to and fro.
CONSTANTS
  r1 = r1
  r2 = r2
  u1 = u1
  u2 = u2
  d1 = d1
  d2 = d2
  f1 = f1
  Requests <- MCRequests
  Users <- MCUsers
  DeviceIds <- MCDeviceIds
  Fids <- MCFids
  NoRow = NoRow
  NoFid = NoFid
SYMMETRY Symmetry
SPECIFICATION Spec
INVARIANTS
  TypeOK
  ActiveIsExclusive
