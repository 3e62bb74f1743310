\* Liveness, so without symmetry: three users who pass one device around, so
\* that an UPDATE can have two rows to take.
CONSTANTS
  Requests = {r1, r2}
  Users = {u1, u2, u3}
  DeviceIds = {d1}
  Fids = {}
  NoRow = NoRow
  NoFid = NoFid
SPECIFICATION FairSpec
PROPERTY EverySaveEnds
