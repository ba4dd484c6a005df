CONSTANTS
  u1 = u1
  u2 = u2
  p1 = p1
  p2 = p2
  top = top
  NoEntity = NoEntity
  NoParent = NoParent
  Idle = Idle
  Uri = {u1, u2}
  Path <- MCPath
  Slot = {field, child}
  Value = {x, y}
  MaxAdds = 3
  MaxValues = 2
SPECIFICATION Spec
INVARIANTS TypeOK LoadsAgree ListingsAgree
PROPERTIES MemoryImplementsStore DiskImplementsStore
