SPECIFICATION Spec
CONSTANTS
  Envelopes = {e1, e2}
  Objects = {o1, o2, o3, o4}
  Arenas = {a1}
  Members = {login, insert}
  heap = heap
  none = none
INVARIANTS MemberAlive OneOwner
