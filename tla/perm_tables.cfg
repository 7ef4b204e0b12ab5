SPECIFICATION Spec
CONSTANTS
  i1 = i1
  i2 = i2
  n1 = n1
  n2 = n2
  q1 = q1
  q2 = q2
  p1 = p1
  p2 = p2
  p3 = p3
  p4 = p4
  Ips = {i1, i2}
  Ports = {q1, q2}
  Channels = {n1, n2}
  Perms = {p1, p2, p3}
  None = None
SYMMETRY Symmetry
INVARIANTS TypeOK TablesAgree OneChannelPerPeer
 
