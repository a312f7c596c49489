\* Two triggers, two dialogs, two sockets and two operations, with an executor more than
\* operations can be stranded on; an address shorter than its storage, and one that fills it.
SPECIFICATION DialogSpec
CONSTANTS
  g1 = g1
  g2 = g2
  e1 = e1
  e2 = e2
  e3 = e3
  d1 = d1
  d2 = d2
  s1 = s1
  s2 = s2
  o1 = o1
  o2 = o2
  Nil = Nil
  Triggers = {g1, g2}
  Executors = {e1, e2, e3}
  Dialogs = {d1, d2}
  Sockets = {s1, s2}
  Ops = {o1, o2}
  Addresses <- SomeAddresses
  AddrSize = 2
SYMMETRY Symmetry
INVARIANTS DialogTypeOK NeverBlocks
PROPERTY BlamesFailuresOnly
