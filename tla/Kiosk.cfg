\* Two policies, two changes, two events: menus, commands, restarts.
SPECIFICATION Spec
CONSTANTS
  s1 = s1
  s2 = s2
  c1 = c1
  c2 = c2
  a1 = a1
  Launcher = Launcher
  None = None
  Snapshot = {s1, s2}
  Rev <- Revs
  Policy <- Policies
  Passcode = {c1, c2}
  MaxPublishes = 2
  MaxEvents = 2
PROPERTY KioskSettles
CHECK_DEADLOCK FALSE
