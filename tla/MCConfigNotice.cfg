SPECIFICATION Safety
CONSTANTS
  r1 = r1
  r2 = r2
  all = all
  some = some
  s8n1 = s8n1
  s7e1 = s7e1
  invalid = invalid
  Requests = {r1, r2}
  Selections = {all, some}
  Settings = {s8n1, s7e1, invalid}
  ValidSettings = {s8n1, s7e1}
  Bodies <- SmallBodies
  DefaultPorts = all
  DefaultSettings = s8n1
  Absent = Absent
  Torn = Torn
  None = None
PROPERTIES SavedMeansInForce
