CONSTANTS
  Builds = {b1, b2, b3, b4}
  CfgRunLimit = 2
  u1 = u1
  u2 = u2
  Calls = {u1, u2}
  Nicks = {1, 2}
  Passes = {1, 2}
  Times = {1, 2}
  MaxCleanups = 1
  Keys = {k1}
  MaxReqs = 2
  Window = 3
  MaxNow = 7
  Admin = adm
  Owner = own
  Author = author
  Others = {x}
  First = o1
  Seconds = {o2}
  VarNames = {v1, v2}
  MaxGiven = 2
  Granted = {"adm", "rw"}
  Requests = {q1, q2}
  Aids = {1, 2}
  my = my
  lite = lite
  i1 = i1
  i2 = i2
  Sources = {my, lite}
  DriverOf <- Drivers
  Installers = {i1, i2}
  NoSource = NoSource
  MaxProcesses = 3
SPECIFICATION MenuSpec
PROPERTIES
  ConfiguredIsRead
CHECK_DEADLOCK FALSE
