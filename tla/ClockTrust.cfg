SPECIFICATION Spec
CONSTANTS
  Home = Home
  Elsewhere = Elsewhere
  U1 = U1
  U2 = U2
  P1 = P1
  P2 = P2
  Long = Long
  Networks = {Home, Elsewhere}
  NoNetwork = NoNetwork
  Types = {door, kiosk}
  NoType = NoType
  Users = {U1, U2}
  NoUser = NoUser
  Passes = {P1, P2, Long}
  NoPass = NoPass
  DeviceUser = U1
  TooLong = {Long}
  Kinds = {door}
  SketchType = door
  Creds <- MCCreds
  First <- MCFirst
  Entries <- MCEntries
  NoBlob = NoBlob
  Damaged = Damaged
  MaxTime = 2
  MaxResets = 1
  MaxFaults = 1
INVARIANTS TrustedMeansNtp
