SPECIFICATION Spec
CONSTANTS
  t1 = t1
  t2 = t2
  none = none
  NoFile = none
  Terminal = {t1, t2}
  Origin <- MCOrigin
  Addr <- MCAddr
  ParseIP <- MCParseIP
  Whois <- MCWhois
  Owner <- MCOwner
  LowerOf <- MCLowerOf
  HexOf <- MCHexOf
  MeterKey <- MCMeterKey
  Setup <- MCSetup
  CollectorURL <- MCCollectorURL
  OwnAttributes <- MCNoAttributes
  UpdateEnv = {"SSH_CONNECTION"}
  MaxPanes = 1
SYMMETRY Symmetry
INVARIANT
  LocalIsLocal
