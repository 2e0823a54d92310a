CONSTANTS
  m1 = m1
  m2 = m2
  m3 = m3
  m4 = m4
  m5 = m5
  t1 = t1
  t2 = t2
  Models = {m1, m2, m3, m4, m5}
  Admins = {t1, t2}
  NoModel = NoModel
SPECIFICATION RegistrySpec
INVARIANTS
  AtLeastOneEnabled
