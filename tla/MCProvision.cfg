SPECIFICATION FairSpec
CONSTANTS
  Creates = {c1, c2, c3}
  Purges = {p1}
  Cnpjs = {k1}
  NoCnpj = NoCnpj
  Documents = {k1}
  Emails = {e1}
  Legacy = legacy
  LegacyCnpj = k1
  LegacyStaff = {e1}
  Nobody = Nobody
  MaxFaults = 2
  MaxTimeouts = 1
  MaxCrashes = 1
INVARIANTS
  TypeOK
  OneInside
  OneTenantPerCnpj
  TenantsAreWhole
PROPERTIES
  CompaniesLostOnlyToTheirOwn
  DoneMeansThere
  RequestsEnd
