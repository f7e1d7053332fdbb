SPECIFICATION Spec
SYMMETRY Symmetry
CONSTANTS
  w1 = w1
  w2 = w2
  s1 = s1
  s2 = s2
  Nobody = Nobody
  Workers <- TwoWorkers
  Seeders <- TwoSeeders
  Emails <- Stored
  Addresses <- Spellings
  Lower <- ToLower
  Catalogue <- Rows
  BaseCurrency = "ARS"
  DefaultCurrency <- CurrencyOf
  AdminEmail = "admin@"
  FreePlan = "FREE"
  OtherPlans = {"PRO"}
  MaxRequests = 4
  MaxDisturbances = 1
INVARIANTS
  RegistrationsWhole
  OneDefaultPlan
PROPERTIES
  LateVerificationsRefused
  SeedEstablishes
  SeedReportsTruth
CHECK_DEADLOCK FALSE
