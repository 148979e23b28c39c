SPECIFICATION Spec
CONSTANTS
  W = 3
  Base = 2
  Places = {"moscow", "paris", "europe"}
  Want = "RU"
  Databases <- MCDatabases
  IPv6 = IPv6
  Malformed = Malformed
  Garbled = Garbled
  Absent = Absent
  LateErrors = FALSE
INVARIANTS
  ListTypeOK
  SuccessIsComplete
  OldListSurvives
  DirectOnlyInCountry
  SourcesAgree
  NoPanic
