SPECIFICATION LiveSpec
CONSTANTS
  Services = {s1, s2, s3}
  Exports = {e1, e2}
  Provided = {locked}
  Protected = {locked}
  NoKey = NoKey
CHECK_DEADLOCK FALSE
INVARIANTS
  TypeOK
  KeysFitUnlessShared
PROPERTY ExportEnds
