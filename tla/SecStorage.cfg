SPECIFICATION Spec
CONSTANTS
  Names = {a, b, c}
  Values = {v1, v2}
  MaxKeys = 2
  Mode = "product"
  Ops = {"erase", "erase_all"}
  MaxFaults = 1
INVARIANTS TypeOK KeysAsWritten KeysSurvive NoForeignKey
SYMMETRY Symmetry
