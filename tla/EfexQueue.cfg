SPECIFICATION QSpec
CONSTANTS
  MaxLens = {1, 2}
  SecPerPage = 2
  NSectors = 3
  Data = {d1}
INVARIANTS TypeOK Durable
PROPERTIES CallReturns
