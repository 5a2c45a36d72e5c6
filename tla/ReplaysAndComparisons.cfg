\* Two tools, traces of up to two calls, configurations of up to two handlers.
SPECIFICATION EvaluationSpec
CONSTANTS
  Tools = {search, reserve}
  Keys = {sku, qty}
  Scalars = {int1, float1, Null}
  ValueOf <- MCValueOf
  Null = Null
  Errors = {expired}
  Recorded <- MCRecorded
  MaxCalls = 2
  FixedResults = {float1}
  MaxEntries = 2
  None = None
  search = search
  reserve = reserve
  sku = sku
  qty = qty
  int1 = int1
  float1 = float1
  expired = expired
INVARIANTS
  ReplaysAgreeWithComparisons
  ComparisonsMirror
  ListedKeysChanged
