SPECIFICATION LiveSpec
CONSTANTS
  i1 = i1  i2 = i2  i3 = i3  i4 = i4
  q1 = q1  q2 = q2  q3 = q3  q4 = q4
  textA = textA  textB = textB  textC = textC
  Items <- MCItems
  KeyOf <- MCKeyOf
  Requests <- MCRequests
  TextAsked <- MCTextAsked
  MaxBatchSize = 2
  MaxInflightBatches = 1
  MaxQueue = 2
  MaxEntries = 1
INVARIANTS RecallTypeOK OwnVector OneFlightPerText
PROPERTIES RequestsAreAnswered
CHECK_DEADLOCK FALSE
