SPECIFICATION ReceiptsSpec
CONSTANTS
  Paid = {r1}
  MaxJobs = 1
INVARIANT GenuineReceiptVerifies
CHECK_DEADLOCK FALSE
