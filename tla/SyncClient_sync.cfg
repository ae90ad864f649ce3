\* The synchronous client and its background thread.  The application may stop making calls.
SPECIFICATION Spec
CONSTANTS
  Setups <- MCSetups
  MaxIds = 2
  MaxInflight = 1
INVARIANTS Served LossReported CompletionMeansAcked
PROPERTY CallsReturn
CHECK_DEADLOCK FALSE
