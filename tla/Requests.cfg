SPECIFICATION RequestsFairSpec
CONSTANTS
  Request = {"identify", "publish"}
INVARIANTS Bookkeeping NobodyWaitsAfterClose
PROPERTIES ImplementsAnswers EveryRequestSettles
