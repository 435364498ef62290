SPECIFICATION ServiceSpec
CONSTANTS
  Scripts <- MCScripts
  RequestTimeout = 2
  IdleTimeout = 3
  ReadTimeout = 2
  MaxHeader = 8
  MaxBody = 16
  MaxChunkLine = 1
  MaxDepth = 1
  Infinity = Infinity
  NewIds = {"new"}
  MachinesFor <- MCMachinesFor
  Users = {"u", "v"}
  Email <- MCEmail
  Customer <- MCCustomer
  Now = 5
  MaxSafe = 9
  Tolerance = 2
  TokenLife = 2
  Letters <- MCLetters
  MaxEmail = 10
  MaxTld = 3
  Files <- MCFiles
  Wide = 10
  MaxBooking = 3
  MaxPrice = 3
  InitDb <- MCDb
  CsrfFor <- MCCsrfFor
INVARIANTS
  RequestsIntact
  AnswersInStep
  HeldBriefly
  RowsSound
PROPERTIES
  WritesEarned
CHECK_DEADLOCK FALSE
