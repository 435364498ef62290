SPECIFICATION Spec
CONSTANTS
  Workers = {w1, w2}
  Users = {u1, u2}
  Spots = {s1}
  Prices = {p1, p2}
  Keep = Keep
  MaxWrites = 3
  MaxBookings = 1
SYMMETRY Symmetry
INVARIANTS
  DeleteToldOnce
PROPERTIES
  OnlyOwnerOnlyLive
  MergeIsExact
  BookedOnOffer
  NotFoundIsTrue
