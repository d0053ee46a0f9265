SPECIFICATION OfferSpec
CONSTANTS
  OfferRows = {1, 2}
  OfferWindows = {1, 2, 3}
  Addresses = {a, b, c, d}
  MaxAddresses = 2
INVARIANT TiesStayUnmatched
CHECK_DEADLOCK FALSE
