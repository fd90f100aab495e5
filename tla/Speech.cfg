\* Three calls for two threads and two places, and one death of the service.
CONSTANTS
  c1 = c1
  c2 = c2
  c3 = c3
  Call = {c1, c2, c3}
  Workers = 2
  MaxWaiting = 2
  MaxDeaths = 1
SPECIFICATION Spec
INVARIANT PlacesAreCounted
PROPERTIES
  FullMeansFull
  PlacesAreGivenBack
CHECK_DEADLOCK FALSE
