\* Two workers of one queue, three crashes or expired locks.
SPECIFICATION FairSpec
CONSTANTS
  Nobody = Nobody
  Stranger = Stranger
  Workers = {w1, w2}
  MaxFaults = 3
  MaxOpening = 2
PROPERTIES ElectionSettles
