CONSTANTS
  Producers = {p1, p2}
  Consumers = {c1, c2}
  Capacity = 2
SPECIFICATION FairSpec
INVARIANT TypeOK
PROPERTIES NotifiesEnough CloseEndsPops
