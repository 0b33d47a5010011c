\* Two publishers, subscriptions that come and go; the system stops when
\* every event is published.
SPECIFICATION BusSpec
CONSTANTS
  Publisher = {p1, p2}
  Sub = {s1, s2}
  Topic = {t1}
  MaxEvents = 2
INVARIANTS BusTypeOK Deliveries
PROPERTIES NoMissedDelivery
CHECK_DEADLOCK FALSE
