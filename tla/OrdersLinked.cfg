CONSTANTS
  o1 = o1  o2 = o2
  Order = {o1, o2}
  Renewal = {o2}
  Linked = {o2}
  Timed = {o1, o2}
  Price <- MCPrice
  Tolerance = 1
  Cents <- MCCents
  Sepay = {s1}
  Crypto = {x1}
  Paypal = {q1}
  Click = {}
  Payer = {p1, p2}
  Clerk = {c1}
  Nobody = Nobody
  MaxTicket = 2
  MaxFault = 0
SPECIFICATION Spec
INVARIANT IssuedIsLinked
CHECK_DEADLOCK FALSE
