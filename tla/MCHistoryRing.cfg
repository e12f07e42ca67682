CONSTANTS
  Size = 3
  Values = {a, b, c}
  Zero = Zero
SPECIFICATION Spec
INVARIANTS
  RingInv
  OrdersAgree
PROPERTIES
  ImplementsHistory
