SPECIFICATION Spec
CONSTANTS
  Handlers = {h1, h2, h3, h4}
  MaxConnections = 10
  Half = 4
INVARIANTS SlotAccounting LimitHolds GaugeWithinSlots
PROPERTIES CountedOnce ImplementsPool
