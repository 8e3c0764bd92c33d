CONSTANTS
  Capacity = 3
  Item <- MCItem
SPECIFICATION Spec
PROPERTY ImplementsFifo
