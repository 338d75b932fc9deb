SPECIFICATION Spec
CONSTANTS
  Processes = {child, p1}
  Child = child
  Daemons = {}
PROPERTIES
  ForceTerminatesTree
