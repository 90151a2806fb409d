SPECIFICATION QueueSpec
CONSTANTS
  Depth = 3
  EnqWidth = 2
  DeqWidth = 2
  Value = {0, 1}
  Default = 0
PROPERTIES ImplementsGuide
