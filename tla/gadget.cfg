SPECIFICATION FairSpec
CONSTANTS
  Devices = {{}, {"20980000.usb", "musb_hdrc"}}
  MaxStarts = 2
  TextMax = 3
  UIntSize = 16
INVARIANTS
  AnnouncedIsServed
  FirstSession
  StringInBounds
  ReaderIsChosen
PROPERTIES
  ComesBack
CHECK_DEADLOCK FALSE
