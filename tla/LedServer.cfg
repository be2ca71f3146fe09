SPECIFICATION Spec
CONSTANTS
  Cogs = {1, 2}
  Pins = {0, 56, 57}
  Delays = {0, 2, 3, 8}
  Scripts <- MCScripts
  Nobody = Nobody
PROPERTIES IsLedSettings BlinksAsTold
