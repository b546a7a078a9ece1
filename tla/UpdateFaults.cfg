\* Updates with every fault: what they keep safe and that they arrive.
CONSTANTS
  Branches = {main, dev}
  main = main
  dev = dev
  Main = main
  MaxRev = 1
  Needs <- TwoNeeds
  MaxDefers = 1
  Kinds = {"stream"}
  PortKnown = TRUE
  Faults = {"net", "checkout", "install", "spawn", "die"}
SPECIFICATION FairSpec
PROPERTIES OperatorWorkStays RestartIsSound AutoUpdateArrives
