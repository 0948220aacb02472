SPECIFICATION Spec
CONSTANTS
  Samples <- MCSamples
  Components <- MCComponents
  Targets = {t1, t2}
  FadeSteps = 3
  MaxSamples = 3
INVARIANTS TypeOK ShotIsOfOneSample OneShotPerPull 
 
