SPECIFICATION FairSpec
CONSTANTS
  Samples <- MCSamples
  Components <- MCComponents
  Targets = {t1}
  FadeSteps = 2
  MaxSamples = 3
PROPERTY GoneClientIsReported
