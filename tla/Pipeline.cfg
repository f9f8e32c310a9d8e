SPECIFICATION PipelineSpec
CONSTANTS
  Width = 3
  Height = 2
  Saturated = 40
  Masks <- MCMasks
  Sensors <- MCSensors
  Levels = {15, 20}
  Drifts = {0, 3}
  Gain = 2
  Pad = 10
  Noise <- MCNoise
  Vignettes <- MCVignettes
  Unset = Unset
INVARIANTS InPlaceIsAtOnce FilledFromValid UniformSceneIsUniform
