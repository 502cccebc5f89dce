SPECIFICATION SamplerSpec
CONSTANTS
  VocabSize = 3
  Logits <- MCLogits
  Exp <- MCExp
  Temperatures = {0, 1}
  TopKs = {0, 2}
  TopPs = {0, 2, 3, 4}
  Penalties = {1, 2}
  MaxHistory = 2
INVARIANT NucleusReachesTopP
