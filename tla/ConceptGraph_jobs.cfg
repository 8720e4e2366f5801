\* Two papers of one reader that name the same two concepts in different orders.
CONSTANTS
  None = None
  d1 = d1
  d2 = d2
  pa = pa
  pb = pb
  elbo = elbo
  bound = bound
  vae = vae
  flow = flow
  ELBO = ELBO
  VAE = VAE
  FLOW = FLOW
  Deliveries = {d1, d2}
  Papers = {pa, pb}
  PaperOf <- TwoPapers
  Candidates <- Analyses
  Spellings = {elbo, bound, vae, flow}
  Names = {ELBO, VAE, FLOW}
  Norm <- NormOf
  Close <- Neighbours
  Proposed = {"prerequisite_of", "invented"}
  MaxAttempts = 2
SPECIFICATION FairSpec
INVARIANTS
  TypeOK
  GraphIsSound
PROPERTIES
  UndisturbedJobLeavesItsPaper
  EveryDeliveryEnds
