SPECIFICATION FairSpec
CONSTANTS
  k1 = k1  k2 = k2  g1 = g1  g2 = g2  g3 = g3  c1 = c1  a = a  f = f
  NoKey = NoKey  NoGen = NoGen  NoContract = NoContract  Source = Source
  Keys = {k1, k2}
  Canvas = {k2}
  CanvasGen <- MCCanvasGen
  Contracts = {c1, a, f}
  Adjusts = {a}
  Finishes = {f}
  Offers <- MCOffers
  Gens = {g1, g2, g3}
  Handlers = {h1, h2}
INVARIANTS QueuedOnce QueuedAsAsked DraftFinishedOnce
PROPERTY CardIsNotStranded
CHECK_DEADLOCK FALSE
