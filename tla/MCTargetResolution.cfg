SPECIFICATION Spec
CONSTANTS
  nohost = nohost
  h1 = h1
  r1 = r1
  r2 = r2
  env = env
  prod = prod
  test = test
  Marvins = {1, 2, 3}
  NoHost = nohost
  Hosts = {nohost, h1}
  Resources = {r1, r2}
  OfScope = {r1}
  LabelKeys = {env}
  Values = {prod, test}
  FirstLabels <- MCFirstLabels
  SessionSelectors <- MCSessionSelectors
  AskedSelectors <- MCAskedSelectors
  MaxTargets = 2
  MaxChanges = 2
INVARIANT ResolutionSound
