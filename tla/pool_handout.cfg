SPECIFICATION Spec
CONSTANTS
  s1 = s1
  s2 = s2
  c1 = c1
  c2 = c2
  r0 = r0
  r1 = r1
  img1 = img1
  img2 = img2
  NoSandbox = NoSandbox
  NoImage = NoImage
  Sandboxes = {s1, s2}
  Images = {img1}
  Clients = {c1}
  Refillers = {r0, r1}
  Reconciler = r0
  PoolSizeWarm <- OnePerImage
  MaxFaults = 1
PROPERTIES
  HandedOutIsTracked
