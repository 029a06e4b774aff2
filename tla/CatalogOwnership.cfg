\* Two addresses of the merchant, a squatter and rotation, two settlements.
SPECIFICATION Spec
CONSTANTS
  Hooks = {h1, h2}
  PayTos = {m, n, s}
  Merchants = {m, n}
  Tool = FALSE
  None = None
SYMMETRY Symmetry
INVARIANTS
  BindingIsDurable
  ProvenTrust
  ObservedStats
PROPERTIES
  ImplementsBinding
