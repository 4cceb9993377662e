CONSTANTS
  None = None
  Blank = Blank
  Flows = {f1, f2}
  Entries = {e1, e2}
  Names = {n1, n2}
  SameSlug = {}
  Hosts = {a, b}
  Keys = {k, l, Blank}
  Resubmits = FALSE
SYMMETRY Symmetry
SPECIFICATION Spec
INVARIANTS TypeOK SavedWasTested NamesDiffer
