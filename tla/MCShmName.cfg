SPECIFICATION Spec
CONSTANTS
  Processes = {p1, p2, p3, p4}
  Files = {f1, f2, f3, f4, f5}
  NoFile = NoFile
SYMMETRY Symmetry
INVARIANTS FilesPrivate NameIsTransient
PROPERTY FailsOncePerName
