SPECIFICATION Spec
CONSTANTS
  p1 = p1
  p2 = p2
  Proc = {p1, p2}
  Role = {"operator", "node"}
  Operator = "operator"
  MaxKeys = 2
SYMMETRY MCSymmetry
INVARIANTS TypeOK FilesWhole UsesStored TokenIsOwn
PROPERTY RolesKept
