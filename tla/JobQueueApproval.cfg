CONSTANTS
  a = a
  Job = {a}
  Imported = {"Pending"}
  Contested = {a}
SPECIFICATION Spec
PROPERTY ReplacementWasApproved
