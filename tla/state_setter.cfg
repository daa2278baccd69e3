SPECIFICATION MCSpec
CONSTANTS
  Machine = {m1}
  Setter = {s1, s2}
  Nobody = Nobody
  Types = {"dell", "qemu", "unknown"}
  KnownTypes = {"dell", "qemu"}
  Targets <- MCTargets
  Minimum <- MCMinimum
  All = All
  Conditions <- MCConditions
  Grace = 1
  MaxEvent = 2
INVARIANTS StateSetterTypeOK RetiredIsWiped
PROPERTIES GraceRespected 
