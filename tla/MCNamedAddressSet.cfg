SPECIFICATION Spec
CONSTANTS
  curve = curve
  curveV2 = curveV2
  convex = convex
  aave = aave
  idle = idle
  unnamed = unnamed
  n1 = n1
  n2 = n2
  n3 = n3
  n4 = n4
  Empty = Empty
  Null = Null
  Contracts = {curve, curveV2, convex, aave, idle, unnamed}
  Names = {n1, n2, n3, n4}
  NameOf <- MCNameOf
INVARIANT InStep
PROPERTY ImplementsDirectory
