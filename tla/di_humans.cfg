CONSTANTS
  MaxRows = 2
  NULL = NULL
  e1 = e1
  p1 = p1
  r1 = r1
  r2 = r2
  c1 = c1
  strategic = strategic
  n1 = n1
  Emails <- MCEmails
  Passwords <- MCPasswords
  Roles <- MCRoles
  Names <- MCNames
  Layers <- MCLayers
  PermissionNames = {1, 2}
  PrincipleNames <- MCPrincipleNames
  AskedLevels = {0, 1, 2}
  AskedBehaviors <- MCAskedBehaviors
SPECIFICATION Spec
INVARIANT ActorsAlike
