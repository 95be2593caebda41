CONSTANTS
  Users <- MCUsers
  Resources <- MCResources
  Actions <- MCActions
  RoleOf <- MCRoleOf
  Clearance <- MCClearance
  LabelOf <- MCLabelOf
  Needs <- MCNeeds
  Substrings <- MCSubstrings
  UserAttributes <- MCUserAttributes
  ResourceAttributes <- MCResourceAttributes
  Environments <- MCEnvironments
  AbacRuleSets <- MCAbacRuleSets
  SodConstraintSets <- MCSodConstraintSets
SPECIFICATION Spec
INVARIANTS SodDeniesOnlyOverLimit
