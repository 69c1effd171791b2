SPECIFICATION Spec
CONSTANTS
  Groups = {"g1"}
  Urls = {"u1", "u2"}
  Names <- MCNames
  TextAt <- Untagged
  Rules <- MCRules
  StartRow <- First
  StartText = 1
  Budgets <- ImportOnly
  MaxId = 2
  None = None
INVARIANT BroughtIsFetched
