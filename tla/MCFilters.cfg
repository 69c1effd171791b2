SPECIFICATION Spec
CONSTANTS
  Groups = {"g1"}
  Urls = {"u1", "u2"}
  Names <- MCNames
  TextAt <- Texts
  Rules <- MCRules
  StartRow <- First
  StartText = 1
  Budgets <- MCBudgets
  MaxId = 2
  None = None
INVARIANT EnforcesTheRows
INVARIANT RowTellsTheCopy
INVARIANT CurrentIsWhatWasServed
PROPERTY Propagates
