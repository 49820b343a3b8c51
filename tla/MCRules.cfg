SPECIFICATION UsesSpec
CONSTANTS
  Strings <- MCStrings
  BaseFacts <- MCBaseFacts
  Rules <- MCRuleSet
  Ids = {"c1", "c2"}
  Types <- MCTypes
INVARIANTS
  LeastModel
  CountsWhatItAdds
  RuleFactsFollowInput
PROPERTY
  EvaluateEnds
CHECK_DEADLOCK FALSE
