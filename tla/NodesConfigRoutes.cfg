SPECIFICATION BuildSpec
CONSTANTS
  SubLists <- MCSubLists
  Answers <- MCAnswers
  RetryLimit = 2
  Groups <- MCGroups
  Strict = {"US"}
  Selected <- MCSelected
INVARIANT
  RoutesHaveNodes
CHECK_DEADLOCK FALSE
