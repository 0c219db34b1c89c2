CONSTANTS
  Likes <- MCLikes
  Families <- MCFamilies
  Assumed = {"like", "fast", "bare"}
SPECIFICATION Spec
INVARIANT AnswersTheQuery
CHECK_DEADLOCK FALSE
