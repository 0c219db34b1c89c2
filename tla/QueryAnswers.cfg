CONSTANTS
  Likes <- MCLikes
  Families <- MCFamilies
  Assumed = {"outer", "like", "fast", "bare"}
SPECIFICATION Spec
INVARIANTS AnswersTheQuery DeleteAgreesWithSelect SoundQueriesAnswer CompiledAgrees
PROPERTY SortIsStable
CHECK_DEADLOCK FALSE
