\* Rollback after a regression: expected to be violated.
CONSTANTS
  Lessons <- MCLessons
  Similar <- MCSimilar
  Contradicts <- MCContradicts
  Names <- MCNames
  NameOf <- MCNameOf
  Proposals <- MCProposals
  Feedback <- MCFeedback
  Ids = {"pattern"}
  IdOf <- MCIdOf
  Manual = "manual"
  Verifiers <- MCVerifiers
  VerifierOf <- MCVerifierOf
  NoLesson = "none"
  MaxMemories = 2
SPECIFICATION Spec
PROPERTY RollbackRetiresAssets
