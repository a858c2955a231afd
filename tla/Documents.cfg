SPECIFICATION Spec
CONSTANTS
  e1 = e1
  t1 = t1
  t2 = t2
  Docs = {d1, d2, d3}
  Texts = {t1, t2}
  Entities = {e1}
  Mentions <- OneOfTwo
  Callers = {c1, c2}
  None = None
  SourceCap = 2
  Sessions <- AloneOrTogether
INVARIANTS SettledIsExact ForgottenSourcesNothing MentionedIsThere
PROPERTY ImplementsMemory
SYMMETRY Alike
CHECK_DEADLOCK FALSE
