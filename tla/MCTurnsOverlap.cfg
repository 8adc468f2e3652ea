\* Two messages, and nothing goes wrong.
CONSTANTS
  m1 = m1 m2 = m2 w1 = w1
  Messages = {m1, m2}
  Wakes = {}
  MaxWakes = 1
  MaxUpsets = 0
SPECIFICATION Spec
PROPERTY EveryReplyIsTaken
SYMMETRY Symmetry
CHECK_DEADLOCK FALSE
