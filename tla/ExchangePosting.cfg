SPECIFICATION Spec
CONSTANTS
  b1 = b1
  p1 = p1
  p2 = p2
  p3 = p3
  low = low
  high = high
  redacted = redacted
  Batches = {b1}
  Presses = {p1, p2, p3}
  Offers = {low, high}
  Redacted = redacted
  Erasable = {b1}
  MaxPosts = 3
SYMMETRY Alike
INVARIANTS RepostOnlyByLostReply StaleOnlyIfOvertaken
PROPERTY HungClaimStays
