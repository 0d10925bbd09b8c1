\* Two concurrent programs, three started in all, two events.
CONSTANTS
  Programs = {p1, p2}
  Invocations <- McInvocations
  Versions = {1, 2, 3}
  Sound = {1, 2}
  TableOf <- McTableOf
  Recorded = 1
  MaxStarts = 3
  MaxTrouble = 2
  None = None
SPECIFICATION Spec
INVARIANTS SourceIsTrue PassIsOneChain DeathsHeal
PROPERTY FrozenIsKept
SYMMETRY McSymmetry
CHECK_DEADLOCK FALSE
