SPECIFICATION FairSpec
CONSTANTS
  a = a
  l = l
  t = t
  dot_a = dot_a
  Paths = {a, l}
  Entries = {a, l, t}
  Operands <- RepeatedOperands
  EntryOf <- RepeatedEntryOf
  LinkOf <- RepeatedLinkOf
  Limit = 2
INVARIANTS
  TypeOK
  NoLostUpdate
  NeverTorn
  NoSilentLoss
PROPERTIES
  EveryOperandSettles
  ImplementsAtomicEdits
