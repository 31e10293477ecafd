\* A mailbox and a window of two over four ordinals, the last one the largest there is;
\* five submissions of two inputs, own and foreign, in any order.
CONSTANTS
  Capacity = 2
  First = 0
  MaxOrdinal = 3
  Input = {a, b}
  MaxSent = 5
SPECIFICATION Spec
INVARIANTS WindowBounded OnlyStraysFail DisconnectedIsFinal
PROPERTIES ImplementsLockstep ScriptIsPlayed
