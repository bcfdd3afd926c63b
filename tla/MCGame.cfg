SPECIFICATION Spec
CONSTANTS
  Tanks <- OneTank
  PerTank = 2
  Slots = {1, 2}
  FirstSlot = 1
  NoKey = "other"
  OtherKeys <- NoFireKeys
  Bullets <- OneTankBullets
  Limit = 1
INVARIANT ArenaClear
INVARIANT TriggerHasCause
PROPERTY ImplementsDuel
PROPERTY ShotAnswered
PROPERTY QuietArena
