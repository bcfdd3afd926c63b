SPECIFICATION Spec
CONSTANTS
  Bullets = {b1}
  Limit = 4
PROPERTY LifetimeExact
PROPERTY NeverStuck
PROPERTY EveryBulletReturns
