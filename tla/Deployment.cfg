SPECIFICATION Spec
CONSTANTS
  Numbers = {0, 1}
  Environment = {0}
  Default = 2
  MaxKeys = 1
  Latest = 2
INVARIANTS TypeOK SettingsSurvive RestoreIsFaithful UpgradeIsSafe
