SPECIFICATION FairSpec
CONSTANTS
  Req = {"TokenReq", "BadTokenReq", "LoginReq", "BadLoginReq", "EnterSceneReadyReq", "SceneInitFinishReq", "PingReq", "BlacklistReq", "CombatNotify"}
  MaxReqs = 4
  HasDispatchSeed = TRUE
  NULL = NULL
INVARIANTS ClientReads DropsOnlyInSwitch AvatarSetByLogin
PROPERTY GetsIn
CHECK_DEADLOCK FALSE
