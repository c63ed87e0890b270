SPECIFICATION FairSpec
CONSTANTS
    agent = agent
    deploy = deploy
    c1 = c1
    Holders <- AgentAndDeploy
    Commands <- OneCommand
    FromEnv <- JustAgent
    Free = Free
    MaxLogins = 2
    MaxRefreshes = 1
INVARIANTS
    KeysKept
PROPERTIES
    RefreshKeepsLogin
    HoldersFollowFile
CHECK_DEADLOCK FALSE
