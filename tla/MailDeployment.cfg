\* Deployments cut anywhere, edits in the console and by hand.
SPECIFICATION Spec
CONSTANTS
    Domains <- TwoDomains
    Sink = {"sink"}
    Roles = {"mail-admin"}
    IamRoles = {"impersonator"}
    MoreRoles = {"ops"}
    OrgId <- ThreeOrgs
    MaxTrouble = 2
    MailDomain = {"d0", "d1"}
    Catcher = {"sink"}
    Local = {"info"}
    HandDomain = {"d1"}
    Handler = {1}
    MaxHand = 1
    AdminRole = "mail-admin"
    MaxDeploys = 2
INVARIANTS
    CarriedSecretWorks
    FileServes
    NoLookalikeOrg
    RolesReach
    MailReachesItsReader
PROPERTIES
    NoRoleTaken
    CatchAllHeld
    EditsSurvive
CHECK_DEADLOCK FALSE
