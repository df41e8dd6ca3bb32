SPECIFICATION Spec
CONSTANTS
    Numbers = {0, 1}
    Absent = Absent
    Replugs = 3
    Threads = {"poller", "main"}
    Devices = {"color", "motor"}
    Modes = {"COL-REFLECT", "COL-COLOR"}
    NoMode = "no mode"
    Nobody = "nobody"
    Statements <- MCStatements
    NoClass = NoClass
    NoAccess = NoAccess
    Codes = {0, 1, 5, 9}
    OtherCodes = {0, 2}
    Distance = 10
    LongBytes = 4
    Pressable = {"back", "up"}
    Delays = {0, 100}
    Unset = Unset
    Written = {"x", "y"}
    Default = "default"
    NoObject = NoObject
    MaxStep = 3
    Tones <- MCTones
    MaxSounds = 2
INVARIANTS
    BrickTypeOK
    ConnectedAsAnswered NoDeviceMissed
    ExclusiveAccess ValueOfMode
    MethodsDeliver
    StateOfValue ToldWhatIsHeld
    StatesUpToDate StateIsTold
    LedsAsAsked
    ReadsBack
    GainFollowsKeys
    TonesAsAsked
PROPERTIES
    ConnectsToMatch
    GivesUpOnlyWithout
