SPECIFICATION PagesSpec
CONSTANTS
    Presets = {riot, ai}
    Wired = {riot}
    Profile = {riot}
    Names = {d1}
    Records = {r1}
    DohTokens = {k1}
    SaveSlots = {s1, s2}
    Refs = {a1, a2, a3}
    MaxEdits = 3
    MaxRefusals = 1
    Policies = {p1, p2}
    Bodies = {b1, b2}
    Blank = Blank
    PolicySlots = {q1, q2}
    MaxActs = 4
    MaxErrors = 1
    Questions <- MCQuestions
    NoQuestion = NoQuestion
    Clients = {i1, i2}
    ClientSlots = {n1, n2}
    MaxUuid = 3
    MaxClientActs = 3
    MaxTrouble = 1
    SettingSlots = {h1, h2}
    MaxSettingActs = 2
    MaxSetbacks = 1
    Ring = 2
    Channel = 1
    StreamBufferMax = 2
    Handlers = 2
    MaxLogged = 3
    MaxMoves = 3
INVARIANTS
    SavedAgrees
    CalmEdits
    PolicyIntent
    QuietPage
    SettingsAgree
    LatestReport
    IssueVerdict
    TableAgrees
PROPERTIES
    ConfirmedOnly
    Authorised
CHECK_DEADLOCK FALSE
