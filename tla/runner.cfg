SPECIFICATION Spec
CONSTANTS
    Themes = {t1, t2}
    Bots = {b1, b2}
    Chats = {c1}
    Sources = {s1, s2}
    NoTheme = NoTheme
    Fold <- Case
    MaxRubrics = 2
    ThemeChanges <- OfTheme
    BotChanges <- OfBot
    Backgrounds <- Background
    MaxRequests = 0
    Rows = {r1, r2}
    Editors = {e1, e2}
    Ranges <- Bounds
    Defaults <- Standard
    Requests <- Sent
    Zones = {"UTC", "Moscow"}
    NoZone = "nowhere"
    MaxEdits = 0
    Attempts = {a1}
    Calls = {k1, k2}
    MaxSubmits = 0
    RunBots = {p1, p2}
    Tokens = {"x", "y"}
    BotThemes = {"m", "n"}
    MaxChanges = 0
    ThemeBots = {h1, h2}
    AdminBot = admin
    People = {u1, u2}
    Editor <- EditorOf
    Drafts = {d1, d2}
    Home <- HomeOf
    NoDraft = NoDraft
    NoPerson = NoPerson
    MaxExamples = 1
    MaxActs = 0
    MaxRounds = 3
    OutputBudget = 3
    ResultSize = 2
    MaxCalls = 2
    Texts <- Pieces
PROPERTIES RunnerConverges
CHECK_DEADLOCK FALSE
