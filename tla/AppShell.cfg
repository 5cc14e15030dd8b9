SPECIFICATION Spec
CONSTANTS
    MaxSetups = 2
    MaxBackoff = 2
    Countries = {de, us}
    ManyCountries = 1
    MaxVersion = 2
    Lengths = {0, 3}
    MaxBytes = 3
    MaxReleases = 2
    MaxChecks = 2
    MaxOrphans = 1
    Ids = {i1, i2}
    Currencies = {usdc, btc}
    Default = usdc
    Countdown = 2
    MaxLists = 1
    MaxPolls = 2
    OsLocale = "fr"
    NavigatorLocale = "xx"
    Chosen = {"es", "fr", "de", "it", "pt", "ru", "zh", "ja", "ko", "ar", "tr", "pl", "uk", "vi", "id"}
    Checks = {c1, c2}
    ApiCalls = {a1}
    MaxTurns = 2
    MaxWallets = 3
    MaxCommands = 2
    Loops = {l1, l2}
    Starts = {s1}
    NoLoop = NoLoop
    VpnCalls = {v1, v2}
    MaxIntents = 2
    MaxVpnMoves = 3
    Bits = 4
    MaxExcluded = 2
INVARIANTS
    ShellTypeOK
    OneDepositAtATime
    SystemIsFollowed
    TextsAgreeWithPages
    WordsAreOfWallet
    EndedShowsDisconnected
    RunningHasService
    TunnelTakesTheRest
PROPERTIES
    StreamReturns
    PricesNeverGoBack
    PricesSettle
    BannerSettles
    ProgressForward
    CompletedIsFinal
    AuthSettles
    LoopsEnd
CHECK_DEADLOCK FALSE
