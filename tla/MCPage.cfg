SPECIFICATION PageSpec
CONSTANTS
    Figures = {"vitals", "table", "sweep", "bias", "channel", "bench", "hardware", "realtime", "gross", "gauging", "surgery", "coherent", "xcheck"}
    Jobs = 2
    MaxClicks = 2
    MaxChanges = 1
    LatticeFigure = {"decode", "spacetime", "anatomy", "syndrome", "opener"}
    Distances = {3, 5}
    RoundCounts = {3}
    Decoders = {"uf", "mwpm"}
    MaxPending = 2
    Noise = {"X", "Y"}
    Reach = 3
    MaxMarks = 2
    WorkerJobs = 2
    Rows = 2
    Configs = 2
    Operations = {"vitals", "benchmark", "channel", "xctiming", "sweep", "table", "stream", "xcheck", "hardware", "hwfits", "realtime", "bbrun", "surgery"}
    SweptDistances = {3, 5, 7}
    SweptRates = {1, 2, 3}
    RatesAt <- MCRatesAt
    MaxMissing = 3
    MinPoints = 6
    MinCorrected = 3
    Replicas = 3
    Experiments <- MCExperiments
    MinRounds = 2
    MaxLost = 1
    MaxDraws = 1
    Layouts <- MCLayouts
    Heights = {6, 9}
    Examples <- TheExamples
    Urls <- TheUrls
    Tools = {"M", "MR"}
    MarkTools <- TheMarks
    MaxQubit = 1
    MaxLayers = 3
    MaxEdits = 2
    Qubits = {1, 2, 3, 4}
    MaxD = 9
    Noises = {"noisy", "above"}
    Epsilon <- MCEpsilon
    Improves = {"noisy"}
    Measured <- MCMeasured
    Beyond <- MCBeyond
    Presets <- MCPresets
    Default <- MCDefault
    TypedCounts = {0, 2}
    TypedToffolis = {2}
    Parallels = {2}
    Budgets = {60, 400}
    Control = 2
    Cultivation <- MCCultivation
    Protocols <- MCProtocols
    YokedRate = 2
    GrossRate <- MCGross
    GrossLogical = 2
INVARIANTS
    DoneIsWhole
    FailuresAreSaid
    VerdictIsCurrent
    OpenerInStep
    OwnInputs
    WholeUnlessCancelled
    ReportedCrosses
    DrawsUseItsPoints
    ShellInStep
    CheapestDistance
    NamesItsRecord
    FlipsAreRegions
    UrlReadsBack
PROPERTIES
    LiveRunsAnyway
    ButtonsComeBack
    ClicksShow
    EditsKeepNames
CHECK_DEADLOCK FALSE
