SPECIFICATION Spec
CONSTANTS
    MailSubs = {"a", "b"}
    MailWindows <- OneDayAndSameDay
    DayTicks = 2
    MailTerm = 4
    MailLeft = {3}
    MailHorizon = 4
    MaxMailFaults = 1
    NoticeSubs = {"a"}
    AppWindows = {1, 2}
    Workers = {"w1", "w2"}
    Terms = {2, 3}
    AppHorizon = 4
    MaxAppFaults = 1
    AccountUsers = {"a", "b", "d", "x"}
    Orgs = {"o1", "o2"}
    Prefixes = {"AC", "BE"}
    FirstNames <- OldPrefixes
    Mails = {"m1"}
    Roster <- FirstPeople
    MaxNumber = 2
    MaxRequests = 2
    MaxAttempts = 2
    PeriodSubs = {1, 2}
    PlanLimit = 1
    Delta = 1
    MaxScans = 2
    MaxExtras = 1
    Checkers = {"w1", "w2"}
    Thresholds = {50, 90}
    AlertLimit = 2
    MaxUsed = 2
    MaxRaises = 1
    MaxAlertFaults = 1
    Customers = {"c"}
    Staff = {"s", "t"}
    Writers = {"c", "t"}
    Readers = {"s"}
    StaffKinds = {"reply", "note", "event", "change"}
    MaxTime = 3
    MaxMessages = 3
    PageSize = 1
    PlanIds = {1, 2}
    Legacy <- InRupees
    NewPlans <- Bodies
    Edits <- Changes
    MaxPlanRequests = 2
    Keep = Keep
    Callers = {"c1", "c2"}
    UploadRequests = {1, 2}
    UploadFiles <- TwoEach
    TotalCap = 2
    TicketCap = 2
    MaxFileFaults = 2
    Count <- Counts
    Notes = {2}
    Removers = {"r1", "r2"}
    PageLimit = 1
    MaxRemovals = 3
    MaxUnlinkFaults = 1
    Editors = {"e1", "e2"}
    MaxEdits = 4
    Canonical <- CountryNames
    Creations <- Beginnings
    Updates <- CompanyEdits
    Profiles <- ProfileEdits
    FirstDay <- FourMonths
    Presets <- SamplePresets
    Customs <- SampleCustoms
    Delays = {0, 3, 30}
    Planless = "none"
    NearLimitPct = 80
    TeamLimit = 3
    TopLimit = 2
    AtLimit <- SampleAtLimit
    Others <- SampleOthers
    Probes <- SampleProbes
    Files <- SampleFiles
    KindSets <- SampleKindSets
    FirstResponse = 3
    MaxContext = 6
    Tickets <- SampleTickets
    NewTickets <- SampleNewTickets
    Accounts <- SampleAccounts
    Tables <- SampleTables
    Seeds <- SampleSeeds
    Labels <- SampleLabels
INVARIANTS
    TypeOK
    QuotaSurvives
    ThreadIsComplete
    RulesAgree
PROPERTIES
    Reminders
    AccountsKeepSignIn
CHECK_DEADLOCK FALSE
