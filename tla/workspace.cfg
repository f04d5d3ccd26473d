SPECIFICATION Spec
CONSTANTS
    docker = docker
    aws = aws
    InitProc = i
    Procs = {i, p}
    Aliases = {default, prod}
    Urls = {u, v}
    Default = default
    NoUrl = NoUrl
    Paths = {docker, aws}
    FileNames = {"capd", "mine"}
    UserDirs <- MCUserDirs
    Examples <- MCExamples
    ExampleFile = "capd"
    Generated <- MCGenerated
    MaxFaults = 1
    MaxCommands = 3
    MaxEdits = 1
SYMMETRY Symmetry
INVARIANTS TypeOK AliasFileSound PreparedValidates ExamplesReady
PROPERTIES EditsKept
CHECK_DEADLOCK FALSE
