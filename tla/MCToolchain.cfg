SPECIFICATION Spec
CONSTANTS
    Packages = {"app", "lib", "net"}
    Versions = {1, 2}
    Descriptor <- MCDescriptor
    ToolPackages = {"app"}
    ReservedNames = {}
    Locals = {"sub", "gone", "loop", "odd"}
    LocalManifest <- MCLocalManifest
    NoManifest = "none"
    FirstProjects <- MCProjects
    MaxDependencies = 3
    MaxIncludeDepth = 2
    ToolFiles <- MCToolFiles
    ToolTimeout = 1
    EntryImports <- MCEntryImports
    PackageImports <- MCPackageImports
    Unresolved = Unresolved
    NoFile = NoFile
    Torn = Torn
    MaxCommands = 3
    MaxEvents = 1
    BuildCommands <- MCBuilds
    AddSpecs <- MCAddSpecs
    Overrides <- MCOverrides
    FirstRegistries <- MCRegistries
INVARIANTS LockClosed TreeMatchesLock 
PROPERTIES ToolRunEnds
CHECK_DEADLOCK FALSE
