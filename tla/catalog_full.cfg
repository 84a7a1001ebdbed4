\* The catalog on a filesystem, with a nested repository whose name begins with a digit.
SPECIFICATION DriversSpec
CONSTANTS
    Absent = Absent
    MinChunk = 2
    ChunkSize = 3
    GCSMinChunk = 2
    GCSChunkSize = 4
    AzureChunk = 2
    BufSize = 2
    Kinds = {"s3", "gcs", "azure", "fs", "mem"}
    MaxLen = 7
    MaxWrite = 3
    MaxFaults = 2
    Paths <- MCPaths
    TreeKinds = {"s3", "gcs", "azure", "fs", "mem"}
    MaxFailures = 2
    Repos <- MCRepos
    Tags <- MCTags
    ListKinds = {"fs"}
    PageSizes = {0, 1, 2}
    MaxChanges = 1
    ReaderKinds = {"s3", "gcs", "azure", "fs", "mem", "http"}
    BlobLen = 3
    MaxReads = 4
    Parts = {"list"}
INVARIANT CatalogFits
CHECK_DEADLOCK FALSE
