\* The storage drivers: the writers of five of them with small chunks, their trees, the
\* listings over Walk and the readers.  A session, a tree, a listing or a reader may come to an end.
SPECIFICATION DriversSpec
CONSTANTS
    Absent = Absent
    MinChunk = 2
    ChunkSize = 3
    GCSMinChunk = 2
    GCSChunkSize = 4
    AzureChunk = 2
    BufSize = 2
    Kinds = {"s3", "gcs", "azure", "fs", "mem"}
    MaxLen = 7
    MaxWrite = 3
    MaxFaults = 2
    Paths <- MCPaths
    TreeKinds = {"s3", "gcs", "azure", "fs", "mem"}
    MaxFailures = 2
    Repos <- MCRepos
    Tags <- MCTags
    ListKinds = {"s3", "gcs", "fs"}
    PageSizes = {0, 1, 2}
    MaxChanges = 1
    ReaderKinds = {"s3", "gcs", "azure", "fs", "mem", "http"}
    BlobLen = 3
    MaxReads = 4
    Parts = {"writer", "tree", "list", "read"}
INVARIANTS
    StreamIntact
    NoFaultNoFailure
    
    
    
    ReadsExact
CHECK_DEADLOCK FALSE
