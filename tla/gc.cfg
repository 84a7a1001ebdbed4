CONSTANTS
    layer = layer
    image = image
    index = index
    NoDigest = NoDigest
    NoTag = NoTag
    Proc = {p1}
    Repo = {r1, r2}
    Tag = {t1}
    Digest <- IndexedDigest
    Manifest <- IndexedManifest
    Index <- IndexedIndex
    Refs <- IndexedRefs
    ForeignLayers = {}
    ImagesExist = TRUE
    CheckedPlatform <- IndexedDigest
    DeleteEnabled = TRUE
    MayCrash = FALSE
    Settings <- AllSettings
    TagsDirMissing = TRUE
SYMMETRY RepoSymmetry
SPECIFICATION MCSpec
INVARIANTS
    KeptWithoutFlag
    TaggedKept
    ServedAfterGC
    
PROPERTIES
    CollectsSafely
    GarbageGone
