CONSTANTS
    layer = layer
    image = image
    index = index
    NoDigest = NoDigest
    NoTag = NoTag
    Proc = {p1, p2}
    Repo = {r1}
    Tag = {t1}
    Digest <- IndexedDigest
    Manifest <- IndexedManifest
    Index <- IndexedIndex
    Refs <- IndexedRefs
    ForeignLayers = {}
    ImagesExist = TRUE
    CheckedPlatform <- IndexedDigest
    DeleteEnabled = TRUE
    MayCrash = TRUE
SYMMETRY ProcSymmetry
SPECIFICATION Spec
INVARIANTS
    ManifestComplete
PROPERTY
    ImplementsImageStore
