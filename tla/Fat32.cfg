\* Three clusters of two units.
CONSTANTS
    total_clusters = 3
    UnitsPerSector = 2
    sectors_per_clus = 1
    FAT32_MAX_DIR_CHILDREN = 2
    Names = {"a", "b"}
    Short <- MCShort
    NewEntries <- MCNewEntries
    LongName = "long"
    LongShort = "b"
    Lengths = {1, 2, 3}
    MaxSize = 3
SPECIFICATION FairSpec
INVARIANTS
    ChainsAreSound
    FilesHoldTheirData
    DirectoriesParse
    CacheMatchesDisk
    NoClusterLeaks
