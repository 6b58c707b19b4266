CONSTANTS
    Junk = Junk
    BlockSize = 2
    SqrtFactor = 1
    Lowest = 0
    Highest = 2
    Bits = {0, 1, 2}
    SearchBase = 1
    MergeBase = 2
    MergeSortBase = 2
    QuickBase = 5
    QuickPar = 6
    PQuickCut = 5
    RadixBits = 2
    BucketFactor = 1
    SampleBase = 4
    OverSample = 1
    SampleBlocks = 1
    BlockQuotient = 2
    BucketQuotient = 1
    TransBase = 2
    BlockTransBase = 2
    ObliviousSize = 6
    ObliviousSide = 1
    CountSeq = 3
    CountGrain = 2
    RadixSeq = 4
    DigitBits = 1
    TopBits = 1
    FewBits = 1
    StreamBlock = 2
    ViewBlock = 2
    CRSeq = 3
    FewFactor = 1
    FewBlocks = 3
    FewGrain = 1
    BucketBits = 2
    CopyCutoff = 2
    SparseSeq = 3
    FindGrain = 1
    LexGrain = 2
    KthSeq = 3
    KthPivots = 3
    TokensSeq = 3
    ShuffleSeq = 3
    ShuffleBits = 1
    Parlay <- MCParlay
    MaxLen = 5
    Keys = {0, 1, 2}
    MaxFew = 7
    FewKeys = {0, 1}
INIT Init
NEXT Next
CHECK_DEADLOCK FALSE
INVARIANTS BlocksAgree SearchesAgree SortsAgree ElementsMove GroupsAgree 
