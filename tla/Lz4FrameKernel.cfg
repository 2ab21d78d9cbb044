SPECIFICATION KernelSpec
CONSTANTS
    NumBlock = 2
    BlockLength = 4
    MinBlock = 2
    WordMod = 32
    FieldMod = 4
    MaxInput = 7
    Inputs <- AllInputs
INVARIANTS
    StoredBlocksMarked
