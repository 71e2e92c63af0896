SPECIFICATION Spec
CONSTANTS
    Alphabet <- MCAlphabet
    Files <- MCFiles
    Documents <- MCDocuments
    Compilation <- CompileSource
    Instruction <- Step
    Evaluation <- RunSource
    Programs <- Reused
    StackSize = 40
    MaxFrames = 8
INVARIANT SameOnBothEngines
