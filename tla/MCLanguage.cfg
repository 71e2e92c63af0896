SPECIFICATION Spec
CONSTANTS
    Alphabet <- MCAlphabet
    Files <- MCFiles
    Documents <- MCDocuments
    Compilation <- CompileSource
    Instruction <- Step
    Evaluation <- RunSource
    Programs <- Common
    StackSize = 40
    MaxFrames = 8
INVARIANTS SameOnBothEngines StacksSound ListsApart
