SPECIFICATION Spec
CONSTANTS
    Collects <- CollectModules
    Runs <- runFile
    RunsPacked <- runEmbedded
    Stem <- MCStem
    AssetNames = {"logo.txt", "new.txt", "log.txt", "page.html", "en.po", "en.mo", "he.mo", "iw.po", "pl.po", "logo.png", "app.ico", "yod.ico"}
    IconNames = {"app.ico"}
    ImageNames = {"logo.png"}
    YodIcons = {"yod.ico"}
    ExeOf <- MCExeOf
    AssetDirs = {"assets"}
    DataNames = {"data", "dist"}
    TestNames = {"test_m.yod"}
    HiddenNames = {".h.yod", ".packages"}
    Parts <- MCParts
    Libraries = {"math"}
    CatalogFiles <- MCCatalogFiles
    Names <- MCNames
    Worlds <- MCWorlds
    Home <- MCHome
    Elsewhere <- MCElsewhere
    Orders <- MCTarget
    Texts <- MCTexts
    Parcels <- MCParcels
    MaxCommands = 3
    MaxPackings = 2
CHECK_DEADLOCK FALSE
INVARIANTS SourcesKept
