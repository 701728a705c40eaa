SPECIFICATION DrawSpec
CONSTANTS
    MinSize = 4
    Home <- HashByNumber
    Empty = Empty
    Missing = Missing
    Directions = 2
    TileImages <- TwoTiles
    SplitSheets <- NoltySheet
    WholeSheets <- BlurSheet
    Flare <- FlareImage
    Fonts <- TwoFonts
    Animations <- TwoAnims
    Unit = 4
    View = 3
    MapWidth = 7
    MapHeight = 6
    TileWidth = 32
    TileHeight = 16
    WindowWidth = 64
    WindowHeight = 32
    Terrain <- Checkered
    Cameras <- InAndOut
    Scenes <- SomeScenes
    NovaSprites = 2
INVARIANTS
    TypeOK
    DrawnAsMeant
    WindowCovered
