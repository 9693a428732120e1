SPECIFICATION Spec
CONSTANTS
    TileWidth = 1
    TileHeight = 2
    XOffset = 2
    Columns = 12
    Chunk = 3
    Pictures = {1, 2}
    MaxResets = 2
INVARIANTS
    NothingOutside
    Configured
PROPERTIES
    KeepsDrawing
    UpdatePromise
