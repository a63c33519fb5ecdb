SPECIFICATION HoldSpec
CONSTANTS
    Held = {h1, h2}
    Unheld = {u1}
    None = None
INVARIANTS
    NoLeak
PROPERTIES
    SilentRemoved
    LiveShown
