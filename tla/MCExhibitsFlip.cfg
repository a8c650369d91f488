SPECIFICATION Spec
CONSTANTS
    Images = {m1, m2}
    Known = {m1}
    NoImage = NoImage
    Assets = {1}
    Servers = 2
    MaxAttempts = 2
    MaxScans = 2
    MaxTurns = 1
    Exhibits = {1, 2}
    ThrowTime = 2
    PortalStart = 1
    RevealStart = 2
    FadeOutEnd = 4
    Grace = 1
    Dinos = {1, 2}
    OceanDinos = {2}
    Exhibited = {1, 2}
    TabsOf <- MCTabsOf
    NoDino = NoDino
    MaxPull = 2
PROPERTIES ScanResumesAfterFlip
