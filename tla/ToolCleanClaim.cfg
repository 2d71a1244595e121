SPECIFICATION Spec
CONSTANTS
    Pipeline <- MCPipeline
    Engines <- MCEngines
    Filterings <- MCFilterings
    RuleLists <- MCRuleLists
    Directories <- MCDirectories
    Places = {1, 2}
    Threshold = 2
    Strategy = "consensus"
    MaxThreats = 2
    MaxHidden = 1
    MaxTroubles = 1

INVARIANT FailedScanNotClean
