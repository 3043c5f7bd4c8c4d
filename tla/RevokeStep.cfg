SPECIFICATION Spec
CONSTANTS
    researcher = researcher
    analyzer = analyzer
    writer = writer
    c1 = c1
    c2 = c2
    None = None
    Agents = {researcher, analyzer, writer}
    Caps = {c1, c2}
    Offers <- MCOffers
    Oidc = {writer}
    Scenarios <- MCScenarios
    MaxTct = 3
    MaxDelegations = 2
    MaxKeys = 2
CHECK_DEADLOCK FALSE
INVARIANT
    RevokeCutsTheAudienceOff
