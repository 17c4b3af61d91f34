CONSTANTS
    Slack = 1
    GroupFactor = 2
    GroupMin = 3
    I8Factor = 2
    I8Slack = 1
    I8Margin = 2
    PoolFactor = 1
    PoolMin = 2
    TemplateFactor = 1
    TemplateMin = 2
    MaxRange = 3
    MaxIters = 4
    Everyone = 100
    Limits = {0, 1, 2}
    Bucket = 2
    Galleries <- MCGalleries
    Options <- MCOptions
    Templates <- MCTemplates
    Censuses <- MCCensuses
    Graphs <- MCGraphs
    Unions <- MCUnions
SPECIFICATION QueriesSpec
INVARIANTS
    SearchFindsWhatCounts
    PeopleViewsAgree
    ClusteringLabels
