SPECIFICATION Spec
CONSTANTS
    SubGroups = {1, 2}
    Callers = {r1, r2}
    Models = {named}
    named = named
    real = real
    RealModels = {real}
    Unnamed = Unnamed
    Configs <- RaceConfigs
    Serves <- MCServes
    Pool <- MCPool
    MaxRetries <- RaceRetries
    Latencies = {1}
    ServerBase = 1
    ServerMax = 1
    TransientDefault = 1
    TransientMax = 1
    ExhaustedDefault = 1
    PaymentCooldown = 1
    RetryAfters = {0}
    MaxHits = 0
SYMMETRY Symmetry
PROPERTY ChoiceIsBest
