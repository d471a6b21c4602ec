SPECIFICATION Spec
CONSTANTS
    SubGroups = {1, 2}
    Callers = {r1}
    Models = {named}
    named = named
    real = real
    RealModels = {real}
    Unnamed = Unnamed
    Configs <- MCConfigs
    Serves <- MCServes
    Pool <- MCPool
    MaxRetries <- MCMaxRetries
    Latencies = {1, 4}
    ServerBase = 1
    ServerMax = 2
    TransientDefault = 1
    TransientMax = 1
    ExhaustedDefault = 2
    PaymentCooldown = 2
    RetryAfters = {0, 2}
    MaxHits = 0
INVARIANT BodyNamesServedModel
