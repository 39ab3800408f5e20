SPECIFICATION Spec
CHECK_DEADLOCK FALSE
CONSTANTS
    host = host
    app = app
    i1 = i1
    s1 = s1
    s2 = s2
    prod = prod
    name = name
    tags = tags
    env = env
    nameTags = nameTags
    nameTagsToo = nameTagsToo
    tagsEnv = tagsEnv
    envName = envName
    appTags = appTags
    Types = {host, app}
    Ids = {i1}
    Attributes = {name, tags, env}
    Strings = {s1, s2}
    Labels = {prod}
    Absent = Absent
    Labelers = {nameTags, nameTagsToo, tagsEnv, envName, appTags}
    Target <- MCTarget
    Derive <- MCDerive
    Resources <- MCResources
    NoResource = NoResource
    MaxLabelers = 3
INVARIANTS
    OneOwner
    NoForgery
    Idempotent
    OnlyOwnedChange
