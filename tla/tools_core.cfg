CONSTANTS
    u1 = u1
    u2 = u2
    c1 = c1
    dingtalk = dingtalk
    rag = rag
    Users = {u1, u2}
    Conversations = {c1}
    UserOf <- OneConversation
    Servers = {dingtalk, rag}
    DingTalkServer = dingtalk
    Catalog <- BothCatalogs
    SchemaOf <- Schemas
    Unparseable = Unparseable
    Files <- SomeFiles
    Deployment = Deployment
    MaxResults = 1
    MaxCalls = 1
SPECIFICATION Spec
INVARIANTS
    TypeOK
PROPERTIES
    RunsOwnTools
    BindingIsSound
    FetchedStaysCallable
