CONSTANTS
    Tier1Rules = {"known-directives", "known-type-names"}
    SupportedVersions = {"v2"}
    Worlds <- MCWorlds
    FederationDirectives <- MCFederation
    Link <- MCLink
    LinkTypes <- MCLinkTypes
    FieldSet <- MCFieldSet
    BuiltInTypes <- MCBuiltInTypes
    BuiltInDirectives <- MCBuiltInDirectives
    Deprecated <- MCDeprecated
    RootNames <- MCRootNames
SPECIFICATION Spec
INVARIANTS
    TypeOK
    LintsWhatIsAsked
    EveryNodeJudgedOnce
    ExtensionsAreOne
    ReachesExactly
    ImportsAreHonoured
CHECK_DEADLOCK FALSE
