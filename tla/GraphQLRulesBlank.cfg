CONSTANTS
    Tier1Rules = {"known-directives", "known-type-names"}
    SupportedVersions = {"v2"}
    Worlds <- BlankWorlds
    FederationDirectives <- MCFederation
    Link <- MCLink
    LinkTypes <- MCLinkTypes
    FieldSet <- MCFieldSet
    BuiltInTypes <- MCBuiltInTypes
    BuiltInDirectives <- MCBuiltInDirectives
    Deprecated <- MCDeprecated
    RootNames <- MCRootNames
SPECIFICATION Spec
INVARIANT NeverMismatched
CHECK_DEADLOCK FALSE
