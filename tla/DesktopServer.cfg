CONSTANTS
    Posts <- MCPosts
    Forms <- MCForms
    FieldOrder <- MCFieldOrder
    Unreadable <- MCUnreadable
    Silent <- MCSilent
    BodyLimit = 3
    Faults = 1
SPECIFICATION Spec
INVARIANTS LinksWork ReadAsUploaded SameAsCommandLine
PROPERTIES Answered
CHECK_DEADLOCK FALSE
