SPECIFICATION Spec
CONSTANTS
    Links = {0, 2437, 2472, 5180}
    Adapters <- OneOrTwoBands
    ChannelTexts = {0, 6, 12, 36, 200}
    Default = Default
    Flags = {hidden}
    MaxEdits = 3
    Width = 2
    MaxLen = 18
    IpLengths = {1, 7, 15}
    HostLengths = {1, 3}
    MaxClients = 2
INVARIANTS
    TypesOK
    RemembersForm
    StartsAsShown
    ChannelAsAsked
    EntriesFollowToggles
    EditSaysWhy
    MacFileIsUsers
    WritesInRow
    RowShowsModules
    PictureComplete
    MacAccepted
    RowsShowClients
    ChannelsRight
CHECK_DEADLOCK FALSE
