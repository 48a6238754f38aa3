SPECIFICATION Spec
CONSTANTS
    Width = 4
    Rows = 3
    TabStop = 2
    Printable = {"a", "b"}
    Prompt <- PromptText
    Unknown <- UnknownText
    io_sz = 4
    Base = 2
    ClockX = 1
    MaxTime = 5
INVARIANTS TypeOK ScreenShowsLine OneWriter StatusShowsTime
PROPERTY ImplementsLineInput
