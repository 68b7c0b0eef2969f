SPECIFICATION FairCollectorSpec
CONSTANTS
    LineCount = 2
    MAX_CACHE = 2
    Formats = {"syslog", "multiline", "audit", "snort-full", "mysql_log", "postgresql_log", "multi-line_indented"}
    VCHECK_FILES = 0
    OPEN_ATTEMPTS = 0
    Inodes = {1, 2}
    MaxLines = 3
    Split = {2}
    Wide = {2}
    MaxCuts = 1
    MaxRefused = 1
    None = None
INVARIANTS
    ReaderInv
    SentOnceInOrder

PROPERTIES
    ReadsToTheEnd
    ReplacementIsOpened

CHECK_DEADLOCK FALSE
