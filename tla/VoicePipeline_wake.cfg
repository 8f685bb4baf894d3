SPECIFICATION VoiceSpec
CONSTANTS
    MaxThreads = 1
    QueueSize = 1
    BufferChunks = 1
    Workers <- MCThreads
    Listeners <- MCThreads
    Loads <- MCWakeLoads
PROPERTIES
    WakeResumes
