CONSTANTS
    PausePolls = 1
    ReopenRetries = 1
    MaxErrors = 0
SPECIFICATION FairSpec
CHECK_DEADLOCK FALSE
PROPERTIES
    CommandsAreAnswered
    AudioResumes
    StopWorksOnceAudioRuns
