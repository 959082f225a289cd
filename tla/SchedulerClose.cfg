\* One task that fails and is retried while Close runs.
SPECIFICATION UsedSpec
CONSTANTS
    a = a  b = b  c = c
    Tasks <- OneTask
    Once <- OneTask
    Deps <- NoDeps
    MaxRetries <- OneEach
    Retries <- OneRetry
    MaxRuns = 1
CHECK_DEADLOCK FALSE
INVARIANT
    AllExitBeforeClose
