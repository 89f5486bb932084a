CONSTANTS
    Task = {main, t1, t2}
    Migratable = {t1, t2}
    NULL = null
SPECIFICATION FairSpec
PROPERTIES MutexGranted
CHECK_DEADLOCK FALSE
