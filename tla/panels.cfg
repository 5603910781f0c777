SPECIFICATION FairSpec
CHECK_DEADLOCK FALSE
CONSTANTS
    a = a
    b = b
    Segments = {a, b}
    Topics <- SomeTopics
    Filters <- SomeFilters
    Interval = 2
    MaxSamples = 3
    success = success
    warning = warning
    error = error
    Kinds = {success, warning, error}
    Life <- Lives
    MaxAlerts = 4
    note = note
    image = image
    Files = {note, image}
    FileSize <- FileSizes
    PreviewSize = 1
    Texts = {t1, t2}
INVARIANTS
    TypeOK
    LeavesCounted
    StaleMeansRepaint
    FormConsistent
PROPERTIES
    PictureCatchesUp
    BannerKeepsTime
