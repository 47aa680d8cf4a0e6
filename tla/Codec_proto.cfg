CONSTANTS
    Services = {"User", "File", "UploadLog"}
    Methods = {"Get", "Put"}
    Uploads = {"UploadLog"}
    Topics = {"t1", "t2"}
    None = None
    Values <- MCValues
    Zero = 0
    Answer <- MCAnswer
SPECIFICATION Spec
CHECK_DEADLOCK FALSE
INVARIANT SupportedCodecRoundTrip
