CONSTANTS
    c1 = c1
    c2 = c2
    f1 = f1
    None = None
    Cams = {c1, c2}
    Files = {f1}
    MaxAdds = 1
    MaxFrames = 2
SPECIFICATION FairSpec
INVARIANTS TasksGoOn FilesEnrolled SearchIsQuiet IdsDistinct TasksGoneBeforeDelete
PROPERTIES FacesGoForward CamerasEnd
CHECK_DEADLOCK FALSE
