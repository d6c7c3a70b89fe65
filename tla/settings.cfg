\* The default configuration and two others: what the ticker marshals, what the
\* user sets meanwhile and what is in the file can all differ.
SPECIFICATION Spec
CONSTANTS
    Values = {d, v1, v2}
    Default = d
    Absent = Absent
    Empty = Empty
    Malformed = Malformed
    NoBytes = NoBytes
INVARIANTS
    SavedOnExit
    CheckShowsEntry
