CONSTANTS
    Last = 2
    Stoppers = {1, 2}
    None = None
    Systems = {"linux", "apple", "windows", "android"}
    Equipment = {{"stream"}, {"stream", "espeak"}, {"piper", "voice", "stream"},
                 {"piper", "voice", "file"}, {"synthesiser"}}
    Spared = {2}
    Arriving = {"piper", "voice"}
SPECIFICATION Spec
INVARIANT Honest
INVARIANT Quiet
PROPERTY StopEnds
CHECK_DEADLOCK FALSE
