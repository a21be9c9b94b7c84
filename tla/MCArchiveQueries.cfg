\* One thread, three data files and two channels, both servers.
CONSTANTS
    Worker = {t1}
    Name = {1, 2}
    File = {f1, f2, f3}
    Server = {"classic", "mongo"}
    MaxCount = 3
    MaxSamples = 3
    Requests <- MCRequests
SYMMETRY FileSymmetry
SPECIFICATION QueriesSpec
INVARIANTS UsersCounted FewOpenFiles ValuesFit
