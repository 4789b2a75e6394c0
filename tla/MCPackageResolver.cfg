SPECIFICATION Spec
CONSTANTS
    t1 = t1  t2 = t2  avatar = avatar  c1 = c1  c2 = c2
    face = face  hair = hair  twin = twin  blob = blob
    Threads = {t1, t2}
    Packages = {avatar}
    Caches = {c1, c2}
    Bytes = {face, hair, twin, blob}
    Hashes = {"h1", "h2"}
    Hash <- MCHash
    Sniffed <- MCSniffed
    Containers <- MCContainers

    Requests <- MCRequests
    MaxVersion = 1
    MaxDepth = 2
    Null = Null
SYMMETRY Symmetry
INVARIANTS TypeOK ServedUnderItsName ResolvedOpens NeverStale AuthoredResolves
