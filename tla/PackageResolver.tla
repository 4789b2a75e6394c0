-------------------------- MODULE PackageResolver --------------------------
(***************************************************************************)
(* UsdVrmPackageResolver: Resolve and OpenAsset on the images of a .vrm    *)
(* package, with the per-thread scoped caches of Ar, while the importer    *)
(* authors references and the package is rewritten on disk.                *)
(*                                                                         *)
(* A call finds the package's index in the cache of the calling thread's   *)
(* innermost scope, or builds it from the file and inserts it; without a   *)
(* scope it builds it every time.  Nothing locks a cache: when two threads *)
(* share one, an insert that overlaps another access of the map is a data  *)
(* race, here a missed lookup or a lost entry.                             *)
(***************************************************************************)
EXTENDS EmbeddedImages

CONSTANTS Threads,
          Packages,     \* paths of .vrm files
          Requests,     \* the packaged paths callers ask for
          Containers,   \* what may be written there
          Caches,       \* cache objects
          Null,         \* no cache, no index, no asset
          MaxVersion,   \* how often a package is rewritten (a bound of the model)
          MaxDepth      \* how deep a thread nests scopes (a bound of the model)

ASSUME ResolverAssumption ==
    /\ Containers \subseteq Container
    /\ Requests \subseteq Names
    /\ Null \notin Bytes \cup Caches
    /\ MaxVersion \in Nat /\ MaxDepth \in Nat

VARIABLES files,      \* files[p]: the package on disk and how often it changed
          stacks,     \* stacks[t]: the caches of the scopes open on thread t
          caches,     \* caches[c]: a _ResolverCache
          calls,      \* calls[t]: the call thread t is in
          answer      \* what the last step answered, when it returned a call (auxiliary)

vars == <<files, stacks, caches, calls, answer>>

(* An index.  Auxiliary: the version of the package it was built from, and the
   names the importer authors from that version. *)
Snapshot(file) == [images |-> PackageIndex(file.container), version |-> file.version,
                   authored |-> Authored(file.container)]

(* A cache: the indexes by package.  Auxiliary: the versions of the packages
   when it was created, whether a second thread opened a scope on it, and the
   names Resolve found through it. *)
Cache(versions) == [packages |-> [p \in Packages |-> Null], born |-> versions,
                    shared |-> FALSE, granted |-> {}]

\* A cache no scope holds any more: the last scope destroyed it.
Released == Cache([p \in Packages |-> 0])

Idle == [at |-> "idle"]

Unasked == [op |-> "none"]

Init ==
    /\ \E container \in [Packages -> Containers] :
          files = [p \in Packages |-> [version |-> 0, container |-> container[p]]]
    /\ stacks = [t \in Threads |-> << >>]
    /\ caches = [c \in Caches |-> Released]
    /\ calls = [t \in Threads |-> Idle]
    /\ answer = Unasked

-----------------------------------------------------------------------------
(* The package on disk *)

Rewrite(p) ==
    /\ files[p].version < MaxVersion
    /\ \E container \in Containers :
          files' = [files EXCEPT ![p] = [version |-> files[p].version + 1,
                                         container |-> container]]
    /\ answer' = Unasked
    /\ UNCHANGED <<stacks, caches, calls>>

-----------------------------------------------------------------------------
(* Cache scopes (ArThreadLocalScopedCache) *)

InUse(open) == {c \in Caches : \E t \in Threads : \E k \in DOMAIN open[t] : open[t][k] = c}

\* Variant: a cache that answers outside its scope too.
LingeringCache(t) ==
    IF stacks[t] = << >> THEN CHOOSE c \in Caches : TRUE ELSE stacks[t][Len(stacks[t])]

GetCurrentCache(t) == IF stacks[t] = << >> THEN Null ELSE stacks[t][Len(stacks[t])]

CanBegin(t) == calls[t].at = "idle" /\ Len(stacks[t]) < MaxDepth

(* The outermost scope of a thread gets a cache of its own, a nested one the
   enclosing scope's. *)
BeginCacheScope(t) ==
    /\ CanBegin(t)
    /\ \/ /\ stacks[t] = << >>
          /\ \E c \in Caches \ InUse(stacks) :
                /\ stacks' = [stacks EXCEPT ![t] = <<c>>]
                /\ caches' = [caches EXCEPT ![c] =
                                  Cache([p \in Packages |-> files[p].version])]
       \/ /\ stacks[t] # << >>
          /\ stacks' = [stacks EXCEPT ![t] = Append(stacks[t], GetCurrentCache(t))]
          /\ UNCHANGED caches
    /\ answer' = Unasked
    /\ UNCHANGED <<files, calls>>

\* Variant: scope data with no cache in it is shared like any other.
BeginEmptySharedScope(t, u) ==
    /\ CanBegin(t)
    /\ t # u
    /\ stacks' = [stacks EXCEPT ![t] = Append(stacks[t], GetCurrentCache(u))]
    /\ caches' = [c \in Caches |-> IF c = GetCurrentCache(u)
                                   THEN [caches[c] EXCEPT !.shared = TRUE] ELSE caches[c]]
    /\ answer' = Unasked
    /\ UNCHANGED <<files, calls>>

(* The scope data of a scope on thread u is handed to one that t opens. *)
BeginSharedScope(t, u) ==
    /\ CanBegin(t)
    /\ t # u
    /\ stacks[u] # << >>
    /\ stacks' = [stacks EXCEPT ![t] = Append(stacks[t], GetCurrentCache(u))]
    /\ caches' = [caches EXCEPT ![GetCurrentCache(u)].shared = TRUE]
    /\ answer' = Unasked
    /\ UNCHANGED <<files, calls>>

EndCacheScope(t) ==
    /\ calls[t].at = "idle"
    /\ stacks[t] # << >>
    /\ stacks' = [stacks EXCEPT ![t] = SubSeq(stacks[t], 1, Len(stacks[t]) - 1)]
    /\ caches' = [c \in Caches |-> IF c \in InUse(stacks') THEN caches[c] ELSE Released]
    /\ answer' = Unasked
    /\ UNCHANGED <<files, calls>>

-----------------------------------------------------------------------------
(* Resolve and OpenAsset *)

Found(snapshot, name) == name \in DOMAIN snapshot.images

\* Resolve answers the path, OpenAsset the asset over the image's bytes.
Answer(call, snapshot) ==
    [op |-> call.op, package |-> call.package, name |-> call.name,
     found |-> Found(snapshot, call.name),
     asset |-> IF call.op = "open" /\ Found(snapshot, call.name)
               THEN snapshot.images[call.name] ELSE Null,
     authored |-> call.name \in snapshot.authored,
     version |-> snapshot.version, since |-> call.since,
     owed |-> /\ call.cache # Null
              /\ call.op = "open"
              /\ ~caches[call.cache].shared
              /\ <<call.package, call.name>> \in caches[call.cache].granted]

Granted(call, snapshot) ==
    IF call.op = "resolve" /\ Found(snapshot, call.name)
    THEN {<<call.package, call.name>>} ELSE {}

\* Another thread is inside packages[path] = index on the same map.
Racing(t, c) == \E u \in Threads \ {t} : calls[u].at = "insert" /\ calls[u].cache = c

Cached(c, p) == c # Null /\ caches[c].packages[p] # Null

\* The call as FindOrBuildPackageIndex sees it, with the oldest version of the
\* package its answer may come from (auxiliary).
Enter(t, op, p, name, c) ==
    [at |-> "build", op |-> op, package |-> p, name |-> name, cache |-> c,
     since |-> IF stacks[t] = << >> THEN files[p].version ELSE caches[c].born[p],
     snapshot |-> Null]

\* The lookup hits: answer from the cached index.
FindCached(t, op, p, name) ==
    LET c == GetCurrentCache(t)
        call == Enter(t, op, p, name, c)
    IN  /\ calls[t].at = "idle"
        /\ Cached(c, p)
        /\ answer' = Answer(call, caches[c].packages[p])
        /\ caches' = [caches EXCEPT ![c].granted =
                                        @ \cup Granted(call, caches[c].packages[p])]
        /\ UNCHANGED <<files, stacks, calls>>

\* There is no scope, or the lookup misses.
FindMissing(t, op, p, name) ==
    LET c == GetCurrentCache(t)
    IN  /\ calls[t].at = "idle"
        /\ ~Cached(c, p) \/ Racing(t, c)
        /\ calls' = [calls EXCEPT ![t] = Enter(t, op, p, name, c)]
        /\ answer' = Unasked
    /\ UNCHANGED <<files, stacks, caches>>

BuildPackageIndex(t) ==
    /\ calls[t].at = "build"
    /\ calls' = [calls EXCEPT ![t].at = "insert",
                              ![t].snapshot = Snapshot(files[calls[t].package])]
    /\ answer' = Unasked
    /\ UNCHANGED <<files, stacks, caches>>

\* Variant: nothing is cached.
KeptNot(t) == {caches[calls[t].cache].packages[calls[t].package]}

\* The index that is cached: the new one, or under a race what was there.
Kept(t) ==
    {calls[t].snapshot} \cup
        (IF Racing(t, calls[t].cache)
         THEN {caches[calls[t].cache].packages[calls[t].package]} ELSE {})

InsertPackageIndex(t) ==
    /\ calls[t].at = "insert"
    /\ answer' = Answer(calls[t], calls[t].snapshot)
    /\ calls' = [calls EXCEPT ![t] = Idle]
    /\ \/ calls[t].cache = Null /\ UNCHANGED caches
       \/ /\ calls[t].cache # Null
          /\ \E kept \in Kept(t) :
                caches' = [caches EXCEPT
                    ![calls[t].cache].packages[calls[t].package] = kept,
                    ![calls[t].cache].granted = @ \cup Granted(calls[t], calls[t].snapshot)]
    /\ UNCHANGED <<files, stacks>>

Next ==
    \/ \E p \in Packages : Rewrite(p)
    \/ \E t \in Threads :
          \/ BeginCacheScope(t)
          \/ \E u \in Threads : BeginSharedScope(t, u)
          \/ EndCacheScope(t)
          \/ \E op \in {"resolve", "open"}, p \in Packages, name \in Requests :
                FindCached(t, op, p, name) \/ FindMissing(t, op, p, name)
          \/ BuildPackageIndex(t)
          \/ InsertPackageIndex(t)

Spec == Init /\ [][Next]_vars

-----------------------------------------------------------------------------
(* Properties *)

Versioned == [version : 0..MaxVersion, container : Containers]

Snapshots == {Snapshot(file) : file \in Versioned}

ASSUME NullAssumption == Null \notin Snapshots

CacheType == [packages : [Packages -> Snapshots \cup {Null}],
              born : [Packages -> 0..MaxVersion],
              shared : BOOLEAN, granted : SUBSET (Packages \X Requests)]

InCall(places, snapshots) ==
    [at : places, op : {"resolve", "open"}, package : Packages, name : Requests,
     cache : Caches \cup {Null}, since : 0..MaxVersion, snapshot : snapshots]

(* Variables have their types: every index that a cache or a returning call
   holds was built from some version of some package. *)
TypeOK ==
    /\ files \in [Packages -> Versioned]
    /\ stacks \in [Threads -> Seq(Caches)]
    /\ caches \in [Caches -> CacheType]
    /\ calls \in [Threads -> {Idle} \cup InCall({"build"}, {Null})
                                    \cup InCall({"insert"}, Snapshots)]

Replied == answer # Unasked

Opened == Replied /\ answer.op = "open"

Serves(name, bytes) == Hash[bytes] = name.hash /\ Sniffed[bytes] \in {name.ext, "none"}

(* The asset served under a content-addressed name is an image of that
   content, whatever was rewritten, cached, shared or lost meanwhile:
   OpenAsset looks the name up again and may see another version of the
   package than Resolve did. *)
ServedUnderItsName == Opened /\ answer.found => Serves(answer.name, answer.asset)

(* What Resolve found in a scope OpenAsset opens in it, although the package
   was rewritten or became unreadable in between: OpenAsset answers from the
   index Resolve used.  A scope shared with another thread gives no such
   promise, for each thread may build its own index and the last one stays. *)
ResolvedOpens == Opened /\ answer.owed => answer.found

(* No answer is older than the scope it was given in, or than the call when
   there is no scope: an index must not outlive the outermost scope. *)
NeverStale == Replied => answer.version >= answer.since

(* The importer and the resolver name images by separate code.  Every name
   the importer authored from a version of the package is found by a call
   whose index was built from that version. *)
AuthoredResolves == Replied /\ answer.authored => answer.found

-----------------------------------------------------------------------------
(* Why the properties hold: the parts of an inductive invariant *)

Holds(t, c) == \E k \in DOMAIN stacks[t] : stacks[t][k] = c

\* Only one thread has scopes on a cache that was not shared.
ScopesOwned ==
    \A c \in Caches : ~caches[c].shared =>
        \A t, u \in Threads : Holds(t, c) /\ Holds(u, c) => t = u

(* A call works on the cache of its thread's innermost scope.  If that cache is
   not shared, the package it is building an index for is not in it. *)
CallsInScope ==
    \A t \in Threads : calls[t] # Idle =>
        /\ calls[t].cache = GetCurrentCache(t)
        /\ calls[t].cache # Null /\ ~caches[calls[t].cache].shared =>
              caches[calls[t].cache].packages[calls[t].package] = Null

\* What Resolve found in a cache that is not shared is still in it.
GrantsKept ==
    \A c \in Caches : ~caches[c].shared =>
        \A g \in caches[c].granted :
            /\ caches[c].packages[g[1]] # Null
            /\ Found(caches[c].packages[g[1]], g[2])

\* Indexes are no older than their cache, and calls know how old theirs may be.
CachesFresh ==
    \A c \in Caches : \A p \in Packages :
        /\ caches[c].born[p] <= files[p].version
        /\ caches[c].packages[p] # Null =>
              caches[c].packages[p].version >= caches[c].born[p]

CallsFresh ==
    \A t \in Threads : calls[t] # Idle =>
        /\ calls[t].since <= files[calls[t].package].version
        /\ calls[t].at = "insert" => calls[t].snapshot.version >= calls[t].since
        /\ calls[t].cache # Null =>
              calls[t].since = caches[calls[t].cache].born[calls[t].package]
=============================================================================
