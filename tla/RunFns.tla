------------------------------- MODULE RunFns -------------------------------
(***************************************************************************)
(* The KRM function runtime (pkg/container/runfn): which functions of a    *)
(* request are run, in which order, and with which command.                *)
(*                                                                         *)
(* A function is a record: path (the elements of the file it was read      *)
(* from, as numbers, the last one the file), index (its place in the file, *)
(* or BadIndex), spec (it has a function annotation), image, network,      *)
(* defer, env, and config, which the program in the image is given.  A     *)
(* request has the three sources of functions (input, paths, functions),   *)
(* network, timeout, env and continueOnEmpty.                              *)
(***************************************************************************)
EXTENDS Documents, SequencesExt, FiniteSetsExt, TLC

CONSTANTS
    FunctionsDir,   \* the number of the directory name "functions"
    BadIndex        \* an index annotation that is not a number

-----------------------------------------------------------------------------
(* Order.                                                                   *)

\* The directory a function is scoped to: a directory "functions" counts as
\* the one it is in.
scope(path) ==
    LET dir == Front(path)
    IN  IF dir # <<>> /\ Last(dir) = FunctionsDir THEN Front(dir) ELSE dir

\* Comparison of two directories of the same depth by name.
before(d, e) ==
    \E i \in 1..Len(d) : d[i] < e[i] /\ \A j \in 1..(i - 1) : d[j] = e[j]

BadPair(f, g) == f.path = g.path /\ BadIndex \in {f.index, g.index}

\* The comparison that sort.Slice is given: the index within a file,
\* otherwise the deeper directory first.  Functions of two files of one
\* directory are not ordered either way, whatever their indices.
lessMutant(f, g) ==
    IF BadPair(f, g) THEN FALSE
    ELSE IF f.path = g.path THEN f.index < g.index
    ELSE LET d == Front(f.path)
             e == Front(g.path)
         IN  IF Len(d) # Len(e) THEN Len(d) > Len(e) ELSE before(d, e)
less(f, g) ==
    IF BadPair(f, g) THEN FALSE
    ELSE IF f.path = g.path THEN f.index < g.index
    ELSE LET d == scope(f.path)
             e == scope(g.path)
         IN  IF Len(d) # Len(e) THEN Len(d) > Len(e) ELSE before(d, e)

\* One step of an insertion sort: f moves up to the last element it is not less
\* than.  An index that is not a number is an error if the pair is compared.
Insert(sorted, f) ==
    LET at(s) == Max({0} \cup {k \in 1..Len(s) : ~less(f, s[k])})
        place(s, k) ==
            IF \E j \in (IF k = 0 THEN 1 ELSE k)..Len(s) : BadPair(f, s[j])
            THEN Failure("index")
            ELSE Value(InsertAt(s, k + 1, f))
    IN  IF Failed(sorted) THEN sorted ELSE place(sorted.val, at(sorted.val))

insertionSort(fns) ==
    LET upTo[n \in 0..Len(fns)] ==
          IF n = 0 THEN Value(<<>>) ELSE Insert(upTo[n - 1], fns[n])
    IN  upTo[Len(fns)]

\* sort.Slice of Go 1.16 (Dockerfile:1) first compares the elements that are six
\* places apart, and those in the wrong order change places.
Gap == 6
Swapped(fns) == {n \in 1..(Len(fns) - Gap) : less(fns[n + Gap], fns[n])}
gapPass(fns) ==
    [n \in 1..Len(fns) |-> IF n \in Swapped(fns) THEN fns[n + Gap]
                          ELSE IF n - Gap \in Swapped(fns) THEN fns[n - Gap]
                          ELSE fns[n]]

\* Above twelve elements it is a quicksort or a heapsort: some order of the
\* functions or an error, of which nothing else is said.
MaxInsertion == 12
quickSort(fns) ==
    CHOOSE r \in {Failure("index")} \cup
                 {Value([n \in 1..Len(fns) |-> fns[g[n]]]) :
                     g \in Bijection(1..Len(fns), 1..Len(fns))} : TRUE

sortFns(fns) ==
    IF Len(fns) > MaxInsertion THEN quickSort(fns)
    ELSE IF \E n \in 1..(Len(fns) - Gap) : BadPair(fns[n + Gap], fns[n]) THEN Failure("index")
    ELSE insertionSort(gapPass(fns))

-----------------------------------------------------------------------------
(* Filters.                                                                 *)

\* Of a variable given both ways the one of the request counts.
mergeContainerEnv(request, function) == request @@ function

\* "nobody", or the user that runs the command, who may be unknown.
getUIDGID(asCurrentUser, known) ==
    IF ~asCurrentUser THEN Value("nobody")
    ELSE IF known THEN Value("uid:gid") ELSE Failure("user")

\* The command of a container: docker run --rm, its network, its user, its
\* environment, and timeout -s9 before it when there is a limit.
getCommand(r, f, user) ==
    [image |-> f.image, config |-> f.config, defer |-> f.defer,
     network |-> IF f.network THEN "host" ELSE "none",
     user |-> user,
     env |-> mergeContainerEnv(r.env, f.env),
     timeout |-> r.timeout]

\* The filters of some functions: no annotation and no image are skipped, a
\* function that needs the network of a request without it is an error.
getFunctionFilters(r, known, fns) ==
    LET uid == getUIDGID(TRUE, known)
        needed == {n \in 1..Len(fns) : fns[n].spec}
        imaged == {n \in needed : fns[n].image # Unset}
        found == Picked(fns, imaged)
    IN  IF \E n \in needed : fns[n].network /\ ~r.network THEN Failure("network")
        ELSE IF imaged # {} /\ Failed(uid) THEN Failure("user")
        ELSE Value([n \in 1..Len(found) |-> getCommand(r, found[n], uid.val)])

\* Functions of the input are taken only if no others are given.
NoFunctionsFromInput(r) == r.paths # <<>> \/ r.functions # <<>>

SpecsOf(fns) == Picked(fns, {n \in 1..Len(fns) : fns[n].spec})

getFunctionsFromInput(r, known) ==
    LET sorted == sortFns(SpecsOf(r.input))
    IN  IF NoFunctionsFromInput(r) THEN Value(<<>>)
        ELSE IF Failed(sorted) THEN sorted
        ELSE getFunctionFilters(r, known, sorted.val)

\* Functions of the input first, then those of the paths, then the explicit
\* ones.
getFilters(r, known) ==
    LET i == getFunctionsFromInput(r, known)
        p == getFunctionFilters(r, known, r.paths)
        f == getFunctionFilters(r, known, r.functions)
    IN  IF Failed(i) THEN i ELSE IF Failed(p) THEN p ELSE IF Failed(f) THEN f
        ELSE Value(i.val \o p.val \o f.val)

=============================================================================
