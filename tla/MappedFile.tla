----------------------------- MODULE MappedFile -----------------------------
(***************************************************************************)
(* The table of mapped files of libbu (src/src/libbu/mappedfile.c) and     *)
(* those of librt that keep something of their own in its entries:         *)
(*                                                                         *)
(*   db_open, db_close    src/src/librt/db_open.c   the struct db_i of a   *)
(*                        database open for reading, shared by its users   *)
(*   rt_ebm_import4       src/src/librt/primitives/ebm/ebm.c   the bitmap  *)
(*                        converted once and shared by its users           *)
(*                                                                         *)
(* There is one file, opened with three tags: NULL by those that read the  *)
(* raw bytes (textures), "ebm" and "db_i".  A name is compared the way a   *)
(* tag is.  A critical section is one action; everything the code reads    *)
(* or writes outside of one is an action of its own.                       *)
(***************************************************************************)
EXTENDS Naturals, Sequences, FiniteSets, FiniteSetsExt, SequencesExt

CONSTANTS
    Threads,    \* each keeps at most one file open
    Maps,       \* the struct bu_mapped_file there is memory for
    Dbs,        \* the struct db_i there is memory for
    Versions,   \* what st_size and st_mtime tell apart
    Short,      \* those of fewer bytes than an ebm's xdim*ydim
    Faults,     \* of "change", "remove", "getcwd"
    Apart,      \* pairs of operations that never overlap, see Starts
    MaxStray,   \* bound: how many uses of an entry may be lost
    None

Gone == 0                       \* the file is not on the disk
Tags == {"NULL", "ebm", "db_i"}

ASSUME VersionsAssumption == Gone \notin Versions
ASSUME ShortAssumption == Short \subseteq Versions /\ MaxStray \in Nat
ASSUME HeapAssumption == None \notin Maps \cup Dbs
ASSUME FiniteAssumption == IsFiniteSet(Threads) /\ IsFiniteSet(Dbs)

VARIABLES
    disk,       \* the version on the disk, or Gone
    table,      \* all_mapped_files
    map,        \* map[m]: the struct bu_mapped_file m; its apbuf is bitmap for
                \* the tag "ebm" and db for the tag "db_i"
    dbi,        \* dbi[d]: the struct db_i d
    pc,         \* pc[t]: where thread t is; "idle", or "has" the file open
    appl,       \* appl[t]: the tag it opens the file with
    mp,         \* mp[t]: its struct bu_mapped_file
    dbip,       \* dbip[t]: its struct db_i
    copy,       \* copy[t]: the version it has mapped and not yet entered
    seen,       \* seen[t]: versions the disk has had since t asked for an entry
                \* (a history variable)
    stray       \* stray[m]: uses of m whose user has left without giving them
                \* back (a history variable)

vars == <<disk, table, map, dbi, pc, appl, mp, dbip, copy, seen, stray>>

(* What bu_free_mapped_files leaves behind: memset to 0, then freed.       *)
FreeMap ==
    [live |-> FALSE, appl |-> "NULL", version |-> Gone, uses |-> 0, bitmap |-> "none", db |-> None]
FreeDbi == [live |-> FALSE, mf |-> None, uses |-> 0]

TypeOK ==
    /\ disk \in Versions \cup {Gone}
    /\ table \in Seq(Maps)
    /\ map \in [Maps ->
           [live : BOOLEAN, appl : Tags \cup {"_INVALID_"}, version : Versions \cup {Gone},
            uses : Nat, bitmap : {"none", "part", "whole"}, db : Dbs \cup {None}]]
    /\ dbi \in [Dbs -> [live : BOOLEAN, mf : Maps \cup {None}, uses : Nat]]
    /\ pc \in [Threads ->
           {"idle", "found", "incr", "stale", "map", "add", "opened", "lock", "convert",
            "reuse", "unuse", "init", "has", "close", "sweep", "free"}]
    /\ appl \in [Threads -> Tags]
    /\ mp \in [Threads -> Maps \cup {None}]
    /\ dbip \in [Threads -> Dbs \cup {None}]
    /\ copy \in [Threads -> Versions \cup {Gone}]
    /\ seen \in [Threads -> SUBSET (Versions \cup {Gone})]
    /\ stray \in [Maps -> Nat]

Init ==
    /\ disk \in Versions
    /\ table = <<>>
    /\ map = [m \in Maps |-> FreeMap]
    /\ dbi = [d \in Dbs |-> FreeDbi]
    /\ pc = [t \in Threads |-> "idle"]
    /\ appl = [t \in Threads |-> "NULL"]
    /\ mp = [t \in Threads |-> None]
    /\ dbip = [t \in Threads |-> None]
    /\ copy = [t \in Threads |-> Gone]
    /\ seen = [t \in Threads |-> {}]
    /\ stray = [m \in Maps |-> 0]

Busy(t) == pc[t] \notin {"idle", "has"}
Asks(t) == pc[t] \in {"found", "incr", "stale", "map", "add"}   \* has no use yet
Closes(t) == pc[t] \in {"close", "sweep", "free"}

(* What a busy thread does: to open or close with a tag, and perhaps to    *)
(* reclaim unused files, "free".                                           *)
Doing(t) == {appl[t]} \cup (IF Closes(t) THEN {"free"} ELSE {})

(* The operation begins, unless one it is to be kept apart from is under   *)
(* way: Apart holds {a, b} for two kinds that never overlap, {a} for one   *)
(* that never overlaps itself.                                             *)
Starts(t, op) ==
    \A u \in Threads \ {t} : Busy(u) => \A other \in Doing(u) : {op, other} \notin Apart

Goto(t, label) == pc' = [pc EXCEPT ![t] = label]

(* Memory the allocator may hand out: nothing refers to it any more.       *)
UnusedMaps ==
    {m \in Maps : /\ ~map[m].live
                  /\ \A t \in Threads : mp[t] # m
                  /\ \A d \in Dbs : dbi[d].mf # m}
UnusedDbs ==
    {d \in Dbs : /\ ~dbi[d].live
                 /\ \A t \in Threads : dbip[t] # d
                 /\ \A m \in Maps : map[m].db # d}

Has(t) == Goto(t, "has")        \* back from its call, with the file open

(* The thread has its entry.  A user without a tag has the file with it,   *)
(* the others go on.                                                       *)
Opened(t) ==
    /\ Goto(t, IF appl[t] = "NULL" THEN "has" ELSE "opened")
    /\ seen' = [seen EXCEPT ![t] = {}]

(* The thread is back from its call without a file.                        *)
Returns(t) ==
    /\ Goto(t, "idle")
    /\ mp' = [mp EXCEPT ![t] = None]
    /\ dbip' = [dbip EXCEPT ![t] = None]
    /\ copy' = [copy EXCEPT ![t] = Gone]
    /\ seen' = [seen EXCEPT ![t] = {}]
    /\ appl' = [appl EXCEPT ![t] = "NULL"]

-----------------------------------------------------------------------------
(* What plausible bugs would do; not part of the specification.            *)

BugValidate(t) ==           \* only that there was a file is remembered
    /\ pc[t] = "found"
    /\ Goto(t, "incr")
    /\ UNCHANGED <<disk, table, map, dbi, appl, mp, dbip, copy, seen, stray>>

BugInvalidate(t) ==         \* the old entry keeps its tag
    /\ pc[t] = "stale"
    /\ mp' = [mp EXCEPT ![t] = None]
    /\ Goto(t, "map")
    /\ UNCHANGED <<disk, table, map, dbi, appl, dbip, copy, seen, stray>>

BugAllocateBitmap(t) ==     \* no second look under the semaphore
    /\ pc[t] = "lock"
    /\ map' = [map EXCEPT ![mp[t]].bitmap = "part"]
    /\ Goto(t, "convert")
    /\ UNCHANGED <<disk, table, dbi, appl, mp, dbip, copy, seen, stray>>

BugGiveBack(t) ==           \* the shared db_i and the file are both counted
    /\ pc[t] = "unuse"
    /\ mp' = [mp EXCEPT ![t] = None]
    /\ Has(t)
    /\ UNCHANGED <<disk, table, map, dbi, appl, dbip, copy, seen, stray>>

BugCloseDb(t) ==            \* the database is closed under its other users
    /\ pc[t] = "has"
    /\ appl[t] = "db_i"
    /\ Starts(t, "db_i")
    /\ dbi' = [dbi EXCEPT ![dbip[t]].uses = @ - 1]
    /\ Goto(t, "close")
    /\ UNCHANGED <<disk, table, map, appl, mp, dbip, copy, seen, stray>>

-----------------------------------------------------------------------------
(* bu_open_mapped_file *)

(* mapped_file_find: the first entry with the tag, None if there is none.  *)
Entry(a) ==
    LET Hits == {i \in DOMAIN table : map[table[i]].appl = a}
    IN  IF Hits = {} THEN None ELSE table[Min(Hits)]

Find(t, a) ==
    /\ pc[t] = "idle"
    /\ Starts(t, a)
    /\ appl' = [appl EXCEPT ![t] = a]
    /\ mp' = [mp EXCEPT ![t] = Entry(a)]
    /\ seen' = [seen EXCEPT ![t] = {disk}]
    /\ Goto(t, IF Entry(a) = None THEN "map" ELSE "found")
    /\ UNCHANGED <<disk, table, map, dbi, dbip, copy, stray>>

(* mapped_file_is_valid, which holds no semaphore of the table: a file     *)
(* that has vanished leaves its copy good.                                 *)
Validate(t) ==
    /\ pc[t] = "found"
    /\ Goto(t, IF disk \in {Gone, map[mp[t]].version} THEN "incr" ELSE "stale")
    /\ UNCHANGED <<disk, table, map, dbi, appl, mp, dbip, copy, seen, stray>>


(* mapped_file_incr *)
Increment(t) ==
    /\ pc[t] = "incr"
    /\ map' = [map EXCEPT ![mp[t]].uses = @ + 1]
    /\ Opened(t)
    /\ UNCHANGED <<disk, table, dbi, appl, mp, dbip, copy, stray>>

(* mapped_file_invalidate: no later open finds the entry.                  *)
Invalidate(t) ==
    /\ pc[t] = "stale"
    /\ map' = [map EXCEPT ![mp[t]].appl = "_INVALID_"]
    /\ mp' = [mp EXCEPT ![t] = None]
    /\ Goto(t, "map")
    /\ UNCHANGED <<disk, table, dbi, appl, dbip, copy, seen, stray>>

(* The file is opened and mapped, or read, into a local structure.         *)
MapFile(t) ==
    /\ pc[t] = "map"
    /\ disk # Gone
    /\ UnusedMaps # {}
    /\ copy' = [copy EXCEPT ![t] = disk]
    /\ Goto(t, "add")
    /\ UNCHANGED <<disk, table, map, dbi, appl, mp, dbip, seen, stray>>

(* The file is missing, empty, or cannot be opened, examined or read.      *)
OpenFails(t) ==
    /\ pc[t] = "map"
    /\ Returns(t)
    /\ UNCHANGED <<disk, table, map, dbi, stray>>

(* mapped_file_add; the table grows as needed.                             *)
Add(t) ==
    /\ pc[t] = "add"
    /\ \E m \in UnusedMaps :
          /\ map' = [map EXCEPT ![m] =
                [FreeMap EXCEPT !.live = TRUE, !.appl = appl[t], !.version = copy[t], !.uses = 1]]
          /\ table' = Append(table, m)
          /\ mp' = [mp EXCEPT ![t] = m]
    /\ copy' = [copy EXCEPT ![t] = Gone]
    /\ Opened(t)
    /\ UNCHANGED <<disk, dbi, appl, dbip, stray>>

-----------------------------------------------------------------------------
(* bu_close_mapped_file and bu_free_mapped_files *)

Released(files, m) == [files EXCEPT ![m].uses = @ - 1]

Close(t) ==
    /\ pc[t] = "has"
    /\ appl[t] # "db_i"
    /\ Starts(t, appl[t])
    /\ map' = Released(map, mp[t])
    /\ Returns(t)
    /\ UNCHANGED <<disk, table, dbi, stray>>

(* bu_free_mapped_files: entries without users leave the table, the others *)
(* keep their order.                                                       *)
Swept(files) ==
    LET kept[n \in 0 .. Len(table)] ==
            IF n = 0 THEN <<>>
            ELSE IF files[table[n]].uses > 0 THEN Append(kept[n - 1], table[n])
            ELSE kept[n - 1]
    IN  kept[Len(table)]

Sweep(files) ==
    /\ table' = Swept(files)
    /\ map' = [m \in Maps |-> IF m \in ToSet(table) \ ToSet(Swept(files))
                              THEN FreeMap ELSE files[m]]

(* A user frees what is not in use, as tests/mappedfile.c and librt's      *)
(* rt_cache_close do.                                                      *)
Free(t) ==
    /\ pc[t] = "idle"
    /\ Starts(t, "free")
    /\ Sweep(map)
    /\ UNCHANGED <<disk, dbi, pc, appl, mp, dbip, copy, seen, stray>>

-----------------------------------------------------------------------------
(* rt_ebm_import4: the bitmap is converted by the first to import it.      *)

(* The file is too short: the import fails without bu_close_mapped_file.   *)
TooShort(t) ==
    /\ pc[t] = "opened"
    /\ appl[t] = "ebm"
    /\ map[mp[t]].version \in Short
    /\ stray[mp[t]] < MaxStray
    /\ stray' = [stray EXCEPT ![mp[t]] = @ + 1]
    /\ Returns(t)
    /\ UNCHANGED <<disk, table, map, dbi>>

CheckBitmap(t) ==
    /\ pc[t] = "opened"
    /\ appl[t] = "ebm"
    /\ map[mp[t]].version \notin Short
    /\ IF map[mp[t]].bitmap = "none" THEN Goto(t, "lock") ELSE Has(t)
    /\ UNCHANGED <<disk, table, map, dbi, appl, mp, dbip, copy, seen, stray>>

(* Under RT_SEM_MODEL: someone else may have been faster.                  *)
AllocateBitmap(t) ==
    /\ pc[t] = "lock"
    /\ IF map[mp[t]].bitmap = "none"
       THEN /\ map' = [map EXCEPT ![mp[t]].bitmap = "part"]
            /\ Goto(t, "convert")
       ELSE /\ Has(t)
            /\ UNCHANGED map
    /\ UNCHANGED <<disk, table, dbi, appl, mp, dbip, copy, seen, stray>>

(* The scanlines are copied after the semaphore has been released.         *)
ConvertBitmap(t) ==
    /\ pc[t] = "convert"
    /\ map' = [map EXCEPT ![mp[t]].bitmap = "whole"]
    /\ Has(t)
    /\ UNCHANGED <<disk, table, dbi, appl, mp, dbip, copy, seen, stray>>

-----------------------------------------------------------------------------
(* db_open for reading, and db_close *)

(* A database that is open already is shared.                              *)
ReadApbuf(t) ==
    /\ pc[t] = "opened"
    /\ appl[t] = "db_i"
    /\ map[mp[t]].db # None
    /\ dbip' = [dbip EXCEPT ![t] = map[mp[t]].db]
    /\ Goto(t, "reuse")
    /\ UNCHANGED <<disk, table, map, dbi, appl, mp, copy, seen, stray>>

ShareDb(t) ==
    /\ pc[t] = "reuse"
    /\ dbi' = [dbi EXCEPT ![dbip[t]].uses = @ + 1]
    /\ Goto(t, "unuse")
    /\ UNCHANGED <<disk, table, map, appl, mp, dbip, copy, seen, stray>>

(* The use of the file is given back: the one of the db_i counts.          *)
GiveBack(t) ==
    /\ pc[t] = "unuse"
    /\ map' = Released(map, mp[t])
    /\ mp' = [mp EXCEPT ![t] = None]
    /\ Has(t)
    /\ UNCHANGED <<disk, table, dbi, appl, dbip, copy, seen, stray>>

NewDb(t) ==
    /\ pc[t] = "opened"
    /\ appl[t] = "db_i"
    /\ map[mp[t]].db = None
    /\ \E d \in UnusedDbs :
          /\ dbi' = [dbi EXCEPT ![d] = [live |-> TRUE, mf |-> mp[t], uses |-> 0]]
          /\ map' = [map EXCEPT ![mp[t]].db = d]
          /\ dbip' = [dbip EXCEPT ![t] = d]
    /\ mp' = [mp EXCEPT ![t] = None]
    /\ Goto(t, "init")
    /\ UNCHANGED <<disk, table, appl, copy, seen, stray>>

InitDb(t) ==
    /\ pc[t] = "init"
    /\ dbi' = [dbi EXCEPT ![dbip[t]].uses = 1]
    /\ Has(t)
    /\ UNCHANGED <<disk, table, map, appl, mp, dbip, copy, seen, stray>>

(* getcwd fails: the file is given back, unused files are reclaimed and    *)
(* the db_i, whose one use is the caller's own, is freed.                  *)
GetcwdFails(t) ==
    /\ pc[t] = "init"
    /\ "getcwd" \in Faults
    /\ Starts(t, "free")
    /\ Goto(t, "close")
    /\ UNCHANGED <<disk, table, map, dbi, appl, mp, dbip, copy, seen, stray>>

(* db_close, of which only the last user's call goes on.                   *)
CloseDb(t) ==
    /\ pc[t] = "has"
    /\ appl[t] = "db_i"
    /\ Starts(t, "db_i")
    /\ dbi' = [dbi EXCEPT ![dbip[t]].uses = @ - 1]
    /\ IF dbi[dbip[t]].uses > 1
       THEN Returns(t)
       ELSE Starts(t, "free") /\ Goto(t, "close") /\ UNCHANGED <<appl, mp, dbip, copy, seen>>
    /\ UNCHANGED <<disk, table, map, stray>>

CloseDbFile(t) ==
    /\ pc[t] = "close"
    /\ map' = Released(map, dbi[dbip[t]].mf)
    /\ Goto(t, "sweep")
    /\ UNCHANGED <<disk, table, dbi, appl, mp, dbip, copy, seen, stray>>

SweepDbFile(t) ==
    /\ pc[t] = "sweep"
    /\ Sweep(map)
    /\ dbi' = [dbi EXCEPT ![dbip[t]].mf = None]
    /\ Goto(t, "free")
    /\ UNCHANGED <<disk, appl, mp, dbip, copy, seen, stray>>

FreeDb(t) ==
    /\ pc[t] = "free"
    /\ dbi' = [dbi EXCEPT ![dbip[t]] = FreeDbi]
    /\ Returns(t)
    /\ UNCHANGED <<disk, table, map, stray>>

-----------------------------------------------------------------------------

(* Somebody writes, replaces or removes the file.                          *)
FileChanges ==
    /\ disk' \in (IF "change" \in Faults THEN Versions ELSE {})
                 \cup (IF "remove" \in Faults THEN {Gone} ELSE {})
    /\ disk' # disk
    /\ seen' = [t \in Threads |-> IF seen[t] = {} THEN {} ELSE seen[t] \cup {disk'}]
    /\ UNCHANGED <<table, map, dbi, pc, appl, mp, dbip, copy, stray>>

Next ==
    \/ \E t \in Threads :
          \/ \E a \in Tags : Find(t, a)
          \/ Validate(t) \/ Increment(t) \/ Invalidate(t)
          \/ MapFile(t) \/ OpenFails(t) \/ Add(t)
          \/ Close(t) \/ Free(t)
          \/ TooShort(t) \/ CheckBitmap(t) \/ AllocateBitmap(t) \/ ConvertBitmap(t)
          \/ ReadApbuf(t) \/ ShareDb(t) \/ GiveBack(t)
          \/ NewDb(t) \/ InitDb(t) \/ GetcwdFails(t)
          \/ CloseDb(t) \/ CloseDbFile(t) \/ SweepDbFile(t) \/ FreeDb(t)
    \/ FileChanges

Spec == Init /\ [][Next]_vars

-----------------------------------------------------------------------------

(* Nobody is left with a pointer to freed memory: an entry found in the    *)
(* table or held by a user, a database and the mapped file it reads from,  *)
(* and the database that is an entry's apbuf are there (mapped_file_find,  *)
(* which lets go of the semaphore before mapped_file_incr takes it;        *)
(* db_close; the test parallel_with_free of tests/mappedfile.c).           *)
NothingDangling ==
    /\ \A t \in Threads : mp[t] # None => map[mp[t]].live
    /\ \A t \in Threads : dbip[t] # None => dbi[dbip[t]].live
    /\ \A d \in Dbs : dbi[d].mf # None => map[dbi[d].mf].live
    /\ \A m \in Maps : map[m].db # None => dbi[map[m].db].live

(* A file's uses are the pointers handed out, never fewer (it would be     *)
(* freed under a user), and more (its memory can never be reclaimed) by    *)
(* exactly one for each rt_ebm_import4 that found the file too short: what *)
(* its missing bu_close_mapped_file keeps alive is the entry of a version  *)
(* too short and tagged "ebm", perhaps invalid since, and nothing else.  A *)
(* database's uses are the users that share it.                            *)
UsesCounted ==
    /\ \A m \in Maps : map[m].uses =
          Cardinality({t \in Threads : mp[t] = m /\ ~Asks(t)})
          + Cardinality({d \in Dbs : /\ dbi[d].mf = m
                                     /\ \A t \in Threads : ~(dbip[t] = d /\ pc[t] = "sweep")})
          + stray[m]
    /\ \A m \in Maps : stray[m] > 0 =>
          map[m].live /\ map[m].appl \in {"ebm", "_INVALID_"} /\ map[m].version \in Short
    /\ \A d \in Dbs : dbi[d].uses =
          Cardinality({t \in Threads : dbip[t] = d /\ pc[t] \in {"unuse", "has"}})

(* The entry a user is given has a version the file has had since it       *)
(* asked; only when the file is missing may it be an older one             *)
(* (mapped_file_is_valid).                                                 *)
FreshCopy ==
    [][\A t \in Threads :
          Asks(t) /\ pc'[t] \in {"has", "opened"} =>
              {map'[mp'[t]].version, Gone} \cap seen[t] # {}]_vars

(* Opening a database that has not changed never makes a second db_i of    *)
(* it: at most one entry of the table answers to the tag.                  *)
OneDatabase ==
    Cardinality({i \in DOMAIN table : map[table[i]].appl = "db_i"}) <= 1

(* A bitmap is converted once, and when no import is under way every one   *)
(* is whole (rt_ebm_import4 allocates it under RT_SEM_MODEL and fills it   *)
(* after).                                                                 *)
ConvertedOnce ==
    /\ \A m \in Maps : map[m].bitmap = "part" =>
          \E t \in Threads : pc[t] = "convert" /\ mp[t] = m
    /\ \A t, u \in Threads :
          pc[t] = "convert" /\ pc[u] = "convert" /\ mp[t] = mp[u] => t = u
    /\ \A t \in Threads :
          pc[t] = "has" /\ appl[t] = "ebm" => map[mp[t]].bitmap # "none"

=============================================================================
