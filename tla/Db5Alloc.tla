------------------------------ MODULE Db5Alloc ------------------------------
(***************************************************************************)
(* Storage in a .g file, a BRL-CAD v5 database.                            *)
(*                                                                         *)
(*   db5_alloc.c   src/src/librt/   storage for an object, free objects    *)
(*   db_alloc.c    src/src/librt/   db_delete                              *)
(*   db5_io.c      src/src/librt/   db_put_external5, reading an object    *)
(*   db_io.c       src/src/librt/   db_write                               *)
(*   db5_scan.c    src/src/librt/   the scan of a file when it is opened   *)
(*                                                                         *)
(* A file is a chain of objects, each of which begins with its length and  *)
(* ends with a magic byte; free storage is objects too.  The directory,    *)
(* the map of free storage and the end of the file are kept in memory, and *)
(* rebuilt by a scan.  An operation makes up to five writes one after the  *)
(* other, and the program may be killed before, between and during them.   *)
(*                                                                         *)
(* The unit of addresses and lengths is 8 bytes, to which objects are      *)
(* aligned; unit 0 is the header of the file.                              *)
(***************************************************************************)
EXTENDS MemMap, FiniteSets

CONSTANTS
    Names,
    Lengths,    \* of the objects that are put
    Versions,   \* of an object of a given length
    MaxEnd,     \* bound: the file does not grow beyond it
    MaxCrashes, \* bound: the program is killed that often
    Large,      \* longer free objects get header and trailer only (8192 bytes)
    None

ASSUME ConstantsAssumption ==
    /\ Lengths \subseteq Nat \ {0}
    /\ MaxEnd \in Nat \ {0} /\ MaxCrashes \in Nat /\ Large \in Nat \ {0, 1}
    /\ None \notin Names

VARIABLES
    file,       \* the units of the file
    file_end,   \* its length
    dir,        \* d_addr and d_len of each directory entry
    dbi_freep, dbi_eof, dbi_read_only,
    pc,         \* the write that comes next
    half,       \* whether the header of a large free object has been written
    op,         \* the object that is put or deleted
    pos,        \* how far the scan has come
    store,      \* what was last put, for each name
    lost,       \* the names whose last operation was cut short
    crashes,
    torn        \* the kinds of delicate writes that were cut short

disk == <<file, file_end>>
memory == <<dir, dbi_freep, dbi_eof, dbi_read_only>>
history == <<store, lost, crashes, torn>>
vars == <<disk, memory, pc, half, op, pos, history>>

PhonyAddr == -1
Absent == [addr |-> PhonyAddr, len |-> 0]
Start == 1

Content == [name : Names, len : Lengths, version : Versions]
Head == [name : Names \cup {None}, len : Nat \ {0}]     \* None: free storage
ASSUME NoneAssumption == None \notin Content /\ None \notin Head

Cell == [head : Head \cup {None}, own : Content \cup {None}, tail : BOOLEAN]
Blank == [head |-> None, own |-> None, tail |-> FALSE]

Writes == {"zap", "front", "back", "surplus", "erase", "write", "delete"}

TypeOK ==
    /\ file \in [Start .. MaxEnd -> Cell]
    /\ file_end \in Start .. MaxEnd + 1
    /\ dir \in [Names -> [addr : Nat \cup {PhonyAddr}, len : Nat]]
    /\ dbi_freep \subseteq Extent
    /\ dbi_eof \in Nat \cup {PhonyAddr}
    /\ dbi_read_only \in BOOLEAN
    /\ pc \in Writes \cup {"idle", "allocate", "scan"}
    /\ half \in BOOLEAN
    /\ op \in [name : Names, content : Content \cup {None}, addr : Nat \cup {PhonyAddr},
               len : Nat] \cup {None}
    /\ pos \in Start .. MaxEnd + 1
    /\ store \in [Names -> Content \cup {None}]
    /\ lost \subseteq Names
    /\ crashes \in 0 .. MaxCrashes
    /\ torn \subseteq {"failed", "shrink", "divide", "extend", "short"}

dp == dir[op.name]
Length == op.content.len

(* An empty database, scanned.                                             *)
Init ==
    /\ file = [a \in Start .. MaxEnd |-> Blank] /\ file_end = Start
    /\ dir = [n \in Names |-> Absent]
    /\ dbi_freep = {} /\ dbi_eof = Start /\ dbi_read_only = FALSE
    /\ pc = "idle" /\ half = FALSE
    /\ op = None /\ pos = Start
    /\ store = [n \in Names |-> None] /\ lost = {}
    /\ crashes = 0 /\ torn = {}

-----------------------------------------------------------------------------

(* db_put_external5: storage of the right size is kept; db5_realloc        *)
(* shortens storage that is too long, and frees storage that is too short. *)
Put(n, c) ==
    /\ pc = "idle" /\ ~dbi_read_only /\ dbi_eof # PhonyAddr
    /\ c.name = n
    /\ op' = [name |-> n, content |-> c, addr |-> dir[n].addr, len |-> dir[n].len]
    /\ \/ /\ c.len = dir[n].len /\ dir[n].addr # PhonyAddr
          /\ pc' = "write"
          /\ UNCHANGED <<dir, dbi_freep>>
       \/ /\ c.len < dir[n].len /\ dir[n].addr # PhonyAddr
          /\ pc' = "front"
          /\ dir' = [dir EXCEPT ![n].len = c.len]
          /\ UNCHANGED dbi_freep
       \/ /\ c.len > dir[n].len /\ dir[n].addr # PhonyAddr
          /\ pc' = "zap"
          /\ dbi_freep' = rt_memfree(dbi_freep, dir[n].len, dir[n].addr)
          /\ UNCHANGED dir
       \/ /\ dir[n].addr = PhonyAddr
          /\ pc' = "allocate"
          /\ UNCHANGED <<dir, dbi_freep>>
    /\ UNCHANGED <<disk, dbi_eof, dbi_read_only, half, pos, history>>

BugDeleteInMemory(n) ==     \* the object stays in the file
    /\ pc = "idle" /\ ~dbi_read_only
    /\ dir[n].addr # PhonyAddr
    /\ dir' = [dir EXCEPT ![n] = Absent]
    /\ dbi_freep' = rt_memfree(dbi_freep, dir[n].len, dir[n].addr)
    /\ store' = [store EXCEPT ![n] = None]
    /\ UNCHANGED <<disk, dbi_eof, dbi_read_only, pc, half, op, pos, lost, crashes,
                   torn>>

(* db_delete leaves it to its callers not to delete from a read-only file. *)
Delete(n) ==
    /\ pc = "idle" /\ ~dbi_read_only
    /\ dir[n].addr # PhonyAddr
    /\ op' = [name |-> n, content |-> None, addr |-> dir[n].addr, len |-> dir[n].len]
    /\ pc' = "delete"
    /\ UNCHANGED <<disk, memory, half, pos, history>>

(* "Can we obtain a free block somewhere else?"                            *)
Allocate ==
    /\ pc = "allocate"
    /\ \/ \E e \in BestFit(dbi_freep, Length) :
          /\ dbi_freep' = dbi_freep \ {e}
          /\ IF e.size = Length
             THEN /\ pc' = "write"
                  /\ dir' = [dir EXCEPT ![op.name] = [addr |-> e.addr, len |-> Length]]
             ELSE /\ pc' = "surplus"
                  /\ dir' = [dir EXCEPT ![op.name] = [addr |-> e.addr + Length,
                                                      len |-> e.size - Length]]
          /\ UNCHANGED dbi_eof
       \/ /\ BestFit(dbi_freep, Length) = {}
          /\ dbi_eof + Length <= MaxEnd + 1
          /\ pc' = "write"
          /\ dir' = [dir EXCEPT ![op.name] = [addr |-> dbi_eof, len |-> Length]]
          /\ dbi_eof' = dbi_eof + Length
          /\ UNCHANGED dbi_freep
    /\ UNCHANGED <<disk, dbi_read_only, half, op, pos, history>>

-----------------------------------------------------------------------------

Object(c, addr) ==
    [a \in addr .. addr + c.len - 1 |->
        [head |-> IF a = addr THEN [name |-> c.name, len |-> c.len] ELSE None,
         own |-> c, tail |-> a = addr + c.len - 1]]

FreeObject(addr, len) ==    \* db5_make_free_object
    [a \in addr .. addr + len - 1 |->
        [head |-> IF a = addr THEN [name |-> None, len |-> len] ELSE None,
         own |-> None, tail |-> a = addr + len - 1]]

FreeHeader(addr, len) ==    \* db5_make_free_object_hdr: two units
    [a \in addr .. addr + 1 |->
        [head |-> IF a = addr THEN [name |-> None, len |-> len] ELSE None,
         own |-> None, tail |-> FALSE]]

FreeTrailer(addr, len) ==
    [a \in {addr + len - 1} |-> [file[a] EXCEPT !.tail = TRUE]]

(* What the next db_write writes: db5_write_free, but for the object.      *)
Data ==
    IF pc = "write" THEN Object(op.content, dp.addr)
    ELSE IF dp.len <= Large THEN FreeObject(dp.addr, dp.len)
    ELSE IF ~half THEN FreeHeader(dp.addr, dp.len)
    ELSE FreeTrailer(dp.addr, dp.len)

From == CHOOSE a \in DOMAIN Data : \A b \in DOMAIN Data : a <= b

(* The file when the first k units of the data have been written.          *)
Written(k) ==
    LET new == {a \in DOMAIN Data : a < From + k}
    IN  /\ file' = [a \in DOMAIN file |-> IF a \in new THEN Data[a] ELSE file[a]]
        /\ file_end' = IF k > 0 /\ From + k > file_end THEN From + k ELSE file_end

Whole == Cardinality(DOMAIN Data)
Partly == 0 .. Whole - 1

(* The header of a large free object; its trailer is a write of its own.   *)
WriteHeader ==
    /\ pc \in Writes \ {"write"} /\ dp.len > Large /\ ~half
    /\ Written(Whole)
    /\ half' = TRUE
    /\ UNCHANGED <<memory, pc, op, pos, history>>

LastWrite(step) ==
    /\ pc = step
    /\ pc = "write" \/ dp.len <= Large \/ half
    /\ Written(Whole)
    /\ half' = FALSE
    /\ op' = IF step \in {"write", "delete"} THEN None ELSE op
    /\ UNCHANGED <<dbi_eof, dbi_read_only, pos>>

Moved(addr, len) == dir' = [dir EXCEPT ![op.name] = [addr |-> addr, len |-> len]]
Freed == dbi_freep' = rt_memfree(dbi_freep, dp.len, dp.addr)

(* db5_realloc after each of its writes.                                   *)
Zapped ==
    /\ LastWrite("zap")
    /\ pc' = "allocate"
    /\ dir' = [dir EXCEPT ![op.name].addr = PhonyAddr]
    /\ UNCHANGED <<dbi_freep, history>>

BugFrontOnly ==     \* the back half is freed, and not erased
    /\ LastWrite("front")
    /\ pc' = "write"
    /\ dbi_freep' = rt_memfree(dbi_freep, op.len - Length, op.addr + Length)
    /\ UNCHANGED <<dir, history>>

FrontErased ==
    /\ LastWrite("front")
    /\ pc' = "back"
    /\ Moved(op.addr + Length, op.len - Length)
    /\ UNCHANGED <<dbi_freep, history>>

BugWholeFreed ==
    /\ LastWrite("back")
    /\ pc' = "write"
    /\ dbi_freep' = rt_memfree(dbi_freep, op.len, op.addr)
    /\ Moved(op.addr, Length)
    /\ UNCHANGED history

BackErased ==
    /\ LastWrite("back")
    /\ pc' = "write"
    /\ Freed
    /\ Moved(op.addr, Length)
    /\ UNCHANGED history

BugSurplusKept ==
    /\ LastWrite("surplus")
    /\ pc' = "erase"
    /\ Moved(dp.addr - Length, Length)
    /\ UNCHANGED <<dbi_freep, history>>

SurplusErased ==
    /\ LastWrite("surplus")
    /\ pc' = "erase"
    /\ Freed
    /\ Moved(dp.addr - Length, Length)
    /\ UNCHANGED history

PlaceErased ==
    /\ LastWrite("erase")
    /\ pc' = "write"
    /\ UNCHANGED <<dir, dbi_freep, history>>

ObjectWritten ==
    /\ LastWrite("write")
    /\ pc' = "idle"
    /\ store' = [store EXCEPT ![op.name] = op.content]
    /\ lost' = lost \ {op.name}
    /\ UNCHANGED <<dir, dbi_freep, crashes, torn>>

Deleted ==  \* db_delete and db_dirdelete
    /\ LastWrite("delete")
    /\ pc' = "idle"
    /\ Freed
    /\ dir' = [dir EXCEPT ![op.name] = Absent]
    /\ store' = [store EXCEPT ![op.name] = None]
    /\ lost' = lost \ {op.name}
    /\ UNCHANGED <<crashes, torn>>

(* The writes that a scan may notice when they are cut short, or not       *)
(* followed by the next: storage is divided, or the file extended.         *)
Delicate ==
    CASE pc \in {"front", "back"} -> {"shrink"}
      [] pc \in {"surplus", "erase"} -> {"divide"}
      [] pc = "write" /\ dp.addr >= file_end -> {"extend"}
      [] OTHER -> {}

(* "write error.  File forced read-only."  The operation is given up; only *)
(* db_delete goes on regardless.                                           *)
WriteFails ==
    /\ pc \in Writes
    /\ \E k \in Partly : Written(k)
    /\ dbi_read_only' = TRUE
    /\ pc' = "idle" /\ half' = FALSE
    /\ IF pc = "delete"
       THEN Freed /\ dir' = [dir EXCEPT ![op.name] = Absent]
       ELSE UNCHANGED <<dir, dbi_freep>>
    /\ lost' = lost \cup {op.name}
    /\ torn' = torn \cup {"failed"} \cup Delicate
    /\ op' = None
    /\ UNCHANGED <<dbi_eof, pos, store, crashes>>

-----------------------------------------------------------------------------

(* The program is killed, and the file opened again.                       *)
Crash ==
    /\ pc # "scan"
    /\ crashes < MaxCrashes
    /\ crashes' = crashes + 1
    /\ IF pc \in Writes
       THEN \E k \in Partly : Written(k)
       ELSE UNCHANGED disk
    /\ lost' = IF pc = "idle" THEN lost ELSE lost \cup {op.name}
    /\ torn' = torn \cup Delicate
    /\ dir' = [n \in Names |-> Absent]
    /\ dbi_freep' = {} /\ dbi_eof' = PhonyAddr /\ dbi_read_only' = FALSE
    /\ pc' = "scan" /\ half' = FALSE
    /\ pos' = Start
    /\ op' = None
    /\ UNCHANGED store

IsObject(a) ==
    /\ file[a].head # None
    /\ a + file[a].head.len <= file_end
    /\ file[a + file[a].head.len - 1].tail

(* db5_diradd_handler for the object at pos.  One whose name is taken gets *)
(* a temporary one, and is not followed any further.                       *)
ScanObject ==
    /\ pc = "scan" /\ pos < file_end
    /\ IsObject(pos)
    /\ LET head == file[pos].head
       IN  /\ IF head.name = None
              THEN /\ dbi_freep' = rt_memfree(dbi_freep, head.len, pos)
                   /\ UNCHANGED dir
              ELSE /\ dir' = IF dir[head.name] = Absent
                              THEN [dir EXCEPT ![head.name] = [addr |-> pos, len |-> head.len]]
                              ELSE dir
                   /\ UNCHANGED dbi_freep
           /\ pos' = pos + head.len
    /\ UNCHANGED <<disk, dbi_eof, dbi_read_only, pc, half, op, history>>

ScanEnd ==
    /\ pc = "scan" /\ pos = file_end
    /\ dbi_eof' = pos
    /\ pc' = "idle"
    /\ pos' = Start
    /\ torn' = torn \cap {"shrink", "short"}
    /\ UNCHANGED <<disk, dir, dbi_freep, dbi_read_only, half, op, store, lost,
                   crashes>>

(* "Writing could corrupt it worse": a short object or a wrong magic byte  *)
(* at its end.                                                             *)
ScanFatal ==
    /\ pc = "scan" /\ pos < file_end
    /\ ~IsObject(pos)
    /\ dbi_read_only' = TRUE
    /\ pc' = "idle"
    /\ UNCHANGED <<disk, dir, dbi_freep, dbi_eof, half, op, pos, history>>

(* What is found at pos is no header, and may begin with a length of zero, *)
(* which is taken for the end of the file (db5_io.c:351): the end is seven *)
(* bytes behind pos, here a unit.                                          *)
ScanShort ==
    /\ pc = "scan" /\ pos < file_end
    /\ file[pos].head = None
    /\ dbi_eof' = pos + 1
    /\ pc' = "idle"
    /\ torn' = torn \cup {"short"}
    /\ UNCHANGED <<disk, dir, dbi_freep, dbi_read_only, half, op, pos, store, lost,
                   crashes>>

Next ==
    \/ \E n \in Names : Delete(n) \/ \E c \in Content : Put(n, c)
    \/ Allocate
    \/ WriteHeader
    \/ Zapped \/ FrontErased \/ BackErased \/ SurplusErased \/ PlaceErased
    \/ ObjectWritten \/ Deleted \/ WriteFails
    \/ Crash \/ ScanObject \/ ScanEnd \/ ScanFatal \/ ScanShort

Spec == Init /\ [][Next]_vars

-----------------------------------------------------------------------------

Usable == pc = "idle" /\ ~dbi_read_only

Units(addr, len) == {a \in addr .. addr + len - 1 : addr # PhonyAddr}
Of(n) == Units(dir[n].addr, dir[n].len)
Free(e) == Units(e.addr, e.size)

(* Storage that held one object is being read as something else.           *)
Misread == torn \cap {"shrink", "short"} # {}

(* The map of free storage has no overlapping and no adjacent extents: an  *)
(* object that fits between two others is found room there, in whatever    *)
(* order they were freed (memalloc.c:140).                                 *)
FreeApart == Apart(dbi_freep)

(* No unit of the file belongs to two objects, or to an object and to free *)
(* storage, when an operation begins.                                      *)
NothingTwice ==
    Usable =>
        /\ \A m, n \in Names : m # n => Of(m) \cap Of(n) = {}
        /\ \A n \in Names, e \in dbi_freep : Of(n) \cap Free(e) = {}

(* And none is lost to both: whatever was freed can be used again, with    *)
(* the last exceptions of ReadsBack.                                       *)
NothingLeaked ==
    (Usable /\ ~Misread) =>
        Start .. dbi_eof - 1 \subseteq
            (UNION {Of(n) : n \in Names}) \cup (UNION {Free(e) : e \in dbi_freep})

Doubtful == lost \cup (IF pc = "idle" THEN {} ELSE {op.name})

(* Every object but the one being changed reads as it was last put, and a  *)
(* deleted one does not come back: during an operation on another, after a *)
(* write has failed, and after a crash and the scan that follows it.  The  *)
(* exceptions: the scan has found the file corrupt or has stopped early,   *)
(* or the program was killed between the two halves of an object that got  *)
(* smaller (db5_alloc.c:153), when the rest of it may hide what follows.   *)
ReadsBack ==
    (pc # "scan" /\ dbi_eof # PhonyAddr /\ ~Misread) =>
        \A n \in Names \ Doubtful :
            IF store[n] = None
            THEN dir[n] = Absent
            ELSE /\ dir[n].len = store[n].len
                 /\ \A a \in Of(n) : file[a] = Object(store[n], dir[n].addr)[a]

(* A file is found corrupt, or forced read-only, for one of two reasons:   *)
(* a write failed, or the program was killed while it divided storage or   *)
(* extended the file.  A crash at any other point, the replacement of an   *)
(* object by a larger one included, leaves a file that can be scanned.     *)
StaysReadable == dbi_read_only => torn # {}

(* "Writing could corrupt it worse" (db5_scan.c:108): a database of which  *)
(* the scan has not read every object is not written.                      *)
WholeFileScanned == Usable => dbi_eof >= file_end
=============================================================================
