-------------------------- MODULE MappedFileProofs --------------------------
(***************************************************************************)
(* Theorems about the mapped files of libbu and what librt keeps in them,  *)
(* for any number of threads, files in memory and databases: no pointer    *)
(* dangles, the uses are the users, an open database is shared, a user     *)
(* sees the file as it was since it asked, a bitmap is converted once.     *)
(*                                                                         *)
(* They assume what the callers see to (Serial): databases are opened and  *)
(* closed one at a time, and unused files are reclaimed when nothing else  *)
(* is under way.  MappedFree.cfg shows what happens otherwise.             *)
(***************************************************************************)
EXTENDS MappedFile, SequenceTheorems, FiniteSetTheorems, WellFoundedInduction, TLAPS

Serial == {"db_i"} \in Apart /\ \A a \in Tags : {"free", a} \in Apart

(* A set of numbers has a least element, which stands in for induction.    *)
LEMMA Least ==
    ASSUME NEW T, T \subseteq Nat, T # {}
    PROVE  \E x \in T : \A y \in T : x <= y
<1> DEFINE Smaller == {p \in Nat \X Nat : p[1] < p[2]}
<1>1. OpToRel(<, Nat) = Smaller
  BY Zenon DEF OpToRel
<1>2. IsWellFoundedOn(Smaller, Nat)
  BY <1>1, NatLessThanWellFounded
<1>3. PICK x \in T : \A y \in T : <<y, x>> \notin Smaller
  <2> HIDE DEF Smaller
  <2> QED BY <1>2, WFMin
<1>4. ASSUME NEW y \in T PROVE x <= y
  <2>1. x \in Nat /\ y \in Nat
    OBVIOUS
  <2>2. ~(y < x)
    BY <2>1, <1>3
  <2> QED BY <2>1, <2>2
<1> QED BY <1>4

(* A function defined by recursion on 0 .. N exists.                       *)
LEMMA RecursionExists ==
    ASSUME NEW S, NEW base \in S, NEW N \in Nat, NEW step \in [1 .. N -> [S -> S]]
    PROVE  \E f \in [0 .. N -> S] :
              f[0] = base /\ \A n \in 1 .. N : f[n] = step[n][f[n - 1]]
<1> DEFINE Is(f, k) == f[0] = base /\ \A n \in 1 .. k : f[n] = step[n][f[n - 1]]
           bad == {k \in 0 .. N : ~ \E f \in [0 .. k -> S] : Is(f, k)}
<1>1. ASSUME bad # {} PROVE FALSE
  <2>1. bad \subseteq Nat
    OBVIOUS
  <2>2. PICK k \in bad : \A y \in bad : k <= y
    <3> HIDE DEF bad
    <3> QED BY <1>1, <2>1, Least
  <2>3. k \in 0 .. N /\ ~ \E f \in [0 .. k -> S] : Is(f, k)
    OBVIOUS
  <2>4. CASE k = 0
    <3> DEFINE f == [n \in 0 .. 0 |-> base]
    <3>1. Is(f, 0) /\ f \in [0 .. 0 -> S]
      OBVIOUS
    <3>2. QED BY <2>3, <2>4, <3>1
  <2>5. CASE k # 0
    <3>1. k - 1 \in 0 .. N /\ k \in 1 .. N
      BY <2>3, <2>5
    <3>2. PICK g \in [0 .. k - 1 -> S] : Is(g, k - 1)
      <4>1. k - 1 \notin bad
        <5> HIDE DEF bad
        <5> QED BY <2>2, <2>1, <3>1
      <4> HIDE DEF Is
      <4> QED BY <3>1, <4>1
    <3> DEFINE f == [n \in 0 .. k |-> IF n = k THEN step[k][g[k - 1]] ELSE g[n]]
    <3>3. g[k - 1] \in S /\ step[k][g[k - 1]] \in S
      BY <3>1
    <3>4. f \in [0 .. k -> S]
      BY <3>1, <3>3
    <3>5. f[0] = base
      BY <3>1, <3>2
    <3>6. ASSUME NEW n \in 1 .. k PROVE f[n] = step[n][f[n - 1]]
      <4>1. CASE n = k
        BY <4>1, <3>1
      <4>2. CASE n # k
        <5>1. n \in 1 .. k - 1 /\ n - 1 \in 0 .. k - 1 /\ n - 1 # k
          BY <4>2, <3>1
        <5>2. f[n] = g[n] /\ f[n - 1] = g[n - 1]
          BY <5>1, <4>2
        <5>3. QED BY <5>1, <5>2, <3>2
      <4>3. QED BY <4>1, <4>2
    <3>7. QED BY <3>4, <3>5, <3>6, <2>3
  <2>6. QED BY <2>4, <2>5
<1>2. \E f \in [0 .. N -> S] : Is(f, N)
  <2> HIDE DEF Is
  <2> QED BY <1>1
<1> QED BY <1>2

-----------------------------------------------------------------------------
(* bu_free_mapped_files: what is left of the table.                        *)

Distinct(s) == \A i, j \in 1 .. Len(s) : s[i] = s[j] => i = j

(* The loop's result, one entry after the other.                           *)
Loop(files, kept) ==
    /\ kept \in [0 .. Len(table) -> Seq(Maps)]
    /\ kept[0] = <<>>
    /\ \A n \in 1 .. Len(table) :
          kept[n] = IF files[table[n]].uses > 0 THEN Append(kept[n - 1], table[n])
                    ELSE kept[n - 1]

LEMMA SweptIsLoop ==
    ASSUME NEW files, table \in Seq(Maps)
    PROVE  \E kept : Loop(files, kept) /\ Swept(files) = kept[Len(table)]
<1> DEFINE N == Len(table)
           F(f) == [n \in 0 .. N |->
                       IF n = 0 THEN <<>>
                       ELSE IF files[table[n]].uses > 0 THEN Append(f[n - 1], table[n])
                       ELSE f[n - 1]]
           step == [n \in 1 .. N |-> [x \in Seq(Maps) |->
                       IF files[table[n]].uses > 0 THEN Append(x, table[n]) ELSE x]]
<1>1. N \in Nat /\ \A i \in 1 .. N : table[i] \in Maps
  BY LenProperties, ElementOfSeq
<1>2. PICK f \in [0 .. N -> Seq(Maps)] :
              f[0] = <<>> /\ \A n \in 1 .. N : f[n] = step[n][f[n - 1]]
  <2> DEFINE S == Seq(Maps)
  <2>0. <<>> \in Seq(Maps) /\ step \in [1 .. N -> [Seq(Maps) -> Seq(Maps)]]
    BY <1>1
  <2> DEFINE base == <<>>
  <2> HIDE DEF step, N, S, F, base
  <2>1. N \in Nat /\ base \in S /\ step \in [1 .. N -> [S -> S]]
    BY <1>1, <2>0 DEF S, base
  <2>2. \E f \in [0 .. N -> S] :
              f[0] = base /\ \A n \in 1 .. N : f[n] = step[n][f[n - 1]]
    BY <2>1, RecursionExists
  <2>3. QED BY <2>2 DEF S, base
<1>3. f = F(f)
  <2>1. ASSUME NEW n \in 0 .. N PROVE f[n] = F(f)[n]
    <3>1. n # 0 => f[n - 1] \in Seq(Maps) /\ n \in 1 .. N
      BY <1>1
    <3>2. QED BY <1>2, <3>1
  <2>2. QED BY <2>1
<1>4. Swept(files) = (CHOOSE g : g = F(g))[N]
  BY Zenon DEF Swept
<1>5. (CHOOSE g : g = F(g)) = F(CHOOSE g : g = F(g))
  <2> HIDE DEF F
  <2>1. QED BY <1>3
<1>6. PICK g : g = F(g) /\ Swept(files) = g[N]
  <2> HIDE DEF F
  <2>1. QED BY <1>4, <1>5
<1>7. ASSUME NEW n \in 0 .. N
      PROVE  g[n] = IF n = 0 THEN <<>>
                    ELSE IF files[table[n]].uses > 0 THEN Append(g[n - 1], table[n])
                    ELSE g[n - 1]
  BY <1>6
<1>8. \A n \in 0 .. N : g[n] \in Seq(Maps)
  <2> DEFINE bad == {n \in 0 .. N : g[n] \notin Seq(Maps)}
  <2>1. ASSUME bad # {} PROVE FALSE
    <3>1. PICK k \in bad : \A y \in bad : k <= y
      <4>1. bad \subseteq Nat
        OBVIOUS
      <4> HIDE DEF bad
      <4>2. QED BY <2>1, <4>1, Least
    <3>2. k # 0 => k - 1 \in 0 .. N /\ g[k - 1] \in Seq(Maps) /\ table[k] \in Maps
      BY <1>1, <3>1
    <3>3. g[k] \in Seq(Maps)
      <4>1. k \in 0 .. N
        OBVIOUS
      <4>2. CASE k = 0
        <5>1. g[k] = <<>>
          BY <4>2, <4>1, <1>7
        <5>2. QED BY <5>1
      <4>3. CASE k # 0
        <5>1. Append(g[k - 1], table[k]) \in Seq(Maps)
          BY <3>2, <4>3, AppendProperties
        <5>2. g[k] = Append(g[k - 1], table[k]) \/ g[k] = g[k - 1]
          BY <4>3, <4>1, <1>7
        <5>3. QED BY <4>3, <5>1, <5>2, <3>2
      <4>4. QED BY <4>2, <4>3
    <3>4. QED BY <3>3
  <2>2. QED BY <2>1
<1>9. Loop(files, g)
  <2>0. 0 \in 0 .. N /\ \A n \in 1 .. N : n \in 0 .. N /\ n # 0
    BY <1>1
  <2>1. g \in [0 .. N -> Seq(Maps)]
    <3>1. g = [n \in 0 .. N |-> F(g)[n]]
      BY <1>6
    <3> HIDE DEF F
    <3>2. g = [n \in 0 .. N |-> g[n]]
      BY <1>6, <3>1
    <3>3. QED BY <3>2, <1>8
  <2>2. g[0] = <<>>
    BY <2>0, <1>7
  <2>3. ASSUME NEW n \in 1 .. N
        PROVE  g[n] = IF files[table[n]].uses > 0 THEN Append(g[n - 1], table[n])
                      ELSE g[n - 1]
    BY <2>0, <1>7
  <2> HIDE DEF F, step
  <2>4. QED BY <2>1, <2>2, <2>3 DEF Loop
<1>10. QED BY <1>6, <1>9

(* What the table keeps is what is in use, each entry once.                *)
LEMMA SweptKeepsWhatIsUsed ==
    ASSUME NEW files, table \in Seq(Maps)
    PROVE  /\ Swept(files) \in Seq(Maps)
           /\ ToSet(Swept(files)) = {m \in ToSet(table) : files[m].uses > 0}
           /\ Distinct(table) => Distinct(Swept(files))
<1>1. PICK kept : Loop(files, kept) /\ Swept(files) = kept[Len(table)]
  BY SweptIsLoop
<1> DEFINE N == Len(table)
           Upto(n) == {m \in Maps : files[m].uses > 0 /\ \E i \in 1 .. n : table[i] = m}
           Good(n) == /\ ToSet(kept[n]) = Upto(n)
                      /\ Distinct(table) => Distinct(kept[n])
           bad == {n \in 0 .. N : ~Good(n)}
<1>2. N \in Nat /\ \A i \in 1 .. N : table[i] \in Maps
  BY LenProperties, ElementOfSeq
<1>3. Good(0)
  BY <1>1, <1>2 DEF Loop, ToSet, Distinct
<1>4. ASSUME NEW k \in 1 .. N, Good(k - 1) PROVE Good(k)
  <2>0. k - 1 \in 0 .. N
    BY <1>2
  <2>1. k - 1 \in 0 .. N /\ kept[k - 1] \in Seq(Maps) /\ table[k] \in Maps
    BY <1>1, <1>2, <2>0 DEF Loop
  <2>2. CASE ~(files[table[k]].uses > 0)
    <3>1. kept[k] = kept[k - 1]
      BY <1>1, <2>2 DEF Loop
    <3>2. Upto(k) = Upto(k - 1)
      <4>1. ASSUME NEW i \in 1 .. k, files[table[i]].uses > 0 PROVE i \in 1 .. k - 1
        BY <4>1, <2>2, <1>2
      <4>2. \A i \in 1 .. k - 1 : i \in 1 .. k
        OBVIOUS
      <4>3. QED BY <4>1, <4>2
    <3>3. QED BY <3>1, <3>2, <1>4
  <2>3. CASE files[table[k]].uses > 0
    <3>1. kept[k] = Append(kept[k - 1], table[k])
      BY <1>1, <2>3 DEF Loop
    <3> DEFINE s == kept[k - 1]
    <3>2. /\ s \in Seq(Maps) /\ Len(s) \in Nat
          /\ Len(kept[k]) = Len(s) + 1
          /\ \A i \in 1 .. Len(s) : kept[k][i] = s[i]
          /\ kept[k][Len(s) + 1] = table[k]
      BY <2>1, <3>1, LenProperties, AppendProperties
    <3>3. /\ ToSet(s) = {s[i] : i \in 1 .. Len(s)}
          /\ ToSet(kept[k]) = {kept[k][i] : i \in 1 .. Len(kept[k])}
      BY <2>1, <1>1, LenProperties DEF ToSet, Loop
    <3> HIDE DEF s
    <3>4. ToSet(kept[k]) = ToSet(s) \cup {table[k]}
      BY <3>2, <3>3
    <3>5. Upto(k) = Upto(k - 1) \cup {table[k]}
      <4>1. \A i \in 1 .. k : i = k \/ i \in 1 .. k - 1
        BY <1>2
      <4>2. \A i \in 1 .. k - 1 : i \in 1 .. k
        OBVIOUS
      <4>3. QED BY <4>1, <4>2, <2>3, <2>1
    <3>6. ToSet(kept[k]) = Upto(k)
      BY <3>4, <3>5, <1>4 DEF s
    <3>7. ASSUME Distinct(table) PROVE Distinct(kept[k])
      <4>1. table[k] \notin ToSet(s)
        <5>1. ASSUME NEW i \in 1 .. k - 1 PROVE table[i] # table[k]
          BY <3>7, <1>2 DEF Distinct
        <5>2. QED BY <5>1, <1>4 DEF s
      <4>2. Distinct(s)
        BY <1>4, <3>7 DEF s
      <4>3. ASSUME NEW i \in 1 .. Len(kept[k]), NEW j \in 1 .. Len(kept[k]), kept[k][i] = kept[k][j]
            PROVE  i = j
        BY <4>1, <4>2, <4>3, <3>2, <3>3 DEF Distinct
      <4>4. QED BY <4>3 DEF Distinct
    <3>8. QED BY <3>6, <3>7
  <2>4. QED BY <2>2, <2>3
<1>5. ASSUME bad # {} PROVE FALSE
  <2>1. PICK k \in bad : \A y \in bad : k <= y
    <3>1. bad \subseteq Nat
      OBVIOUS
    <3> HIDE DEF bad
    <3>2. QED BY <1>5, <3>1, Least
  <2>2. k \in 0 .. N /\ ~Good(k) /\ \A y \in 0 .. N : ~Good(y) => k <= y
    BY <2>1
  <2> HIDE DEF Good, bad
  <2>3. k \in 1 .. N
    BY <2>2, <1>3, <1>2
  <2>4. k - 1 \in 0 .. N /\ Good(k - 1)
    BY <2>2, <2>3, <1>2
  <2>5. QED BY <2>3, <2>4, <2>2, <1>4
<1>6. Good(N)
  <2>1. N \in 0 .. N
    BY <1>2
  <2>2. QED BY <2>1, <1>5
<1>7. Upto(N) = {m \in ToSet(table) : files[m].uses > 0}
  BY <1>2 DEF ToSet
<1>8. Swept(files) \in Seq(Maps)
  BY <1>1, <1>2 DEF Loop
<1>9. QED BY <1>1, <1>6, <1>7, <1>8

-----------------------------------------------------------------------------
(* The inductive invariant.                                                *)

(* The threads that hold no file, and those that hold a database.          *)
NoFile(t) ==
    \/ pc[t] \in {"idle", "map", "add", "init", "close", "sweep", "free"}
    \/ pc[t] = "has" /\ appl[t] = "db_i"
HasDb(t) ==
    \/ pc[t] \in {"reuse", "unuse", "init", "close", "sweep", "free"}
    \/ pc[t] = "has" /\ appl[t] = "db_i"

Place ==
    \A t \in Threads :
       /\ mp[t] = None <=> NoFile(t)
       /\ dbip[t] # None <=> HasDb(t)
       /\ pc[t] \in {"lock", "convert"} => appl[t] = "ebm"
       /\ pc[t] # "has" /\ HasDb(t) => appl[t] = "db_i"
       /\ pc[t] = "opened" => appl[t] # "NULL"

(* Serial at work.                                                         *)
Alone ==
    \A t, u \in Threads :
       /\ Closes(t) /\ Busy(u) => t = u
       /\ Busy(t) /\ Busy(u) /\ appl[t] = "db_i" /\ appl[u] = "db_i" => t = u

Memory ==
    /\ Distinct(table)
    /\ \A m \in Maps : map[m].live <=> m \in ToSet(table)
    /\ \A m \in Maps : ~map[m].live => map[m] = FreeMap
    /\ \A d \in Dbs : ~dbi[d].live => dbi[d] = FreeDbi

Pointers ==
    /\ \A t \in Threads : mp[t] # None =>
          map[mp[t]].live /\ map[mp[t]].appl \in {appl[t], "_INVALID_"}
    /\ \A t, u \in Threads : mp[t] # None /\ mp[t] = mp[u] => appl[t] = appl[u]
    /\ \A t \in Threads : dbip[t] # None => dbi[dbip[t]].live

(* A database and the file it was read from.                               *)
Links ==
    /\ \A d \in Dbs : dbi[d].mf # None =>
          /\ map[dbi[d].mf].live
          /\ map[dbi[d].mf].db = d
          /\ map[dbi[d].mf].appl \in {"db_i", "_INVALID_"}
    /\ \A m \in Maps : map[m].db # None => dbi[map[m].db].live /\ dbi[map[m].db].mf = m
    /\ \A d \in Dbs, t \in Threads : mp[t] # None /\ dbi[d].mf = mp[t] => appl[t] = "db_i"
    /\ \A t \in Threads : dbip[t] # None => (dbi[dbip[t]].mf = None <=> pc[t] = "free")

Users(m) == {t \in Threads : mp[t] = m /\ ~Asks(t)}
Readers(m) ==
    {d \in Dbs : /\ dbi[d].mf = m
                 /\ \A t \in Threads : ~(dbip[t] = d /\ pc[t] = "sweep")}
Sharers(d) == {t \in Threads : dbip[t] = d /\ pc[t] \in {"unuse", "has"}}

Counts ==
    /\ \A m \in Maps : map[m].uses = Cardinality(Users(m)) + Cardinality(Readers(m)) + stray[m]
    /\ \A d \in Dbs : dbi[d].uses = Cardinality(Sharers(d))
    /\ \A t \in Threads : Closes(t) \/ pc[t] = "init" => dbi[dbip[t]].uses = 0

(* The entries kept alive by failed imports are bitmaps and stay so, also  *)
(* when they are invalid and nobody holds them.                            *)
Strays ==
    \A m \in Maps : stray[m] > 0 =>
       /\ map[m].live
       /\ map[m].appl \in {"ebm", "_INVALID_"}
       /\ map[m].version \in Short
       /\ map[m].db = None
       /\ \A t \in Threads : mp[t] = m => appl[t] = "ebm"

(* An entry for the tag "db_i" is the only one; none when one is to come.  *)
Entries ==
    /\ \A m, n \in Maps : map[m].appl = "db_i" /\ map[n].appl = "db_i" => m = n
    /\ \A t \in Threads, m \in Maps : appl[t] = "db_i" /\ map[m].appl = "db_i" =>
          /\ pc[t] \notin {"map", "add"}
          /\ pc[t] \in {"found", "stale"} => m = mp[t]

(* What a thread has seen of the file since it asked.                      *)
Fresh ==
    \A t \in Threads :
       /\ Asks(t) => disk \in seen[t]
       /\ pc[t] = "incr" => {map[mp[t]].version, Gone} \cap seen[t] # {}
       /\ pc[t] = "add" => copy[t] \in seen[t]

Bitmaps ==
    /\ ConvertedOnce
    /\ \A t \in Threads : pc[t] = "convert" => map[mp[t]].bitmap = "part"

IInv ==
    /\ TypeOK
    /\ Place
    /\ Alone
    /\ Memory
    /\ Pointers
    /\ Links
    /\ Counts
    /\ Strays
    /\ Entries
    /\ Fresh
    /\ Bitmaps

-----------------------------------------------------------------------------
(* What the steps have in common.                                          *)

MapRec ==
    [live : BOOLEAN, appl : Tags \cup {"_INVALID_"}, version : Versions \cup {Gone},
     uses : Nat, bitmap : {"none", "part", "whole"}, db : Dbs \cup {None}]
DbRec == [live : BOOLEAN, mf : Maps \cup {None}, uses : Nat]

LEMMA FreshRecords == FreeMap \in MapRec /\ FreeDbi \in DbRec
BY DEF FreeMap, FreeDbi, MapRec, DbRec, Tags, Gone

LEMMA FiniteCounts ==
    ASSUME NEW m \in Maps, NEW d \in Dbs
    PROVE  /\ IsFiniteSet(Users(m)) /\ Cardinality(Users(m)) \in Nat
           /\ IsFiniteSet(Readers(m)) /\ Cardinality(Readers(m)) \in Nat
           /\ IsFiniteSet(Sharers(d)) /\ Cardinality(Sharers(d)) \in Nat
<1>1. Users(m) \subseteq Threads /\ Readers(m) \subseteq Dbs /\ Sharers(d) \subseteq Threads
  BY DEF Users, Readers, Sharers
<1>2. IsFiniteSet(Users(m)) /\ IsFiniteSet(Readers(m)) /\ IsFiniteSet(Sharers(d))
  BY <1>1, FiniteAssumption, FS_Subset
<1>3. QED BY <1>2, FS_CardinalityType

LEMMA NotEmptyIsPositive ==
    ASSUME NEW S, IsFiniteSet(S), NEW x \in S
    PROVE  Cardinality(S) \in Nat /\ Cardinality(S) >= 1
<1>1. Cardinality(S) \in Nat
  BY FS_CardinalityType
<1>2. Cardinality(S) # 0
  BY FS_EmptySet
<1>3. QED BY <1>1, <1>2

LEMMA UserIsCounted ==
    ASSUME TypeOK, Counts, NEW t \in Threads, mp[t] # None, ~Asks(t)
    PROVE  map[mp[t]].uses >= 1
<1>1. mp[t] \in Maps /\ stray[mp[t]] \in Nat /\ t \in Users(mp[t])
  BY DEF TypeOK, Users
<1>2. IsFiniteSet(Users(mp[t])) /\ Cardinality(Readers(mp[t])) \in Nat
  <2>1. Users(mp[t]) \subseteq Threads /\ Readers(mp[t]) \subseteq Dbs
    BY DEF Users, Readers
  <2>2. QED BY <2>1, FiniteAssumption, FS_Subset, FS_CardinalityType
<1>3. Cardinality(Users(mp[t])) \in Nat /\ Cardinality(Users(mp[t])) >= 1
  BY <1>1, <1>2, NotEmptyIsPositive
<1>4. QED BY <1>1, <1>2, <1>3 DEF Counts

LEMMA ReaderIsCounted ==
    ASSUME TypeOK, Counts, NEW d \in Dbs, dbi[d].mf # None,
           \A t \in Threads : ~(dbip[t] = d /\ pc[t] = "sweep")
    PROVE  map[dbi[d].mf].uses >= 1
<1> DEFINE m == dbi[d].mf
<1>1. m \in Maps /\ stray[m] \in Nat /\ d \in Readers(m)
  BY DEF TypeOK, Readers
<1>2. IsFiniteSet(Readers(m)) /\ Cardinality(Users(m)) \in Nat
  <2>1. Users(m) \subseteq Threads /\ Readers(m) \subseteq Dbs
    BY DEF Users, Readers
  <2>2. QED BY <2>1, FiniteAssumption, FS_Subset, FS_CardinalityType
<1>3. Cardinality(Readers(m)) \in Nat /\ Cardinality(Readers(m)) >= 1
  BY <1>1, <1>2, NotEmptyIsPositive
<1> HIDE DEF m
<1>4. map[m].uses >= 1
  BY <1>1, <1>2, <1>3 DEF Counts
<1>5. QED BY <1>4 DEF m

LEMMA StrayIsCounted ==
    ASSUME TypeOK, Counts, NEW m \in Maps, stray[m] > 0
    PROVE  map[m].uses # 0
<1>1. Cardinality(Users(m)) \in Nat /\ Cardinality(Readers(m)) \in Nat
  <2>1. Users(m) \subseteq Threads /\ Readers(m) \subseteq Dbs
    BY DEF Users, Readers
  <2>2. QED BY <2>1, FiniteAssumption, FS_Subset, FS_CardinalityType
<1>2. stray[m] \in Nat
  BY DEF TypeOK
<1>3. QED BY <1>1, <1>2 DEF Counts

LEMMA SharerIsCounted ==
    ASSUME TypeOK, Counts, NEW t \in Threads, NEW d \in Dbs, t \in Sharers(d)
    PROVE  dbi[d].uses >= 1
<1>1. IsFiniteSet(Sharers(d))
  <2>1. Sharers(d) \subseteq Threads
    BY DEF Sharers
  <2>2. QED BY <2>1, FiniteAssumption, FS_Subset
<1>2. QED BY <1>1, NotEmptyIsPositive DEF Counts

(* Unused files are reclaimed when nothing else is under way, a file is    *)
(* opened or closed when none are reclaimed.                               *)
LEMMA StartsFree ==
    ASSUME Serial, TypeOK, NEW t \in Threads, Starts(t, "free")
    PROVE  \A u \in Threads : Busy(u) => u = t
<1>1. ASSUME NEW u \in Threads \ {t}, Busy(u) PROVE FALSE
  <2>1. appl[u] \in Doing(u) /\ appl[u] \in Tags
    BY DEF Doing, TypeOK
  <2>2. QED BY <1>1, <2>1 DEF Starts, Serial
<1>2. QED BY <1>1

LEMMA StartsTag ==
    ASSUME Serial, TypeOK, NEW t \in Threads, NEW a \in Tags, Starts(t, a)
    PROVE  \A u \in Threads : u = t \/ (~Closes(u) /\ ~(a = "db_i" /\ Busy(u) /\ appl[u] = "db_i"))
<1>1. ASSUME NEW u \in Threads, u # t, Closes(u) PROVE FALSE
  <2>1. Busy(u) /\ "free" \in Doing(u)
    BY <1>1 DEF Doing, Busy, Closes
  <2>2. {a, "free"} \notin Apart
    BY <1>1, <2>1 DEF Starts
  <2>3. {a, "free"} = {"free", a}
    OBVIOUS
  <2>4. QED BY <2>2, <2>3 DEF Serial
<1>2. ASSUME NEW u \in Threads, u # t, a = "db_i", Busy(u), appl[u] = "db_i" PROVE FALSE
  <2>1. appl[u] \in Doing(u)
    BY DEF Doing
  <2>2. {a, appl[u]} \notin Apart
    BY <1>2, <2>1 DEF Starts
  <2>3. {a, appl[u]} = {"db_i"}
    BY <1>2
  <2>4. {"db_i"} \in Apart
    BY DEF Serial
  <2>5. QED BY Zenon, <2>2, <2>3, <2>4
<1>3. QED BY <1>1, <1>2

(* The types of what the steps read.                                       *)
LEMMA Elements ==
    ASSUME TypeOK
    PROVE  /\ \A m \in Maps : map[m] \in MapRec /\ map[m].uses \in Nat
                              /\ map[m].db \in Dbs \cup {None}
           /\ \A d \in Dbs : dbi[d] \in DbRec /\ dbi[d].uses \in Nat
                             /\ dbi[d].mf \in Maps \cup {None}
           /\ \A t \in Threads : /\ mp[t] \in Maps \cup {None}
                                 /\ dbip[t] \in Dbs \cup {None}
                                 /\ appl[t] \in Tags
<1>1. map \in [Maps -> MapRec] /\ dbi \in [Dbs -> DbRec]
  BY DEF TypeOK, MapRec, DbRec
<1>2. \A r \in MapRec : r.uses \in Nat /\ r.db \in Dbs \cup {None}
  BY DEF MapRec
<1>3. \A r \in DbRec : r.uses \in Nat /\ r.mf \in Maps \cup {None}
  BY DEF DbRec
<1>4. QED BY <1>1, <1>2, <1>3 DEF TypeOK

(* mapped_file_find finds an entry with the tag if there is one.           *)
LEMMA EntryFound ==
    ASSUME IInv, NEW a \in Tags
    PROVE  \/ Entry(a) = None /\ \A m \in Maps : map[m].appl # a \/ ~map[m].live
           \/ Entry(a) \in Maps /\ map[Entry(a)].live /\ map[Entry(a)].appl = a
<1> DEFINE Hits == {i \in DOMAIN table : map[table[i]].appl = a}
<1>1. /\ table \in Seq(Maps) /\ Len(table) \in Nat /\ DOMAIN table = 1 .. Len(table)
      /\ \A i \in 1 .. Len(table) : table[i] \in Maps
      /\ ToSet(table) = {table[i] : i \in DOMAIN table}
  BY LenProperties, ElementOfSeq DEF IInv, TypeOK, ToSet
<1>2. \A m \in Maps : map[m].live <=> m \in ToSet(table)
  BY DEF IInv, Memory
<1>3. CASE Hits = {}
  <2>1. Entry(a) = None
    BY <1>3 DEF Entry
  <2>2. ASSUME NEW m \in Maps, map[m].live PROVE map[m].appl # a
    BY <1>1, <1>2, <1>3, <2>2
  <2>3. QED BY <2>1, <2>2
<1>4. CASE Hits # {}
  <2>1. Hits \subseteq Nat
    BY <1>1
  <2>2. Entry(a) = table[Min(Hits)]
    BY <1>4 DEF Entry
  <2>3. Min(Hits) \in Hits
    <3> HIDE DEF Hits
    <3>1. \E x \in Hits : \A y \in Hits : x <= y
      BY <1>4, <2>1, Least
    <3>2. QED BY <3>1 DEF Min
  <2>4. QED BY <1>1, <1>2, <2>2, <2>3
<1>5. QED BY <1>3, <1>4

LEMMA Holds ==
    ASSUME IInv, NEW t \in Threads, ~NoFile(t)
    PROVE  mp[t] \in Maps /\ map[mp[t]] \in MapRec /\ map[mp[t]].live /\ map[mp[t]].uses \in Nat
<1>1. mp[t] # None /\ TypeOK
  BY DEF IInv, Place
<1>2. QED BY <1>1, Elements DEF IInv, Pointers

LEMMA HoldsDb ==
    ASSUME IInv, NEW t \in Threads, HasDb(t)
    PROVE  /\ dbip[t] \in Dbs /\ dbi[dbip[t]] \in DbRec /\ dbi[dbip[t]].live
           /\ dbi[dbip[t]].uses \in Nat
<1>1. dbip[t] # None /\ TypeOK
  BY DEF IInv, Place
<1>2. QED BY <1>1, Elements DEF IInv, Pointers

LEMMA CountIn ==
    ASSUME NEW S, IsFiniteSet(S), NEW x
    PROVE  /\ Cardinality(S) \in Nat
           /\ x \notin S => Cardinality(S \cup {x}) = Cardinality(S) + 1
           /\ x \in S => Cardinality(S \ {x}) = Cardinality(S) - 1
BY FS_AddElement, FS_RemoveElement, FS_CardinalityType

(* What AllocateBitmap and CloseDb do, case by case.                       *)
FirstToConvert(t) ==
    /\ pc[t] = "lock"
    /\ map[mp[t]].bitmap = "none"
    /\ map' = [map EXCEPT ![mp[t]].bitmap = "part"]
    /\ Goto(t, "convert")
    /\ UNCHANGED <<disk, table, dbi, appl, mp, dbip, copy, seen, stray>>

TooLateToConvert(t) ==
    /\ pc[t] = "lock"
    /\ map[mp[t]].bitmap # "none"
    /\ Goto(t, "has")
    /\ UNCHANGED <<disk, table, map, dbi, appl, mp, dbip, copy, seen, stray>>

LEMMA AllocateBitmapCases ==
    ASSUME NEW t \in Threads, AllocateBitmap(t)
    PROVE  FirstToConvert(t) \/ TooLateToConvert(t)
BY DEF AllocateBitmap, Has, FirstToConvert, TooLateToConvert

LeavesDb(t) ==
    /\ pc[t] = "has"
    /\ appl[t] = "db_i"
    /\ dbi[dbip[t]].uses > 1
    /\ dbi' = [dbi EXCEPT ![dbip[t]].uses = @ - 1]
    /\ Returns(t)
    /\ UNCHANGED <<disk, table, map, stray>>

LastToClose(t) ==
    /\ pc[t] = "has"
    /\ appl[t] = "db_i"
    /\ Starts(t, "free")
    /\ ~(dbi[dbip[t]].uses > 1)
    /\ dbi' = [dbi EXCEPT ![dbip[t]].uses = @ - 1]
    /\ Goto(t, "close")
    /\ UNCHANGED <<disk, table, map, appl, mp, dbip, copy, seen, stray>>

LEMMA CloseDbCases ==
    ASSUME NEW t \in Threads, CloseDb(t)
    PROVE  LeavesDb(t) \/ LastToClose(t)
BY DEF CloseDb, LeavesDb, LastToClose

(* The database that is being closed has no other user.                    *)
LEMMA FreedIsNotShared ==
    ASSUME IInv, NEW t \in Threads, Closes(t) \/ pc[t] = "init"
    PROVE  \A u \in Threads : u = t \/ dbip[u] # dbip[t]
<1>1. ASSUME NEW u \in Threads, u # t, dbip[u] = dbip[t] PROVE FALSE
  <2>1. HasDb(t) /\ Busy(t) /\ appl[t] = "db_i" /\ dbip[t] \in Dbs /\ dbip[t] # None
    BY HoldsDb, HeapAssumption DEF IInv, Place, HasDb, Closes, Busy
  <2>2. HasDb(u)
    BY <1>1, <2>1 DEF IInv, Place
  <2>3. CASE Busy(u)
    <3>1. appl[u] = "db_i"
      BY <2>2, <2>3 DEF IInv, Place, Busy
    <3>2. QED BY <1>1, <2>1, <2>3, <3>1 DEF IInv, Alone
  <2>4. CASE ~Busy(u)
    <3>1. u \in Sharers(dbip[t])
      BY <1>1, <2>2, <2>4 DEF Sharers, HasDb, Busy
    <3>2. dbi[dbip[t]].uses >= 1
      BY <2>1, <3>1, SharerIsCounted DEF IInv
    <3>3. dbi[dbip[t]].uses = 0
      BY DEF IInv, Counts
    <3>4. QED BY <3>2, <3>3
  <2>5. QED BY <2>3, <2>4
<1>2. QED BY <1>1

(* What Add and NewDb do, given the memory they get.                       *)
Enters(t, m) ==
    /\ pc[t] = "add"
    /\ m \in UnusedMaps
    /\ map' = [map EXCEPT ![m] =
          [FreeMap EXCEPT !.live = TRUE, !.appl = appl[t], !.version = copy[t], !.uses = 1]]
    /\ table' = Append(table, m)
    /\ mp' = [mp EXCEPT ![t] = m]
    /\ copy' = [copy EXCEPT ![t] = Gone]
    /\ Opened(t)
    /\ UNCHANGED <<disk, dbi, appl, dbip, stray>>

LEMMA AddCases ==
    ASSUME NEW t \in Threads, Add(t)
    PROVE  \E m \in Maps : Enters(t, m)
BY DEF Add, Enters, UnusedMaps

MakesDb(t, d) ==
    /\ pc[t] = "opened"
    /\ appl[t] = "db_i"
    /\ map[mp[t]].db = None
    /\ d \in UnusedDbs
    /\ dbi' = [dbi EXCEPT ![d] = [live |-> TRUE, mf |-> mp[t], uses |-> 0]]
    /\ map' = [map EXCEPT ![mp[t]].db = d]
    /\ dbip' = [dbip EXCEPT ![t] = d]
    /\ mp' = [mp EXCEPT ![t] = None]
    /\ Goto(t, "init")
    /\ UNCHANGED <<disk, table, appl, copy, seen, stray>>

LEMMA NewDbCases ==
    ASSUME NEW t \in Threads, NewDb(t)
    PROVE  \E d \in Dbs : MakesDb(t, d)
BY DEF NewDb, MakesDb, UnusedDbs

(* bu_free_mapped_files frees the entries without uses, and only those.    *)
LEMMA SweepFrees ==
    ASSUME IInv, Sweep(map)
    PROVE  /\ \A m \in Maps : map'[m] = IF map[m].live /\ map[m].uses = 0 THEN FreeMap ELSE map[m]
           /\ table' \in Seq(Maps) /\ Distinct(table')
           /\ ToSet(table') = {m \in ToSet(table) : map[m].uses > 0}
           /\ map' \in [Maps -> MapRec]
<1>1. table \in Seq(Maps) /\ Distinct(table) /\ \A m \in Maps : map[m].uses \in Nat
  BY Elements DEF IInv, TypeOK, Memory
<1>2. /\ Swept(map) \in Seq(Maps) /\ Distinct(Swept(map))
      /\ ToSet(Swept(map)) = {m \in ToSet(table) : map[m].uses > 0}
  BY <1>1, SweptKeepsWhatIsUsed
<1>3. ASSUME NEW m \in Maps
      PROVE  map'[m] = IF map[m].live /\ map[m].uses = 0 THEN FreeMap ELSE map[m]
  <2>1. map'[m] = IF m \in ToSet(table) \ ToSet(Swept(map)) THEN FreeMap ELSE map[m]
    BY DEF Sweep
  <2>2. map[m].live <=> m \in ToSet(table)
    BY DEF IInv, Memory
  <2>3. QED BY <2>1, <2>2, <1>1, <1>2
<1>4. map' \in [Maps -> MapRec]
  <2>1. \A m \in Maps : map'[m] \in MapRec
    BY <1>3, Elements, FreshRecords DEF IInv
  <2>2. map' = [m \in Maps |-> map'[m]]
    BY DEF Sweep
  <2>3. QED BY <2>1, <2>2
<1>5. QED BY <1>2, <1>3, <1>4 DEF Sweep

(* What somebody uses stays, and so does what a database reads from.       *)
LEMMA SweepSpares ==
    ASSUME IInv, Sweep(map), \A u \in Threads : ~Asks(u)
    PROVE  /\ \A u \in Threads : mp[u] # None => map'[mp[u]] = map[mp[u]]
           /\ \A d \in Dbs :
                dbi[d].mf # None /\ (\A u \in Threads : ~(dbip[u] = d /\ pc[u] = "sweep"))
                   => map'[dbi[d].mf] = map[dbi[d].mf]
<1>1. ASSUME NEW u \in Threads, mp[u] # None PROVE map'[mp[u]] = map[mp[u]]
  <2>1. map[mp[u]].uses >= 1 /\ mp[u] \in Maps /\ map[mp[u]].uses \in Nat
    BY <1>1, UserIsCounted, Elements DEF IInv
  <2>2. QED BY <2>1, SweepFrees
<1>2. ASSUME NEW d \in Dbs, dbi[d].mf # None,
             \A u \in Threads : ~(dbip[u] = d /\ pc[u] = "sweep")
      PROVE  map'[dbi[d].mf] = map[dbi[d].mf]
  <2>1. map[dbi[d].mf].uses >= 1 /\ dbi[d].mf \in Maps /\ map[dbi[d].mf].uses \in Nat
    BY <1>2, ReaderIsCounted, Elements DEF IInv
  <2>2. QED BY <2>1, SweepFrees
<1>3. QED BY <1>1, <1>2

(* An entry for another tag, or with a database, has lost no use.          *)
LEMMA NoStray ==
    ASSUME IInv, NEW m \in Maps,
           \/ ~map[m].live
           \/ map[m].db # None
           \/ \E t \in Threads : mp[t] = m /\ appl[t] # "ebm"
    PROVE  stray[m] = 0
<1>1. ~(stray[m] > 0)
  BY DEF IInv, Strays
<1>2. stray[m] \in Nat
  BY DEF IInv, TypeOK
<1>3. QED BY <1>1, <1>2

(* No other step than an import that fails adds to the stray uses.         *)
LEMMA StraysKeep ==
    ASSUME IInv, stray' = stray,
           \A m \in Maps : /\ map'[m].live = map[m].live
                           /\ map'[m].version = map[m].version
                           /\ map'[m].db = map[m].db
                           /\ map'[m].appl \in {map[m].appl, "_INVALID_"},
           \A u \in Threads : mp'[u] # None => mp'[u] = mp[u] /\ appl'[u] = appl[u]
    PROVE  Strays'
BY HeapAssumption DEF IInv, Strays

-----------------------------------------------------------------------------
(* The actions keep the invariant, one lemma each.                         *)

LEMMA FindKeeps ==
    ASSUME IInv, Serial, NEW t \in Threads, NEW a \in Tags, Find(t, a)
    PROVE  IInv'
<1>1. TypeOK'
  BY EntryFound DEF IInv, TypeOK, Find, Goto, Tags
<1>2. Place'
  BY EntryFound, HeapAssumption DEF IInv, TypeOK, Place, Find, Goto, NoFile, HasDb
<1>3. Alone'
  BY StartsTag DEF IInv, TypeOK, Alone, Find, Goto, Busy, Closes
<1>4. Memory'
  BY DEF IInv, TypeOK, Place, Pointers, Memory, Links, Find, Goto, NoFile, HasDb
<1>5. Pointers'
  <2>1. CASE Entry(a) = None
    BY <2>1 DEF IInv, TypeOK, Place, NoFile, Pointers, Find
  <2>2. CASE Entry(a) # None
    <3>1. Entry(a) \in Maps /\ map[Entry(a)].live /\ map[Entry(a)].appl = a
      BY <2>2, EntryFound
    <3>2. a # "_INVALID_"
      BY DEF Tags
    <3>3. QED BY <3>1, <3>2 DEF IInv, TypeOK, Pointers, Find
  <2>3. QED BY <2>1, <2>2
<1>6. Links'
  <2>1. ASSUME NEW d \in Dbs, Entry(a) # None, dbi[d].mf = Entry(a)
        PROVE  a = "db_i"
    BY <2>1, EntryFound DEF IInv, Links, Tags
  <2>2. QED BY <2>1 DEF IInv, TypeOK, Place, HasDb, Links, Find, Goto
<1>7. Counts'
  <2>1. ASSUME NEW m \in Maps
        PROVE  Users(m)' = Users(m) /\ Readers(m)' = Readers(m) /\ map'[m].uses = map[m].uses
               /\ stray'[m] = stray[m]
    BY HeapAssumption DEF IInv, TypeOK, Place, Users, Readers, Asks, NoFile, HasDb, Find, Goto
  <2>2. ASSUME NEW d \in Dbs
        PROVE  Sharers(d)' = Sharers(d) /\ dbi'[d].uses = dbi[d].uses
    BY HeapAssumption DEF IInv, TypeOK, Place, Sharers, NoFile, HasDb, Find, Goto
  <2>3. \A u \in Threads : (Closes(u) \/ pc[u] = "init" => dbi[dbip[u]].uses = 0)'
    BY DEF IInv, TypeOK, Place, Counts, Closes, HasDb, NoFile, Find, Goto
  <2>4. QED BY <2>1, <2>2, <2>3 DEF IInv, Counts
<1>8. Entries'
  <2>1. \A m \in Maps : map[m].appl = "db_i" => map[m].live
    BY DEF IInv, Memory, FreeMap
  <2>2. ASSUME a = "db_i", NEW m \in Maps, map[m].appl = "db_i" PROVE m = Entry(a) /\ Entry(a) # None
    BY <2>1, <2>2, EntryFound, HeapAssumption DEF IInv, Entries
  <2>3. QED BY <2>2 DEF IInv, TypeOK, Entries, Find, Goto
<1>9. Fresh'
  BY DEF IInv, TypeOK, Place, Pointers, Fresh, Find, Goto, NoFile, Asks
<1>10. Bitmaps'
  BY DEF IInv, TypeOK, Place, Pointers, Bitmaps, ConvertedOnce, Find, Goto, NoFile, HasDb
<1>11. Strays'
  <2>1. ASSUME NEW m \in Maps, stray[m] > 0, Entry(a) = m PROVE a = "ebm"
    BY <2>1, EntryFound, HeapAssumption DEF IInv, Strays, Tags
  <2>2. QED BY <2>1 DEF IInv, TypeOK, Strays, Find
<1>12. QED BY <1>1, <1>2, <1>3, <1>4, <1>5, <1>6, <1>7, <1>8, <1>9, <1>10, <1>11 DEF IInv

LEMMA ValidateKeeps ==
    ASSUME IInv, Serial, NEW t \in Threads, Validate(t)
    PROVE  IInv'
<1>1. TypeOK'
  BY DEF IInv, TypeOK, Validate, Goto, MapRec, DbRec, Tags
<1>2. Place'
  BY DEF IInv, TypeOK, Place, Pointers, Links, Validate, Goto, NoFile, HasDb
<1>3. Alone'
  BY DEF IInv, TypeOK, Place, Alone, Validate, Goto, Busy, Closes, HasDb
<1>4. Memory'
  BY DEF IInv, TypeOK, Place, Pointers, Memory, Links, Validate, Goto, NoFile, HasDb
<1>5. Pointers'
  BY DEF IInv, TypeOK, Place, Pointers, Links, Alone, Validate, Goto, NoFile, HasDb, Busy,
     Closes
<1>6. Links'
  BY DEF IInv, TypeOK, Place, Pointers, Links, Alone, Validate, Goto, NoFile, HasDb, Busy,
     Closes
<1>7. Counts'
  <2>1. ASSUME NEW m \in Maps
        PROVE  Users(m)' = Users(m) /\ Readers(m)' = Readers(m) /\ map'[m].uses = map[m].uses
               /\ stray'[m] = stray[m]
    BY HeapAssumption DEF IInv, TypeOK, Place, Users, Readers, Asks, NoFile, HasDb, Validate,
       Goto
  <2>2. ASSUME NEW d \in Dbs
        PROVE  Sharers(d)' = Sharers(d) /\ dbi'[d].uses = dbi[d].uses
    BY HeapAssumption DEF IInv, TypeOK, Place, Sharers, NoFile, HasDb, Validate, Goto
  <2>3. \A u \in Threads : (Closes(u) \/ pc[u] = "init" => dbi[dbip[u]].uses = 0)'
    BY DEF IInv, TypeOK, Place, Counts, Closes, HasDb, NoFile, Validate, Goto
  <2>4. QED BY <2>1, <2>2, <2>3 DEF IInv, Counts
<1>8. Entries'
  BY DEF IInv, TypeOK, Place, Pointers, Alone, Entries, Validate, Goto, NoFile, HasDb, Busy
<1>9. Fresh'
  BY DEF IInv, TypeOK, Place, Pointers, Fresh, Validate, Goto, NoFile, Asks
<1>10. Bitmaps'
  BY DEF IInv, TypeOK, Place, Pointers, Bitmaps, ConvertedOnce, Validate, Goto, NoFile, HasDb
<1>11. Strays'
  BY StraysKeep DEF IInv, TypeOK, Validate
<1>12. QED BY <1>1, <1>2, <1>3, <1>4, <1>5, <1>6, <1>7, <1>8, <1>9, <1>10, <1>11 DEF IInv

LEMMA IncrementKeeps ==
    ASSUME IInv, Serial, NEW t \in Threads, Increment(t)
    PROVE  IInv'
<1>1. TypeOK'
  <2>1. mp[t] \in Maps /\ map[mp[t]] \in MapRec
    BY Holds DEF NoFile, Increment
  <2>2. [map[mp[t]] EXCEPT !.uses = @ + 1] \in MapRec
    BY <2>1 DEF MapRec
  <2>3. map' \in [Maps -> MapRec]
    BY <2>1, <2>2 DEF IInv, TypeOK, MapRec, Increment, Opened, Goto
  <2>4. QED BY <2>3 DEF IInv, TypeOK, MapRec, Tags, Increment, Opened, Goto
<1>2. Place'
  BY DEF IInv, TypeOK, Place, Pointers, Links, Increment, Opened, Goto, NoFile, HasDb
<1>3. Alone'
  BY DEF IInv, TypeOK, Place, Alone, Increment, Opened, Goto, Busy, Closes, HasDb
<1>4. Memory'
  <2>1. mp[t] \in Maps /\ map[mp[t]].live
    BY Holds DEF NoFile, Increment
  <2>2. ASSUME NEW m \in Maps
        PROVE  map'[m].live = map[m].live /\ (m # mp[t] => map'[m] = map[m])
    BY <2>1 DEF IInv, TypeOK, Increment, Opened, Goto
  <2>3. QED BY <2>1, <2>2 DEF IInv, TypeOK, Memory, Increment, Opened, Goto
<1>5. Pointers'
  BY DEF IInv, TypeOK, Place, Pointers, Links, Alone, Increment, Opened, Goto, NoFile, HasDb,
     Busy, Closes
<1>6. Links'
  BY DEF IInv, TypeOK, Place, Pointers, Links, Alone, Increment, Opened, Goto, NoFile, HasDb,
     Busy, Closes
<1>7. Counts'
  <2>0. mp[t] \in Maps /\ map[mp[t]].live /\ map[mp[t]].uses \in Nat
    BY Holds DEF NoFile, Increment
  <2>1. ASSUME NEW m \in Maps
        PROVE  map'[m].uses = Cardinality(Users(m)') + Cardinality(Readers(m)') + stray'[m]
    <3>1. CASE m # mp[t]
      <4>1. Users(m)' = Users(m) /\ Readers(m)' = Readers(m) /\ map'[m].uses = map[m].uses
            /\ stray'[m] = stray[m]
        BY <2>0, <3>1, HeapAssumption DEF IInv, TypeOK, Place, NoFile, HasDb, Asks, Users,
           Readers, Increment, Opened, Goto
      <4>2. QED BY <4>1 DEF IInv, Counts
    <3>2. CASE m = mp[t]
      <4>1. IsFiniteSet(Users(m)) /\ IsFiniteSet(Readers(m))
        <5>1. Users(m) \subseteq Threads /\ Readers(m) \subseteq Dbs
          BY DEF Users, Readers
        <5>2. QED BY <5>1, FiniteAssumption, FS_Subset
      <4>2. Users(m)' = Users(m) \cup {t} /\ t \notin Users(m)
        BY <2>0, <3>2, HeapAssumption DEF IInv, TypeOK, Place, NoFile, HasDb, Asks, Users,
           Increment, Opened, Goto
      <4>3. Readers(m)' = Readers(m)
        BY <2>0, <3>2, HeapAssumption DEF IInv, TypeOK, Place, NoFile, HasDb, Asks, Readers,
           Increment, Opened, Goto
      <4>4. map'[m].uses = map[m].uses + 1 /\ stray'[m] = stray[m] /\ stray[m] \in Nat
        BY <2>0, <3>2 DEF IInv, TypeOK, Increment, Opened, Goto
      <4>5. map[m].uses = Cardinality(Users(m)) + Cardinality(Readers(m)) + stray[m]
        BY DEF IInv, Counts
      <4>6. /\ Cardinality(Users(m)) \in Nat
            /\ Cardinality(Users(m)') = Cardinality(Users(m)) + 1
        BY <4>1, <4>2, CountIn
      <4>7. /\ Cardinality(Readers(m)) \in Nat
            /\ Cardinality(Readers(m)') = Cardinality(Readers(m))
        BY <4>1, <4>3, CountIn
      <4>8. QED BY <4>4, <4>5, <4>6, <4>7
    <3>3. QED BY <3>1, <3>2
  <2>2. ASSUME NEW d \in Dbs PROVE dbi'[d].uses = Cardinality(Sharers(d)')
    <3>1. Sharers(d)' = Sharers(d) /\ dbi'[d].uses = dbi[d].uses
      BY HeapAssumption DEF IInv, TypeOK, Place, HasDb, Sharers, Increment, Opened, Goto
    <3>2. QED BY <3>1 DEF IInv, Counts
  <2>3. \A u \in Threads : (Closes(u) \/ pc[u] = "init" => dbi[dbip[u]].uses = 0)'
    BY <2>0 DEF IInv, TypeOK, Place, Counts, Closes, HasDb, NoFile, Increment, Opened, Goto
  <2>4. QED BY <2>1, <2>2, <2>3 DEF Counts
<1>8. Entries'
  BY DEF IInv, TypeOK, Place, Pointers, Alone, Entries, Increment, Opened, Goto, NoFile,
     HasDb, Busy
<1>9. Fresh'
  BY DEF IInv, TypeOK, Place, Pointers, Fresh, Increment, Opened, Goto, NoFile, Asks
<1>10. Bitmaps'
  BY DEF IInv, TypeOK, Place, Pointers, Bitmaps, ConvertedOnce, Increment, Opened, Goto,
     NoFile, HasDb
<1>11. Strays'
  BY StraysKeep DEF IInv, TypeOK, Increment, Opened
<1>12. QED BY <1>1, <1>2, <1>3, <1>4, <1>5, <1>6, <1>7, <1>8, <1>9, <1>10, <1>11 DEF IInv

LEMMA InvalidateKeeps ==
    ASSUME IInv, Serial, NEW t \in Threads, Invalidate(t)
    PROVE  IInv'
<1>1. TypeOK'
  <2>1. mp[t] \in Maps /\ map[mp[t]] \in MapRec
    BY Holds DEF NoFile, Invalidate
  <2>2. [map[mp[t]] EXCEPT !.appl = "_INVALID_"] \in MapRec
    BY <2>1 DEF MapRec
  <2>3. map' \in [Maps -> MapRec]
    BY <2>1, <2>2 DEF IInv, TypeOK, MapRec, Invalidate, Goto
  <2>4. QED BY <2>3 DEF IInv, TypeOK, MapRec, Tags, Invalidate, Goto
<1>2. Place'
  BY DEF IInv, TypeOK, Place, Pointers, Links, Invalidate, Goto, NoFile, HasDb
<1>3. Alone'
  BY DEF IInv, TypeOK, Place, Alone, Invalidate, Goto, Busy, Closes, HasDb
<1>4. Memory'
  <2>1. mp[t] \in Maps /\ map[mp[t]].live
    BY Holds DEF NoFile, Invalidate
  <2>2. ASSUME NEW m \in Maps
        PROVE  map'[m].live = map[m].live /\ (m # mp[t] => map'[m] = map[m])
    BY <2>1 DEF IInv, TypeOK, Invalidate, Goto
  <2>3. QED BY <2>1, <2>2 DEF IInv, TypeOK, Memory, Invalidate, Goto
<1>5. Pointers'
  BY DEF IInv, TypeOK, Place, Pointers, Links, Alone, Invalidate, Goto, NoFile, HasDb, Busy,
     Closes
<1>6. Links'
  BY DEF IInv, TypeOK, Place, Pointers, Links, Alone, Invalidate, Goto, NoFile, HasDb, Busy,
     Closes
<1>7. Counts'
  <2>1. ASSUME NEW m \in Maps
        PROVE  Users(m)' = Users(m) /\ Readers(m)' = Readers(m) /\ map'[m].uses = map[m].uses
               /\ stray'[m] = stray[m]
    BY HeapAssumption DEF IInv, TypeOK, Place, Users, Readers, Asks, NoFile, HasDb,
       Invalidate, Goto
  <2>2. ASSUME NEW d \in Dbs
        PROVE  Sharers(d)' = Sharers(d) /\ dbi'[d].uses = dbi[d].uses
    BY HeapAssumption DEF IInv, TypeOK, Place, Sharers, NoFile, HasDb, Invalidate, Goto
  <2>3. \A u \in Threads : (Closes(u) \/ pc[u] = "init" => dbi[dbip[u]].uses = 0)'
    BY DEF IInv, TypeOK, Place, Counts, Closes, HasDb, NoFile, Invalidate, Goto
  <2>4. QED BY <2>1, <2>2, <2>3 DEF IInv, Counts
<1>8. Entries'
  BY DEF IInv, TypeOK, Place, Pointers, Alone, Entries, Invalidate, Goto, NoFile, HasDb, Busy
<1>9. Fresh'
  BY DEF IInv, TypeOK, Place, Pointers, Fresh, Invalidate, Goto, NoFile, Asks
<1>10. Bitmaps'
  BY DEF IInv, TypeOK, Place, Pointers, Bitmaps, ConvertedOnce, Invalidate, Goto, NoFile, HasDb
<1>11. Strays'
  BY StraysKeep DEF IInv, TypeOK, Invalidate
<1>12. QED BY <1>1, <1>2, <1>3, <1>4, <1>5, <1>6, <1>7, <1>8, <1>9, <1>10, <1>11 DEF IInv

LEMMA MapFileKeeps ==
    ASSUME IInv, Serial, NEW t \in Threads, MapFile(t)
    PROVE  IInv'
<1>1. TypeOK'
  BY DEF IInv, TypeOK, MapFile, Goto, MapRec, DbRec, Tags
<1>2. Place'
  BY DEF IInv, TypeOK, Place, Pointers, Links, MapFile, Goto, NoFile, HasDb
<1>3. Alone'
  BY DEF IInv, TypeOK, Place, Alone, MapFile, Goto, Busy, Closes, HasDb
<1>4. Memory'
  BY DEF IInv, TypeOK, Place, Pointers, Memory, Links, MapFile, Goto, NoFile, HasDb
<1>5. Pointers'
  BY DEF IInv, TypeOK, Place, Pointers, Links, Alone, MapFile, Goto, NoFile, HasDb, Busy, Closes
<1>6. Links'
  BY DEF IInv, TypeOK, Place, Pointers, Links, Alone, MapFile, Goto, NoFile, HasDb, Busy, Closes
<1>7. Counts'
  <2>1. ASSUME NEW m \in Maps
        PROVE  Users(m)' = Users(m) /\ Readers(m)' = Readers(m) /\ map'[m].uses = map[m].uses
               /\ stray'[m] = stray[m]
    BY HeapAssumption DEF IInv, TypeOK, Place, Users, Readers, Asks, NoFile, HasDb, MapFile,
       Goto
  <2>2. ASSUME NEW d \in Dbs
        PROVE  Sharers(d)' = Sharers(d) /\ dbi'[d].uses = dbi[d].uses
    BY HeapAssumption DEF IInv, TypeOK, Place, Sharers, NoFile, HasDb, MapFile, Goto
  <2>3. \A u \in Threads : (Closes(u) \/ pc[u] = "init" => dbi[dbip[u]].uses = 0)'
    BY DEF IInv, TypeOK, Place, Counts, Closes, HasDb, NoFile, MapFile, Goto
  <2>4. QED BY <2>1, <2>2, <2>3 DEF IInv, Counts
<1>8. Entries'
  BY DEF IInv, TypeOK, Place, Pointers, Alone, Entries, MapFile, Goto, NoFile, HasDb, Busy
<1>9. Fresh'
  BY DEF IInv, TypeOK, Place, Pointers, Fresh, MapFile, Goto, NoFile, Asks
<1>10. Bitmaps'
  BY DEF IInv, TypeOK, Place, Pointers, Bitmaps, ConvertedOnce, MapFile, Goto, NoFile, HasDb
<1>11. Strays'
  BY StraysKeep DEF IInv, TypeOK, MapFile
<1>12. QED BY <1>1, <1>2, <1>3, <1>4, <1>5, <1>6, <1>7, <1>8, <1>9, <1>10, <1>11 DEF IInv

LEMMA OpenFailsKeeps ==
    ASSUME IInv, Serial, NEW t \in Threads, OpenFails(t)
    PROVE  IInv'
<1>1. TypeOK'
  BY DEF IInv, TypeOK, OpenFails, Returns, Goto, MapRec, DbRec, Tags
<1>2. Place'
  BY DEF IInv, TypeOK, Place, Pointers, Links, OpenFails, Returns, Goto, NoFile, HasDb
<1>3. Alone'
  BY DEF IInv, TypeOK, Place, Alone, OpenFails, Returns, Goto, Busy, Closes, HasDb
<1>4. Memory'
  BY DEF IInv, TypeOK, Place, Pointers, Memory, Links, OpenFails, Returns, Goto, NoFile, HasDb
<1>5. Pointers'
  BY DEF IInv, TypeOK, Place, Pointers, Links, Alone, OpenFails, Returns, Goto, NoFile,
     HasDb, Busy, Closes
<1>6. Links'
  BY DEF IInv, TypeOK, Place, Pointers, Links, Alone, OpenFails, Returns, Goto, NoFile,
     HasDb, Busy, Closes
<1>7. Counts'
  <2>1. ASSUME NEW m \in Maps
        PROVE  Users(m)' = Users(m) /\ Readers(m)' = Readers(m) /\ map'[m].uses = map[m].uses
               /\ stray'[m] = stray[m]
    BY HeapAssumption DEF IInv, TypeOK, Place, Users, Readers, Asks, NoFile, HasDb,
       OpenFails, Returns, Goto
  <2>2. ASSUME NEW d \in Dbs
        PROVE  Sharers(d)' = Sharers(d) /\ dbi'[d].uses = dbi[d].uses
    BY HeapAssumption DEF IInv, TypeOK, Place, Sharers, NoFile, HasDb, OpenFails, Returns, Goto
  <2>3. \A u \in Threads : (Closes(u) \/ pc[u] = "init" => dbi[dbip[u]].uses = 0)'
    BY DEF IInv, TypeOK, Place, Counts, Closes, HasDb, NoFile, OpenFails, Returns, Goto
  <2>4. QED BY <2>1, <2>2, <2>3 DEF IInv, Counts
<1>8. Entries'
  BY DEF IInv, TypeOK, Place, Pointers, Alone, Entries, OpenFails, Returns, Goto, NoFile,
     HasDb, Busy
<1>9. Fresh'
  BY DEF IInv, TypeOK, Place, Pointers, Fresh, OpenFails, Returns, Goto, NoFile, Asks
<1>10. Bitmaps'
  BY DEF IInv, TypeOK, Place, Pointers, Bitmaps, ConvertedOnce, OpenFails, Returns, Goto,
     NoFile, HasDb
<1>11. Strays'
  BY StraysKeep DEF IInv, TypeOK, OpenFails, Returns
<1>12. QED BY <1>1, <1>2, <1>3, <1>4, <1>5, <1>6, <1>7, <1>8, <1>9, <1>10, <1>11 DEF IInv

LEMMA EntersKeeps ==
    ASSUME IInv, Serial, NEW t \in Threads, NEW m \in Maps, Enters(t, m)
    PROVE  IInv'
<1>0. /\ ~map[m].live /\ map[m] = FreeMap /\ m # None
      /\ \A u \in Threads : mp[u] # m
      /\ \A e \in Dbs : dbi[e].mf # m
  BY HeapAssumption DEF IInv, Memory, Enters, UnusedMaps
<1> DEFINE entry == [FreeMap EXCEPT !.live = TRUE, !.appl = appl[t], !.version = copy[t], !.uses = 1]
<1>s1. /\ map' = [map EXCEPT ![m] = entry] /\ entry \in MapRec
       /\ entry.live /\ entry.appl = appl[t] /\ entry.version = copy[t] /\ entry.uses = 1
       /\ entry.bitmap = "none" /\ entry.db = None /\ FreeMap.uses = 0
  <2>1. appl[t] \in Tags /\ copy[t] \in Versions \cup {Gone}
    BY DEF IInv, TypeOK
  <2>2. QED BY <2>1 DEF Enters, MapRec, FreeMap
<1>s2. /\ map' = [map EXCEPT ![m] = entry] /\ map'[m] = entry
       /\ \A n \in Maps : n # m => map'[n] = map[n]
  BY <1>s1 DEF IInv, TypeOK
<1> HIDE DEF entry
<1>1. TypeOK'
  <2>1. map' \in [Maps -> MapRec]
    BY <1>s1 DEF IInv, TypeOK, MapRec
  <2>2. table' \in Seq(Maps)
    BY AppendProperties DEF IInv, TypeOK, Enters
  <2>3. QED BY <2>1, <2>2 DEF IInv, TypeOK, MapRec, Enters, Opened, Goto
<1>2. Place'
  BY <1>0 DEF IInv, TypeOK, Place, Enters, Opened, Goto, NoFile, HasDb
<1>3. Alone'
  BY DEF IInv, TypeOK, Place, Alone, Enters, Opened, Goto, Busy, Closes, HasDb
<1>4. Memory'
  <2>1. /\ table \in Seq(Maps) /\ Len(table) \in Nat /\ Len(table') = Len(table) + 1
        /\ \A i \in 1 .. Len(table) : table'[i] = table[i] /\ table[i] \in Maps
        /\ table'[Len(table) + 1] = m
    BY LenProperties, ElementOfSeq, AppendProperties DEF IInv, TypeOK, Enters
  <2>2. ToSet(table) = {table[i] : i \in 1 .. Len(table)}
    BY <2>1, LenProperties DEF ToSet
  <2>3. ToSet(table') = {table'[i] : i \in 1 .. Len(table')}
    <3>1. table' \in Seq(Maps)
      BY AppendProperties DEF IInv, TypeOK, Enters
    <3>2. QED BY <3>1, LenProperties DEF ToSet
  <2>4. m \notin ToSet(table)
    BY <1>0 DEF IInv, Memory
  <2>5. ToSet(table') = ToSet(table) \cup {m}
    BY <2>1, <2>2, <2>3
  <2>6. Distinct(table')
    <3>1. \A i \in 1 .. Len(table) : table[i] # m
      BY <2>2, <2>4
    <3>2. QED BY <2>1, <3>1 DEF IInv, Memory, Distinct
  <2>7. QED BY <1>s1, <1>s2, <2>5, <2>6 DEF IInv, Memory, Enters
<1>5. Pointers'
  BY <1>0, <1>s1, <1>s2, Elements DEF IInv, TypeOK, Pointers, Enters, Opened, Goto
<1>6. Links'
  <2>1. ASSUME NEW e \in Dbs, dbi'[e].mf # None PROVE dbi'[e].mf \in Maps /\ dbi'[e].mf # m
    BY <2>1, <1>0, Elements DEF IInv, Enters
  <2>2. ASSUME NEW u \in Threads, pc'[u] = "free" \/ pc[u] = "free" PROVE pc'[u] = pc[u]
    BY <2>2 DEF IInv, TypeOK, Enters, Opened, Goto
  <2>3. QED BY <2>1, <2>2, <1>0, <1>s1, <1>s2 DEF IInv, TypeOK, Links, Enters
<1>7. Counts'
  <2>1. ASSUME NEW n \in Maps
        PROVE  map'[n].uses = Cardinality(Users(n)') + Cardinality(Readers(n)') + stray'[n]
    <3>1. Readers(n)' = Readers(n)
      BY DEF IInv, TypeOK, Readers, Enters, Opened, Goto
    <3>2. CASE n # m
      <4>1. Users(n)' = Users(n)
        BY <3>2, HeapAssumption DEF IInv, TypeOK, Place, NoFile, Users, Asks, Enters, Opened,
           Goto
      <4>2. QED BY <3>1, <3>2, <4>1, <1>s2 DEF IInv, Counts, Enters
    <3>3. CASE n = m
      <4>1. Users(n)' = {t} /\ Readers(n) = {}
        BY <3>3, <1>0 DEF IInv, TypeOK, Users, Readers, Asks, Enters, Opened, Goto
      <4>2. Cardinality({t}) = 1 /\ Cardinality({}) = 0
        BY FS_Singleton, FS_EmptySet
      <4>3. stray'[n] = 0
        BY <3>3, <1>0, NoStray DEF Enters
      <4>4. QED BY <3>1, <3>3, <4>1, <4>2, <4>3, <1>s1, <1>s2
    <3>4. QED BY <3>2, <3>3
  <2>2. ASSUME NEW e \in Dbs PROVE Sharers(e)' = Sharers(e)
    BY HeapAssumption DEF IInv, TypeOK, Place, NoFile, HasDb, Sharers, Enters, Opened, Goto
  <2>3. \A u \in Threads : (Closes(u) \/ pc[u] = "init" => dbi[dbip[u]].uses = 0)'
    BY DEF IInv, TypeOK, Counts, Closes, Enters, Opened, Goto
  <2>4. QED BY <2>1, <2>2, <2>3 DEF IInv, Counts, Enters
<1>8. Entries'
  <2>1. \A n \in Maps : map'[n].appl = "db_i" => (n = m /\ appl[t] = "db_i") \/ map[n].appl = "db_i"
    BY <1>s1, <1>s2
  <2>2. \A u \in Threads : appl[t] = "db_i" /\ appl[u] = "db_i" /\ u # t => pc[u] \notin {"found", "stale", "map", "add"}
    BY DEF IInv, Alone, Busy, Enters
  <2>3. pc'[t] \notin {"found", "stale", "map", "add"}
    BY DEF IInv, TypeOK, Enters, Opened, Goto
  <2>4. QED BY <2>1, <2>2, <2>3 DEF IInv, TypeOK, Entries, Enters, Opened, Goto
<1>9. Fresh'
  BY <1>0, <1>s1, <1>s2, Elements, Holds DEF IInv, TypeOK, NoFile, Fresh, Asks, Enters,
     Opened, Goto
<1>10. Bitmaps'
  BY <1>0, <1>s1, <1>s2, Elements DEF IInv, TypeOK, Place, NoFile, Bitmaps, ConvertedOnce,
     Enters, Opened, Goto
<1>11. Strays'
  <2>1. stray[m] = 0
    BY <1>0, NoStray
  <2>2. QED BY <2>1, <1>s2 DEF IInv, TypeOK, Strays, Enters
<1>12. QED BY <1>1, <1>2, <1>3, <1>4, <1>5, <1>6, <1>7, <1>8, <1>9, <1>10, <1>11 DEF IInv

LEMMA CloseKeeps ==
    ASSUME IInv, Serial, NEW t \in Threads, Close(t)
    PROVE  IInv'
<1>1. TypeOK'
  <2>0. ~NoFile(t) /\ ~Asks(t)
    BY DEF NoFile, Asks, Close
  <2>1. mp[t] \in Maps /\ map[mp[t]] \in MapRec
    BY <2>0, Holds
  <2>2. map[mp[t]].uses - 1 \in Nat
    BY Holds, UserIsCounted, HeapAssumption, <2>1, <2>0 DEF IInv
  <2>3. [map[mp[t]] EXCEPT !.uses = @ - 1] \in MapRec
    BY <2>1, <2>2 DEF MapRec
  <2>4. map' \in [Maps -> MapRec]
    BY <2>1, <2>3 DEF IInv, TypeOK, MapRec, Close, Released
  <2>5. QED BY <2>4 DEF IInv, TypeOK, MapRec, Close, Returns, Goto, Tags
<1>2. Place'
  BY DEF IInv, TypeOK, Place, Pointers, Links, Close, Released, Returns, Goto, NoFile, HasDb
<1>3. Alone'
  BY DEF IInv, TypeOK, Place, Alone, Close, Released, Returns, Goto, Busy, Closes, HasDb
<1>4. Memory'
  <2>1. mp[t] \in Maps /\ map[mp[t]].live
    BY Holds DEF NoFile, Close
  <2>2. ASSUME NEW m \in Maps
        PROVE  map'[m].live = map[m].live /\ (m # mp[t] => map'[m] = map[m])
    BY <2>1 DEF IInv, TypeOK, Close, Released, Returns, Goto
  <2>3. QED BY <2>1, <2>2 DEF IInv, TypeOK, Memory, Close, Released, Returns, Goto
<1>5. Pointers'
  BY DEF IInv, TypeOK, Place, Pointers, Links, Alone, Close, Released, Returns, Goto, NoFile,
     HasDb, Busy, Closes
<1>6. Links'
  BY DEF IInv, TypeOK, Place, Pointers, Links, Alone, Close, Released, Returns, Goto, NoFile,
     HasDb, Busy, Closes
<1>7. Counts'
  <2>0. mp[t] \in Maps /\ map[mp[t]].uses \in Nat /\ dbip[t] = None
    BY Holds DEF IInv, Place, NoFile, HasDb, Close
  <2>1. ASSUME NEW m \in Maps
        PROVE  map'[m].uses = Cardinality(Users(m)') + Cardinality(Readers(m)') + stray'[m]
    <3>1. CASE m # mp[t]
      <4>1. Users(m)' = Users(m) /\ Readers(m)' = Readers(m) /\ map'[m].uses = map[m].uses
            /\ stray'[m] = stray[m]
        BY <2>0, <3>1, HeapAssumption DEF IInv, TypeOK, Place, NoFile, HasDb, Asks, Users,
           Readers, Close, Released, Returns, Goto
      <4>2. QED BY <4>1 DEF IInv, Counts
    <3>2. CASE m = mp[t]
      <4>1. IsFiniteSet(Users(m)) /\ IsFiniteSet(Readers(m))
        <5>1. Users(m) \subseteq Threads /\ Readers(m) \subseteq Dbs
          BY DEF Users, Readers
        <5>2. QED BY <5>1, FiniteAssumption, FS_Subset
      <4>2. Users(m)' = Users(m) \ {t} /\ t \in Users(m)
        BY <2>0, <3>2, HeapAssumption DEF IInv, TypeOK, Place, NoFile, HasDb, Asks, Users,
           Close, Released, Returns, Goto
      <4>3. Readers(m)' = Readers(m)
        BY <2>0, <3>2, HeapAssumption DEF IInv, TypeOK, Place, NoFile, HasDb, Asks, Readers,
           Close, Released, Returns, Goto
      <4>4. map'[m].uses = map[m].uses - 1 /\ stray'[m] = stray[m] /\ stray[m] \in Nat
        BY <2>0, <3>2 DEF IInv, TypeOK, Close, Released, Returns, Goto
      <4>5. map[m].uses = Cardinality(Users(m)) + Cardinality(Readers(m)) + stray[m]
        BY DEF IInv, Counts
      <4>6. /\ Cardinality(Users(m)) \in Nat
            /\ Cardinality(Users(m)') = Cardinality(Users(m)) - 1
        BY <4>1, <4>2, CountIn
      <4>7. /\ Cardinality(Readers(m)) \in Nat
            /\ Cardinality(Readers(m)') = Cardinality(Readers(m))
        BY <4>1, <4>3, CountIn
      <4>8. QED BY <4>4, <4>5, <4>6, <4>7
    <3>3. QED BY <3>1, <3>2
  <2>2. ASSUME NEW d \in Dbs PROVE dbi'[d].uses = Cardinality(Sharers(d)')
    <3>1. Sharers(d)' = Sharers(d) /\ dbi'[d].uses = dbi[d].uses
      BY <2>0, HeapAssumption DEF IInv, TypeOK, Place, NoFile, HasDb, Asks, Sharers, Close,
         Released, Returns, Goto
    <3>2. QED BY <3>1 DEF IInv, Counts
  <2>3. \A u \in Threads : (Closes(u) \/ pc[u] = "init" => dbi[dbip[u]].uses = 0)'
    BY <2>0 DEF IInv, TypeOK, Place, Counts, Closes, HasDb, NoFile, Close, Released, Returns,
       Goto
  <2>4. QED BY <2>1, <2>2, <2>3 DEF Counts
<1>8. Entries'
  BY DEF IInv, TypeOK, Place, Pointers, Alone, Entries, Close, Released, Returns, Goto,
     NoFile, HasDb, Busy
<1>9. Fresh'
  BY DEF IInv, TypeOK, Place, Pointers, Fresh, Close, Released, Returns, Goto, NoFile, Asks
<1>10. Bitmaps'
  BY DEF IInv, TypeOK, Place, Pointers, Bitmaps, ConvertedOnce, Close, Released, Returns,
     Goto, NoFile, HasDb
<1>11. Strays'
  BY StraysKeep DEF IInv, TypeOK, Close, Released, Returns
<1>12. QED BY <1>1, <1>2, <1>3, <1>4, <1>5, <1>6, <1>7, <1>8, <1>9, <1>10, <1>11 DEF IInv

LEMMA TooShortKeeps ==
    ASSUME IInv, Serial, NEW t \in Threads, TooShort(t)
    PROVE  IInv'
<1>0. /\ mp[t] \in Maps /\ mp[t] # None /\ map[mp[t]].live /\ stray[mp[t]] \in Nat
      /\ stray'[mp[t]] = stray[mp[t]] + 1
      /\ \A m \in Maps : m # mp[t] => stray'[m] = stray[m]
      /\ stray' \in [Maps -> Nat]
  <2>1. mp[t] \in Maps /\ map[mp[t]].live
    BY Holds DEF NoFile, TooShort
  <2>2. QED BY <2>1, HeapAssumption DEF IInv, TypeOK, TooShort
<1>1. TypeOK'
  BY <1>0 DEF IInv, TypeOK, TooShort, Returns, Goto, Tags
<1>2. Place'
  BY DEF IInv, TypeOK, Place, TooShort, Returns, Goto, NoFile, HasDb
<1>3. Alone'
  BY DEF IInv, TypeOK, Place, Alone, TooShort, Returns, Goto, Busy, Closes, HasDb
<1>4. Memory'
  BY DEF IInv, Memory, TooShort
<1>5. Pointers'
  BY DEF IInv, TypeOK, Pointers, TooShort, Returns, Goto
<1>6. Links'
  BY DEF IInv, TypeOK, Place, Links, TooShort, Returns, Goto, NoFile, HasDb
<1>7. Counts'
  <2>1. ASSUME NEW m \in Maps
        PROVE  map'[m].uses = Cardinality(Users(m)') + Cardinality(Readers(m)') + stray'[m]
    <3>1. Readers(m)' = Readers(m) /\ map'[m].uses = map[m].uses
      BY HeapAssumption DEF IInv, TypeOK, Place, NoFile, HasDb, Readers, TooShort, Returns, Goto
    <3>2. map[m].uses = Cardinality(Users(m)) + Cardinality(Readers(m)) + stray[m]
      BY DEF IInv, Counts
    <3>3. CASE m # mp[t]
      <4>1. Users(m)' = Users(m)
        BY <3>3, HeapAssumption DEF IInv, TypeOK, Users, Asks, TooShort, Returns, Goto
      <4>2. QED BY <3>1, <3>2, <3>3, <4>1, <1>0
    <3>4. CASE m = mp[t]
      <4>1. IsFiniteSet(Users(m)) /\ IsFiniteSet(Readers(m))
        <5>1. Users(m) \subseteq Threads /\ Readers(m) \subseteq Dbs
          BY DEF Users, Readers
        <5>2. QED BY <5>1, FiniteAssumption, FS_Subset
      <4>2. Users(m)' = Users(m) \ {t} /\ t \in Users(m)
        BY <3>4, HeapAssumption DEF IInv, TypeOK, Users, Asks, TooShort, Returns, Goto
      <4>3. /\ Cardinality(Users(m)) \in Nat /\ Cardinality(Readers(m)) \in Nat
            /\ Cardinality(Users(m)') = Cardinality(Users(m)) - 1
        BY <4>1, <4>2, CountIn
      <4>4. QED BY <3>1, <3>2, <3>4, <4>3, <1>0
    <3>5. QED BY <3>3, <3>4
  <2>2. ASSUME NEW d \in Dbs
        PROVE  Sharers(d)' = Sharers(d) /\ dbi'[d].uses = dbi[d].uses
    BY HeapAssumption DEF IInv, TypeOK, Place, Sharers, NoFile, HasDb, TooShort, Returns, Goto
  <2>3. \A u \in Threads : (Closes(u) \/ pc[u] = "init" => dbi[dbip[u]].uses = 0)'
    BY DEF IInv, TypeOK, Place, Counts, Closes, HasDb, NoFile, TooShort, Returns, Goto
  <2>4. QED BY <2>1, <2>2, <2>3 DEF IInv, Counts
<1>8. Entries'
  BY DEF IInv, TypeOK, Entries, TooShort, Returns, Goto
<1>9. Fresh'
  BY DEF IInv, TypeOK, Fresh, TooShort, Returns, Goto, Asks
<1>10. Bitmaps'
  BY DEF IInv, TypeOK, Bitmaps, ConvertedOnce, TooShort, Returns, Goto
<1>11. Strays'
  <2>1. map[mp[t]].version \in Short /\ map[mp[t]].appl \in {"ebm", "_INVALID_"} /\ appl[t] = "ebm"
    BY <1>0 DEF IInv, Pointers, TooShort
  <2>2. map[mp[t]].db = None
    BY <1>0, <2>1, Elements, HeapAssumption DEF IInv, Links
  <2>3. \A u \in Threads : mp[u] = mp[t] => appl[u] = "ebm"
    BY <1>0, <2>1 DEF IInv, Pointers
  <2>4. map' = map /\ \A u \in Threads : mp'[u] # None => mp'[u] = mp[u] /\ appl'[u] = appl[u]
    BY DEF IInv, TypeOK, TooShort, Returns
  <2>5. QED BY <1>0, <2>1, <2>2, <2>3, <2>4, HeapAssumption DEF IInv, Strays
<1>12. QED BY <1>1, <1>2, <1>3, <1>4, <1>5, <1>6, <1>7, <1>8, <1>9, <1>10, <1>11 DEF IInv

LEMMA CheckBitmapKeeps ==
    ASSUME IInv, Serial, NEW t \in Threads, CheckBitmap(t)
    PROVE  IInv'
<1>1. TypeOK'
  BY DEF IInv, TypeOK, CheckBitmap, Has, Goto, MapRec, DbRec, Tags
<1>2. Place'
  BY DEF IInv, TypeOK, Place, Pointers, Links, CheckBitmap, Has, Goto, NoFile, HasDb
<1>3. Alone'
  <2>1. Busy(t) /\ ~Closes(t)' /\ appl[t] = "ebm"
    BY DEF IInv, TypeOK, Busy, Closes, CheckBitmap, Has, Goto
  <2>2. \A u \in Threads : u # t => pc'[u] = pc[u]
    BY DEF IInv, TypeOK, CheckBitmap, Has, Goto
  <2>3. QED BY <2>1, <2>2 DEF IInv, Alone, Busy, Closes, CheckBitmap
<1>4. Memory'
  BY DEF IInv, TypeOK, Place, Pointers, Memory, Links, CheckBitmap, Has, Goto, NoFile, HasDb
<1>5. Pointers'
  BY DEF IInv, TypeOK, Place, Pointers, Links, Alone, CheckBitmap, Has, Goto, NoFile, HasDb,
     Busy, Closes
<1>6. Links'
  BY DEF IInv, TypeOK, Place, Pointers, Links, Alone, CheckBitmap, Has, Goto, NoFile, HasDb,
     Busy, Closes
<1>7. Counts'
  <2>1. ASSUME NEW m \in Maps
        PROVE  Users(m)' = Users(m) /\ Readers(m)' = Readers(m) /\ map'[m].uses = map[m].uses
               /\ stray'[m] = stray[m]
    BY HeapAssumption DEF IInv, TypeOK, Place, Users, Readers, Asks, NoFile, HasDb,
       CheckBitmap, Has, Goto
  <2>2. ASSUME NEW d \in Dbs
        PROVE  Sharers(d)' = Sharers(d) /\ dbi'[d].uses = dbi[d].uses
    BY HeapAssumption DEF IInv, TypeOK, Place, Sharers, NoFile, HasDb, CheckBitmap, Has, Goto
  <2>3. \A u \in Threads : (Closes(u) \/ pc[u] = "init" => dbi[dbip[u]].uses = 0)'
    BY DEF IInv, TypeOK, Place, Counts, Closes, HasDb, NoFile, CheckBitmap, Has, Goto
  <2>4. QED BY <2>1, <2>2, <2>3 DEF IInv, Counts
<1>8. Entries'
  BY DEF IInv, TypeOK, Place, Pointers, Alone, Entries, CheckBitmap, Has, Goto, NoFile,
     HasDb, Busy
<1>9. Fresh'
  BY DEF IInv, TypeOK, Place, Pointers, Fresh, CheckBitmap, Has, Goto, NoFile, Asks
<1>10. Bitmaps'
  <2>1. CASE map[mp[t]].bitmap = "none"
    BY <2>1 DEF IInv, TypeOK, Bitmaps, ConvertedOnce, CheckBitmap, Goto
  <2>2. CASE map[mp[t]].bitmap # "none"
    BY <2>2 DEF IInv, TypeOK, Bitmaps, ConvertedOnce, CheckBitmap, Has, Goto
  <2>3. QED BY <2>1, <2>2
<1>11. Strays'
  BY StraysKeep DEF IInv, TypeOK, CheckBitmap
<1>12. QED BY <1>1, <1>2, <1>3, <1>4, <1>5, <1>6, <1>7, <1>8, <1>9, <1>10, <1>11 DEF IInv

LEMMA FirstToConvertKeeps ==
    ASSUME IInv, Serial, NEW t \in Threads, FirstToConvert(t)
    PROVE  IInv'
<1>1. TypeOK'
  <2>1. mp[t] \in Maps /\ map[mp[t]] \in MapRec
    BY Holds DEF NoFile, FirstToConvert
  <2>2. [map[mp[t]] EXCEPT !.bitmap = "part"] \in MapRec
    BY <2>1 DEF MapRec
  <2>3. map' \in [Maps -> MapRec]
    BY <2>1, <2>2 DEF IInv, TypeOK, MapRec, FirstToConvert, Goto
  <2>4. QED BY <2>3 DEF IInv, TypeOK, MapRec, Tags, FirstToConvert, Goto
<1>2. Place'
  BY DEF IInv, TypeOK, Place, Pointers, Links, FirstToConvert, Goto, NoFile, HasDb
<1>3. Alone'
  BY DEF IInv, TypeOK, Place, Alone, FirstToConvert, Goto, Busy, Closes, HasDb
<1>4. Memory'
  <2>1. mp[t] \in Maps /\ map[mp[t]].live
    BY Holds DEF NoFile, FirstToConvert
  <2>2. ASSUME NEW m \in Maps
        PROVE  map'[m].live = map[m].live /\ (m # mp[t] => map'[m] = map[m])
    BY <2>1 DEF IInv, TypeOK, FirstToConvert, Goto
  <2>3. QED BY <2>1, <2>2 DEF IInv, TypeOK, Memory, FirstToConvert, Goto
<1>5. Pointers'
  BY DEF IInv, TypeOK, Place, Pointers, Links, Alone, FirstToConvert, Goto, NoFile, HasDb,
     Busy, Closes
<1>6. Links'
  BY DEF IInv, TypeOK, Place, Pointers, Links, Alone, FirstToConvert, Goto, NoFile, HasDb,
     Busy, Closes
<1>7. Counts'
  <2>1. ASSUME NEW m \in Maps
        PROVE  Users(m)' = Users(m) /\ Readers(m)' = Readers(m) /\ map'[m].uses = map[m].uses
               /\ stray'[m] = stray[m]
    BY HeapAssumption DEF IInv, TypeOK, Place, Users, Readers, Asks, NoFile, HasDb,
       FirstToConvert, Goto
  <2>2. ASSUME NEW d \in Dbs
        PROVE  Sharers(d)' = Sharers(d) /\ dbi'[d].uses = dbi[d].uses
    BY HeapAssumption DEF IInv, TypeOK, Place, Sharers, NoFile, HasDb, FirstToConvert, Goto
  <2>3. \A u \in Threads : (Closes(u) \/ pc[u] = "init" => dbi[dbip[u]].uses = 0)'
    BY DEF IInv, TypeOK, Place, Counts, Closes, HasDb, NoFile, FirstToConvert, Goto
  <2>4. QED BY <2>1, <2>2, <2>3 DEF IInv, Counts
<1>8. Entries'
  BY DEF IInv, TypeOK, Place, Pointers, Alone, Entries, FirstToConvert, Goto, NoFile, HasDb,
     Busy
<1>9. Fresh'
  <2>1. mp[t] \in Maps /\ map[mp[t]].live
    BY Holds DEF NoFile, FirstToConvert
  <2>2. \A m \in Maps : map'[m].version = map[m].version
    BY <2>1 DEF IInv, TypeOK, FirstToConvert
  <2>3. \A u \in Threads : pc[u] = "incr" => mp[u] \in Maps
    BY Holds DEF NoFile
  <2>4. QED BY <2>2, <2>3 DEF IInv, TypeOK, Fresh, Asks, FirstToConvert, Goto
<1>10. Bitmaps'
  <2>1. mp[t] \in Maps
    BY Holds DEF NoFile, FirstToConvert
  <2>2. /\ map'[mp[t]].bitmap = "part"
        /\ \A m \in Maps : m # mp[t] => map'[m] = map[m]
    BY <2>1 DEF IInv, TypeOK, FirstToConvert
  <2>3. \A u \in Threads : pc[u] \in {"has", "convert"} /\ mp[u] # None => mp[u] \in Maps
    BY DEF IInv, TypeOK
  <2>4. \A u \in Threads : pc[u] = "convert" => mp[u] # mp[t]
    BY DEF IInv, Bitmaps, FirstToConvert
  <2>5. \A u \in Threads : u # t => pc'[u] = pc[u]
    BY DEF IInv, TypeOK, FirstToConvert, Goto
  <2>6. pc'[t] = "convert" /\ mp' = mp /\ appl' = appl
    BY DEF IInv, TypeOK, FirstToConvert, Goto
  <2>7. \A u \in Threads : (pc[u] = "convert" \/ (pc[u] = "has" /\ appl[u] = "ebm")) => mp[u] # None
    BY DEF IInv, Place, NoFile
  <2>8. \A m \in Maps : map'[m].bitmap = "part" => \E u \in Threads : pc'[u] = "convert" /\ mp'[u] = m
    BY <2>2, <2>5, <2>6 DEF IInv, Bitmaps, ConvertedOnce, FirstToConvert
  <2>9. \A u, v \in Threads : pc'[u] = "convert" /\ pc'[v] = "convert" /\ mp'[u] = mp'[v] => u = v
    BY <2>4, <2>5, <2>6 DEF IInv, Bitmaps, ConvertedOnce
  <2>10. \A u \in Threads : pc'[u] = "has" /\ appl'[u] = "ebm" => map'[mp'[u]].bitmap # "none"
    BY <2>2, <2>3, <2>5, <2>6, <2>7 DEF IInv, Bitmaps, ConvertedOnce
  <2>11. ASSUME NEW u \in Threads, pc'[u] = "convert" PROVE map'[mp'[u]].bitmap = "part"
    <3>1. CASE u = t
      BY <3>1, <2>2, <2>6
    <3>2. CASE u # t
      <4>1. pc[u] = "convert" /\ mp[u] \in Maps /\ mp[u] # mp[t]
        BY <2>11, <3>2, <2>3, <2>4, <2>5, <2>7
      <4>2. map'[mp[u]] = map[mp[u]] /\ map[mp[u]].bitmap = "part"
        BY <4>1, <2>2 DEF IInv, Bitmaps
      <4>3. QED BY <4>2, <2>6
    <3>3. QED BY <3>1, <3>2
  <2>12. QED BY <2>8, <2>9, <2>10, <2>11 DEF Bitmaps, ConvertedOnce
<1>11. Strays'
  BY StraysKeep DEF IInv, TypeOK, FirstToConvert
<1>12. QED BY <1>1, <1>2, <1>3, <1>4, <1>5, <1>6, <1>7, <1>8, <1>9, <1>10, <1>11 DEF IInv

LEMMA TooLateToConvertKeeps ==
    ASSUME IInv, Serial, NEW t \in Threads, TooLateToConvert(t)
    PROVE  IInv'
<1>1. TypeOK'
  BY DEF IInv, TypeOK, TooLateToConvert, Goto, MapRec, DbRec, Tags
<1>2. Place'
  BY DEF IInv, TypeOK, Place, Pointers, Links, TooLateToConvert, Goto, NoFile, HasDb
<1>3. Alone'
  BY DEF IInv, TypeOK, Place, Alone, TooLateToConvert, Goto, Busy, Closes, HasDb
<1>4. Memory'
  BY DEF IInv, TypeOK, Place, Pointers, Memory, Links, TooLateToConvert, Goto, NoFile, HasDb
<1>5. Pointers'
  BY DEF IInv, TypeOK, Place, Pointers, Links, Alone, TooLateToConvert, Goto, NoFile, HasDb,
     Busy, Closes
<1>6. Links'
  BY DEF IInv, TypeOK, Place, Pointers, Links, Alone, TooLateToConvert, Goto, NoFile, HasDb,
     Busy, Closes
<1>7. Counts'
  <2>1. ASSUME NEW m \in Maps
        PROVE  Users(m)' = Users(m) /\ Readers(m)' = Readers(m) /\ map'[m].uses = map[m].uses
               /\ stray'[m] = stray[m]
    BY HeapAssumption DEF IInv, TypeOK, Place, Users, Readers, Asks, NoFile, HasDb,
       TooLateToConvert, Goto
  <2>2. ASSUME NEW d \in Dbs
        PROVE  Sharers(d)' = Sharers(d) /\ dbi'[d].uses = dbi[d].uses
    BY HeapAssumption DEF IInv, TypeOK, Place, Sharers, NoFile, HasDb, TooLateToConvert, Goto
  <2>3. \A u \in Threads : (Closes(u) \/ pc[u] = "init" => dbi[dbip[u]].uses = 0)'
    BY DEF IInv, TypeOK, Place, Counts, Closes, HasDb, NoFile, TooLateToConvert, Goto
  <2>4. QED BY <2>1, <2>2, <2>3 DEF IInv, Counts
<1>8. Entries'
  BY DEF IInv, TypeOK, Place, Pointers, Alone, Entries, TooLateToConvert, Goto, NoFile,
     HasDb, Busy
<1>9. Fresh'
  BY DEF IInv, TypeOK, Place, Pointers, Fresh, TooLateToConvert, Goto, NoFile, Asks
<1>10. Bitmaps'
  BY DEF IInv, TypeOK, Place, Pointers, Bitmaps, ConvertedOnce, TooLateToConvert, Goto,
     NoFile, HasDb
<1>11. Strays'
  BY StraysKeep DEF IInv, TypeOK, TooLateToConvert
<1>12. QED BY <1>1, <1>2, <1>3, <1>4, <1>5, <1>6, <1>7, <1>8, <1>9, <1>10, <1>11 DEF IInv

LEMMA ConvertBitmapKeeps ==
    ASSUME IInv, Serial, NEW t \in Threads, ConvertBitmap(t)
    PROVE  IInv'
<1>1. TypeOK'
  <2>1. mp[t] \in Maps /\ map[mp[t]] \in MapRec
    BY Holds DEF NoFile, ConvertBitmap
  <2>2. [map[mp[t]] EXCEPT !.bitmap = "whole"] \in MapRec
    BY <2>1 DEF MapRec
  <2>3. map' \in [Maps -> MapRec]
    BY <2>1, <2>2 DEF IInv, TypeOK, MapRec, ConvertBitmap, Has, Goto
  <2>4. QED BY <2>3 DEF IInv, TypeOK, MapRec, Tags, ConvertBitmap, Has, Goto
<1>2. Place'
  BY DEF IInv, TypeOK, Place, Pointers, Links, ConvertBitmap, Has, Goto, NoFile, HasDb
<1>3. Alone'
  BY DEF IInv, TypeOK, Place, Alone, ConvertBitmap, Has, Goto, Busy, Closes, HasDb
<1>4. Memory'
  <2>1. mp[t] \in Maps /\ map[mp[t]].live
    BY Holds DEF NoFile, ConvertBitmap
  <2>2. ASSUME NEW m \in Maps
        PROVE  map'[m].live = map[m].live /\ (m # mp[t] => map'[m] = map[m])
    BY <2>1 DEF IInv, TypeOK, ConvertBitmap, Has, Goto
  <2>3. QED BY <2>1, <2>2 DEF IInv, TypeOK, Memory, ConvertBitmap, Has, Goto
<1>5. Pointers'
  BY DEF IInv, TypeOK, Place, Pointers, Links, Alone, ConvertBitmap, Has, Goto, NoFile,
     HasDb, Busy, Closes
<1>6. Links'
  BY DEF IInv, TypeOK, Place, Pointers, Links, Alone, ConvertBitmap, Has, Goto, NoFile,
     HasDb, Busy, Closes
<1>7. Counts'
  <2>1. ASSUME NEW m \in Maps
        PROVE  Users(m)' = Users(m) /\ Readers(m)' = Readers(m) /\ map'[m].uses = map[m].uses
               /\ stray'[m] = stray[m]
    BY HeapAssumption DEF IInv, TypeOK, Place, Users, Readers, Asks, NoFile, HasDb,
       ConvertBitmap, Has, Goto
  <2>2. ASSUME NEW d \in Dbs
        PROVE  Sharers(d)' = Sharers(d) /\ dbi'[d].uses = dbi[d].uses
    BY HeapAssumption DEF IInv, TypeOK, Place, Sharers, NoFile, HasDb, ConvertBitmap, Has, Goto
  <2>3. \A u \in Threads : (Closes(u) \/ pc[u] = "init" => dbi[dbip[u]].uses = 0)'
    BY DEF IInv, TypeOK, Place, Counts, Closes, HasDb, NoFile, ConvertBitmap, Has, Goto
  <2>4. QED BY <2>1, <2>2, <2>3 DEF IInv, Counts
<1>8. Entries'
  BY DEF IInv, TypeOK, Place, Pointers, Alone, Entries, ConvertBitmap, Has, Goto, NoFile,
     HasDb, Busy
<1>9. Fresh'
  BY Holds DEF IInv, TypeOK, NoFile, Fresh, Asks, ConvertBitmap, Has, Goto
<1>10. Bitmaps'
  BY DEF IInv, TypeOK, Place, Pointers, Bitmaps, ConvertedOnce, ConvertBitmap, Has, Goto,
     NoFile, HasDb
<1>11. Strays'
  BY StraysKeep DEF IInv, TypeOK, ConvertBitmap
<1>12. QED BY <1>1, <1>2, <1>3, <1>4, <1>5, <1>6, <1>7, <1>8, <1>9, <1>10, <1>11 DEF IInv

LEMMA ReadApbufKeeps ==
    ASSUME IInv, Serial, NEW t \in Threads, ReadApbuf(t)
    PROVE  IInv'
<1>1. TypeOK'
  BY Elements, HeapAssumption DEF IInv, TypeOK, Place, NoFile, ReadApbuf, Goto
<1>2. Place'
  BY DEF IInv, TypeOK, Place, Pointers, Links, ReadApbuf, Goto, NoFile, HasDb
<1>3. Alone'
  BY DEF IInv, TypeOK, Place, Alone, ReadApbuf, Goto, Busy, Closes, HasDb
<1>4. Memory'
  BY DEF IInv, TypeOK, Place, Pointers, Memory, Links, ReadApbuf, Goto, NoFile, HasDb
<1>5. Pointers'
  BY Elements, HeapAssumption DEF IInv, TypeOK, Place, NoFile, Pointers, Links, ReadApbuf, Goto
<1>6. Links'
  <2>1. mp[t] \in Maps /\ map[mp[t]].db \in Dbs
    BY Elements, HeapAssumption DEF IInv, Place, NoFile, ReadApbuf
  <2>2. dbi[map[mp[t]].db].mf = mp[t]
    BY <2>1, HeapAssumption DEF IInv, Links
  <2>3. QED BY <2>1, <2>2, HeapAssumption DEF IInv, TypeOK, Links, ReadApbuf, Goto
<1>7. Counts'
  <2>1. ASSUME NEW m \in Maps
        PROVE  Users(m)' = Users(m) /\ Readers(m)' = Readers(m) /\ map'[m].uses = map[m].uses
               /\ stray'[m] = stray[m]
    BY HeapAssumption DEF IInv, TypeOK, Place, Users, Readers, Asks, NoFile, HasDb,
       ReadApbuf, Goto
  <2>2. ASSUME NEW d \in Dbs
        PROVE  Sharers(d)' = Sharers(d) /\ dbi'[d].uses = dbi[d].uses
    BY HeapAssumption DEF IInv, TypeOK, Place, Sharers, NoFile, HasDb, ReadApbuf, Goto
  <2>3. \A u \in Threads : (Closes(u) \/ pc[u] = "init" => dbi[dbip[u]].uses = 0)'
    BY DEF IInv, TypeOK, Place, Counts, Closes, HasDb, NoFile, ReadApbuf, Goto
  <2>4. QED BY <2>1, <2>2, <2>3 DEF IInv, Counts
<1>8. Entries'
  BY DEF IInv, TypeOK, Place, Pointers, Alone, Entries, ReadApbuf, Goto, NoFile, HasDb, Busy
<1>9. Fresh'
  BY DEF IInv, TypeOK, Place, Pointers, Fresh, ReadApbuf, Goto, NoFile, Asks
<1>10. Bitmaps'
  BY DEF IInv, TypeOK, Place, Pointers, Bitmaps, ConvertedOnce, ReadApbuf, Goto, NoFile, HasDb
<1>11. Strays'
  BY StraysKeep DEF IInv, TypeOK, ReadApbuf
<1>12. QED BY <1>1, <1>2, <1>3, <1>4, <1>5, <1>6, <1>7, <1>8, <1>9, <1>10, <1>11 DEF IInv

LEMMA ShareDbKeeps ==
    ASSUME IInv, Serial, NEW t \in Threads, ShareDb(t)
    PROVE  IInv'
<1>1. TypeOK'
  <2>1. dbip[t] \in Dbs /\ dbi[dbip[t]] \in DbRec
    BY HoldsDb DEF HasDb, ShareDb
  <2>2. [dbi[dbip[t]] EXCEPT !.uses = @ + 1] \in DbRec
    BY <2>1 DEF DbRec
  <2>3. dbi' \in [Dbs -> DbRec]
    BY <2>1, <2>2 DEF IInv, TypeOK, DbRec, ShareDb, Goto
  <2>4. QED BY <2>3 DEF IInv, TypeOK, DbRec, ShareDb, Goto
<1>2. Place'
  BY DEF IInv, TypeOK, Place, Pointers, Links, ShareDb, Goto, NoFile, HasDb
<1>3. Alone'
  BY DEF IInv, TypeOK, Place, Alone, ShareDb, Goto, Busy, Closes, HasDb
<1>4. Memory'
  BY DEF IInv, TypeOK, Place, Pointers, Memory, Links, ShareDb, Goto, NoFile, HasDb
<1>5. Pointers'
  BY DEF IInv, TypeOK, Place, Pointers, Links, Alone, ShareDb, Goto, NoFile, HasDb, Busy, Closes
<1>6. Links'
  BY DEF IInv, TypeOK, Place, Pointers, Links, Alone, ShareDb, Goto, NoFile, HasDb, Busy, Closes
<1>7. Counts'
  <2>0. dbip[t] \in Dbs /\ dbi[dbip[t]].live /\ dbi[dbip[t]].uses \in Nat
    BY HoldsDb DEF HasDb, ShareDb
  <2>1. ASSUME NEW m \in Maps
        PROVE  map'[m].uses = Cardinality(Users(m)') + Cardinality(Readers(m)') + stray'[m]
    <3>1. Users(m)' = Users(m) /\ Readers(m)' = Readers(m) /\ map'[m].uses = map[m].uses
          /\ stray'[m] = stray[m]
      BY <2>0, HeapAssumption DEF IInv, TypeOK, Place, NoFile, HasDb, Asks, Users, Readers,
         ShareDb, Goto
    <3>2. QED BY <3>1 DEF IInv, Counts
  <2>2. ASSUME NEW d \in Dbs PROVE dbi'[d].uses = Cardinality(Sharers(d)')
    <3>1. CASE d # dbip[t]
      <4>1. Sharers(d)' = Sharers(d) /\ dbi'[d].uses = dbi[d].uses
        BY <2>0, <3>1, HeapAssumption DEF IInv, TypeOK, Place, NoFile, HasDb, Asks, Sharers,
           ShareDb, Goto
      <4>2. QED BY <4>1 DEF IInv, Counts
    <3>2. CASE d = dbip[t]
      <4>1. IsFiniteSet(Sharers(d))
        <5>1. Sharers(d) \subseteq Threads
          BY DEF Sharers
        <5>2. QED BY <5>1, FiniteAssumption, FS_Subset
      <4>2. Sharers(d)' = Sharers(d) \cup {t} /\ t \notin Sharers(d)
        BY <2>0, <3>2, HeapAssumption DEF IInv, TypeOK, Place, NoFile, HasDb, Asks, Sharers,
           ShareDb, Goto
      <4>3. dbi'[d].uses = dbi[d].uses + 1
        BY <2>0, <3>2 DEF IInv, TypeOK, ShareDb, Goto
      <4>4. dbi[d].uses = Cardinality(Sharers(d))
        BY DEF IInv, Counts
      <4>5. QED BY <4>1, <4>2, <4>3, <4>4, CountIn
    <3>3. QED BY <3>1, <3>2
  <2>3. ASSUME NEW u \in Threads, (Closes(u) \/ pc[u] = "init")' PROVE (dbi[dbip[u]].uses = 0)'
    BY <2>0, <2>3 DEF IInv, TypeOK, Place, Alone, Busy, Closes, HasDb, ShareDb, Goto
  <2>4. QED BY <2>1, <2>2, <2>3 DEF Counts
<1>8. Entries'
  BY DEF IInv, TypeOK, Place, Pointers, Alone, Entries, ShareDb, Goto, NoFile, HasDb, Busy
<1>9. Fresh'
  BY DEF IInv, TypeOK, Place, Pointers, Fresh, ShareDb, Goto, NoFile, Asks
<1>10. Bitmaps'
  BY DEF IInv, TypeOK, Place, Pointers, Bitmaps, ConvertedOnce, ShareDb, Goto, NoFile, HasDb
<1>11. Strays'
  BY StraysKeep DEF IInv, TypeOK, ShareDb
<1>12. QED BY <1>1, <1>2, <1>3, <1>4, <1>5, <1>6, <1>7, <1>8, <1>9, <1>10, <1>11 DEF IInv

LEMMA GiveBackKeeps ==
    ASSUME IInv, Serial, NEW t \in Threads, GiveBack(t)
    PROVE  IInv'
<1>1. TypeOK'
  <2>1. mp[t] \in Maps /\ map[mp[t]] \in MapRec
    BY Holds DEF NoFile, GiveBack
  <2>2. map[mp[t]].uses - 1 \in Nat
    BY Holds, UserIsCounted, HeapAssumption, <2>1 DEF IInv, NoFile, Asks, GiveBack
  <2>3. [map[mp[t]] EXCEPT !.uses = @ - 1] \in MapRec
    BY <2>1, <2>2 DEF MapRec
  <2>4. map' \in [Maps -> MapRec]
    BY <2>1, <2>3 DEF IInv, TypeOK, MapRec, GiveBack, Released
  <2>5. QED BY <2>4 DEF IInv, TypeOK, MapRec, GiveBack, Has, Goto
<1>2. Place'
  BY DEF IInv, TypeOK, Place, Pointers, Links, GiveBack, Released, Has, Goto, NoFile, HasDb
<1>3. Alone'
  BY DEF IInv, TypeOK, Place, Alone, GiveBack, Released, Has, Goto, Busy, Closes, HasDb
<1>4. Memory'
  <2>1. mp[t] \in Maps /\ map[mp[t]].live
    BY Holds DEF NoFile, GiveBack
  <2>2. ASSUME NEW m \in Maps
        PROVE  map'[m].live = map[m].live /\ (m # mp[t] => map'[m] = map[m])
    BY <2>1 DEF IInv, TypeOK, GiveBack, Released, Has, Goto
  <2>3. QED BY <2>1, <2>2 DEF IInv, TypeOK, Memory, GiveBack, Released, Has, Goto
<1>5. Pointers'
  BY DEF IInv, TypeOK, Place, Pointers, Links, Alone, GiveBack, Released, Has, Goto, NoFile,
     HasDb, Busy, Closes
<1>6. Links'
  BY DEF IInv, TypeOK, Place, Pointers, Links, Alone, GiveBack, Released, Has, Goto, NoFile,
     HasDb, Busy, Closes
<1>7. Counts'
  <2>0. mp[t] \in Maps /\ map[mp[t]].live /\ map[mp[t]].uses \in Nat
    BY Holds DEF NoFile, GiveBack
  <2>1. ASSUME NEW m \in Maps
        PROVE  map'[m].uses = Cardinality(Users(m)') + Cardinality(Readers(m)') + stray'[m]
    <3>1. CASE m # mp[t]
      <4>1. Users(m)' = Users(m) /\ Readers(m)' = Readers(m) /\ map'[m].uses = map[m].uses
            /\ stray'[m] = stray[m]
        BY <2>0, <3>1, HeapAssumption DEF IInv, TypeOK, Place, NoFile, HasDb, Asks, Users,
           Readers, GiveBack, Released, Has, Goto
      <4>2. QED BY <4>1 DEF IInv, Counts
    <3>2. CASE m = mp[t]
      <4>1. IsFiniteSet(Users(m)) /\ IsFiniteSet(Readers(m))
        <5>1. Users(m) \subseteq Threads /\ Readers(m) \subseteq Dbs
          BY DEF Users, Readers
        <5>2. QED BY <5>1, FiniteAssumption, FS_Subset
      <4>2. Users(m)' = Users(m) \ {t} /\ t \in Users(m)
        BY <2>0, <3>2, HeapAssumption DEF IInv, TypeOK, Place, NoFile, HasDb, Asks, Users,
           GiveBack, Released, Has, Goto
      <4>3. Readers(m)' = Readers(m)
        BY <2>0, <3>2, HeapAssumption DEF IInv, TypeOK, Place, NoFile, HasDb, Asks, Readers,
           GiveBack, Released, Has, Goto
      <4>4. map'[m].uses = map[m].uses - 1 /\ stray'[m] = stray[m] /\ stray[m] \in Nat
        BY <2>0, <3>2 DEF IInv, TypeOK, GiveBack, Released, Has, Goto
      <4>5. map[m].uses = Cardinality(Users(m)) + Cardinality(Readers(m)) + stray[m]
        BY DEF IInv, Counts
      <4>6. /\ Cardinality(Users(m)) \in Nat
            /\ Cardinality(Users(m)') = Cardinality(Users(m)) - 1
        BY <4>1, <4>2, CountIn
      <4>7. /\ Cardinality(Readers(m)) \in Nat
            /\ Cardinality(Readers(m)') = Cardinality(Readers(m))
        BY <4>1, <4>3, CountIn
      <4>8. QED BY <4>4, <4>5, <4>6, <4>7
    <3>3. QED BY <3>1, <3>2
  <2>2. ASSUME NEW d \in Dbs PROVE dbi'[d].uses = Cardinality(Sharers(d)')
    <3>1. Sharers(d)' = Sharers(d) /\ dbi'[d].uses = dbi[d].uses
      BY <2>0, HeapAssumption DEF IInv, TypeOK, Place, NoFile, HasDb, Asks, Sharers,
         GiveBack, Released, Has, Goto
    <3>2. QED BY <3>1 DEF IInv, Counts
  <2>3. \A u \in Threads : (Closes(u) \/ pc[u] = "init" => dbi[dbip[u]].uses = 0)'
    BY <2>0 DEF IInv, TypeOK, Place, Counts, Closes, HasDb, NoFile, GiveBack, Released, Has,
       Goto
  <2>4. QED BY <2>1, <2>2, <2>3 DEF Counts
<1>8. Entries'
  BY DEF IInv, TypeOK, Place, Pointers, Alone, Entries, GiveBack, Released, Has, Goto,
     NoFile, HasDb, Busy
<1>9. Fresh'
  BY DEF IInv, TypeOK, Place, Pointers, Fresh, GiveBack, Released, Has, Goto, NoFile, Asks
<1>10. Bitmaps'
  BY DEF IInv, TypeOK, Place, Pointers, Bitmaps, ConvertedOnce, GiveBack, Released, Has,
     Goto, NoFile, HasDb
<1>11. Strays'
  BY StraysKeep DEF IInv, TypeOK, GiveBack, Released
<1>12. QED BY <1>1, <1>2, <1>3, <1>4, <1>5, <1>6, <1>7, <1>8, <1>9, <1>10, <1>11 DEF IInv

LEMMA InitDbKeeps ==
    ASSUME IInv, Serial, NEW t \in Threads, InitDb(t)
    PROVE  IInv'
<1>1. TypeOK'
  <2>1. dbip[t] \in Dbs /\ dbi[dbip[t]] \in DbRec
    BY HoldsDb DEF HasDb, InitDb
  <2>2. [dbi[dbip[t]] EXCEPT !.uses = 1] \in DbRec
    BY <2>1 DEF DbRec
  <2>3. dbi' \in [Dbs -> DbRec]
    BY <2>1, <2>2 DEF IInv, TypeOK, DbRec, InitDb, Has, Goto
  <2>4. QED BY <2>3 DEF IInv, TypeOK, DbRec, InitDb, Has, Goto
<1>2. Place'
  BY DEF IInv, TypeOK, Place, Pointers, Links, InitDb, Has, Goto, NoFile, HasDb
<1>3. Alone'
  BY DEF IInv, TypeOK, Place, Alone, InitDb, Has, Goto, Busy, Closes, HasDb
<1>4. Memory'
  BY DEF IInv, TypeOK, Place, Pointers, Memory, Links, InitDb, Has, Goto, NoFile, HasDb
<1>5. Pointers'
  BY DEF IInv, TypeOK, Place, Pointers, Links, Alone, InitDb, Has, Goto, NoFile, HasDb, Busy,
     Closes
<1>6. Links'
  BY DEF IInv, TypeOK, Place, Pointers, Links, Alone, InitDb, Has, Goto, NoFile, HasDb, Busy,
     Closes
<1>7. Counts'
  <2>0. dbip[t] \in Dbs /\ dbi[dbip[t]].uses = 0
    BY HoldsDb DEF IInv, Counts, HasDb, InitDb
  <2>1. ASSUME NEW m \in Maps
        PROVE  map'[m].uses = Cardinality(Users(m)') + Cardinality(Readers(m)') + stray'[m]
    <3>1. Users(m)' = Users(m) /\ Readers(m)' = Readers(m) /\ map'[m].uses = map[m].uses
          /\ stray'[m] = stray[m]
      BY <2>0, HeapAssumption DEF IInv, TypeOK, Place, NoFile, HasDb, Asks, Users, Readers,
         InitDb, Has, Goto
    <3>2. QED BY <3>1 DEF IInv, Counts
  <2>2. ASSUME NEW d \in Dbs PROVE dbi'[d].uses = Cardinality(Sharers(d)')
    <3>1. CASE d # dbip[t]
      <4>1. Sharers(d)' = Sharers(d) /\ dbi'[d].uses = dbi[d].uses
        BY <2>0, <3>1, HeapAssumption DEF IInv, TypeOK, Place, NoFile, HasDb, Asks, Sharers,
           InitDb, Has, Goto
      <4>2. QED BY <4>1 DEF IInv, Counts
    <3>2. CASE d = dbip[t]
      <4>1. IsFiniteSet(Sharers(d))
        <5>1. Sharers(d) \subseteq Threads
          BY DEF Sharers
        <5>2. QED BY <5>1, FiniteAssumption, FS_Subset
      <4>2. Sharers(d)' = Sharers(d) \cup {t} /\ t \notin Sharers(d)
        BY <2>0, <3>2, HeapAssumption DEF IInv, TypeOK, Place, NoFile, HasDb, Asks, Sharers,
           InitDb, Has, Goto
      <4>3. dbi'[d].uses = dbi[d].uses + 1
        BY <2>0, <3>2 DEF IInv, TypeOK, InitDb, Has, Goto
      <4>4. dbi[d].uses = Cardinality(Sharers(d))
        BY DEF IInv, Counts
      <4>5. QED BY <4>1, <4>2, <4>3, <4>4, CountIn
    <3>3. QED BY <3>1, <3>2
  <2>3. ASSUME NEW u \in Threads, (Closes(u) \/ pc[u] = "init")' PROVE (dbi[dbip[u]].uses = 0)'
    BY <2>0, <2>3 DEF IInv, TypeOK, Place, Alone, Busy, Closes, HasDb, InitDb, Has, Goto
  <2>4. QED BY <2>1, <2>2, <2>3 DEF Counts
<1>8. Entries'
  BY DEF IInv, TypeOK, Place, Pointers, Alone, Entries, InitDb, Has, Goto, NoFile, HasDb, Busy
<1>9. Fresh'
  BY DEF IInv, TypeOK, Place, Pointers, Fresh, InitDb, Has, Goto, NoFile, Asks
<1>10. Bitmaps'
  BY DEF IInv, TypeOK, Place, Pointers, Bitmaps, ConvertedOnce, InitDb, Has, Goto, NoFile, HasDb
<1>11. Strays'
  BY StraysKeep DEF IInv, TypeOK, InitDb
<1>12. QED BY <1>1, <1>2, <1>3, <1>4, <1>5, <1>6, <1>7, <1>8, <1>9, <1>10, <1>11 DEF IInv

LEMMA GetcwdFailsKeeps ==
    ASSUME IInv, Serial, NEW t \in Threads, GetcwdFails(t)
    PROVE  IInv'
<1>1. TypeOK'
  BY DEF IInv, TypeOK, GetcwdFails, Goto, MapRec, DbRec, Tags
<1>2. Place'
  BY DEF IInv, TypeOK, Place, Pointers, Links, GetcwdFails, Goto, NoFile, HasDb
<1>3. Alone'
  BY StartsFree DEF IInv, TypeOK, Alone, GetcwdFails, Goto, Busy, Closes
<1>4. Memory'
  BY DEF IInv, TypeOK, Place, Pointers, Memory, Links, GetcwdFails, Goto, NoFile, HasDb
<1>5. Pointers'
  BY DEF IInv, TypeOK, Place, Pointers, Links, Alone, GetcwdFails, Goto, NoFile, HasDb, Busy,
     Closes
<1>6. Links'
  BY DEF IInv, TypeOK, Place, Pointers, Links, Alone, GetcwdFails, Goto, NoFile, HasDb, Busy,
     Closes
<1>7. Counts'
  <2>1. ASSUME NEW m \in Maps
        PROVE  Users(m)' = Users(m) /\ Readers(m)' = Readers(m) /\ map'[m].uses = map[m].uses
               /\ stray'[m] = stray[m]
    BY HeapAssumption DEF IInv, TypeOK, Place, Users, Readers, Asks, NoFile, HasDb,
       GetcwdFails, Goto
  <2>2. ASSUME NEW d \in Dbs
        PROVE  Sharers(d)' = Sharers(d) /\ dbi'[d].uses = dbi[d].uses
    BY HeapAssumption DEF IInv, TypeOK, Place, Sharers, NoFile, HasDb, GetcwdFails, Goto
  <2>3. \A u \in Threads : (Closes(u) \/ pc[u] = "init" => dbi[dbip[u]].uses = 0)'
    BY DEF IInv, TypeOK, Place, Counts, Closes, HasDb, NoFile, GetcwdFails, Goto
  <2>4. QED BY <2>1, <2>2, <2>3 DEF IInv, Counts
<1>8. Entries'
  BY DEF IInv, TypeOK, Place, Pointers, Alone, Entries, GetcwdFails, Goto, NoFile, HasDb, Busy
<1>9. Fresh'
  BY DEF IInv, TypeOK, Place, Pointers, Fresh, GetcwdFails, Goto, NoFile, Asks
<1>10. Bitmaps'
  BY DEF IInv, TypeOK, Place, Pointers, Bitmaps, ConvertedOnce, GetcwdFails, Goto, NoFile, HasDb
<1>11. Strays'
  BY StraysKeep DEF IInv, TypeOK, GetcwdFails
<1>12. QED BY <1>1, <1>2, <1>3, <1>4, <1>5, <1>6, <1>7, <1>8, <1>9, <1>10, <1>11 DEF IInv

LEMMA LeavesDbKeeps ==
    ASSUME IInv, Serial, NEW t \in Threads, LeavesDb(t)
    PROVE  IInv'
<1>1. TypeOK'
  <2>1. dbip[t] \in Dbs /\ dbi[dbip[t]] \in DbRec
    BY HoldsDb DEF HasDb, LeavesDb
  <2>2. dbi[dbip[t]].uses - 1 \in Nat
    <3>1. t \in Sharers(dbip[t])
      BY DEF Sharers, LeavesDb
    <3>2. QED BY <3>1, <2>1, SharerIsCounted, HoldsDb DEF IInv, HasDb, LeavesDb
  <2>3. [dbi[dbip[t]] EXCEPT !.uses = @ - 1] \in DbRec
    BY <2>1, <2>2 DEF DbRec
  <2>4. dbi' \in [Dbs -> DbRec]
    BY <2>1, <2>3 DEF IInv, TypeOK, DbRec, LeavesDb
  <2>5. QED BY <2>4 DEF IInv, TypeOK, DbRec, Tags, LeavesDb, Returns, Goto
<1>2. Place'
  BY DEF IInv, TypeOK, Place, Pointers, Links, LeavesDb, Returns, Goto, NoFile, HasDb
<1>3. Alone'
  BY DEF IInv, TypeOK, Place, Alone, LeavesDb, Returns, Goto, Busy, Closes, HasDb
<1>4. Memory'
  BY DEF IInv, TypeOK, Place, Pointers, Memory, Links, LeavesDb, Returns, Goto, NoFile, HasDb
<1>5. Pointers'
  BY DEF IInv, TypeOK, Place, Pointers, Links, Alone, LeavesDb, Returns, Goto, NoFile, HasDb,
     Busy, Closes
<1>6. Links'
  BY DEF IInv, TypeOK, Place, Pointers, Links, Alone, LeavesDb, Returns, Goto, NoFile, HasDb,
     Busy, Closes
<1>7. Counts'
  <2>0. dbip[t] \in Dbs /\ dbi[dbip[t]].live /\ dbi[dbip[t]].uses \in Nat
    BY HoldsDb DEF HasDb, LeavesDb
  <2>1. ASSUME NEW m \in Maps
        PROVE  map'[m].uses = Cardinality(Users(m)') + Cardinality(Readers(m)') + stray'[m]
    <3>1. Users(m)' = Users(m) /\ Readers(m)' = Readers(m) /\ map'[m].uses = map[m].uses
          /\ stray'[m] = stray[m]
      BY <2>0, HeapAssumption DEF IInv, TypeOK, Place, NoFile, HasDb, Asks, Users, Readers,
         LeavesDb, Returns, Goto
    <3>2. QED BY <3>1 DEF IInv, Counts
  <2>2. ASSUME NEW d \in Dbs PROVE dbi'[d].uses = Cardinality(Sharers(d)')
    <3>1. CASE d # dbip[t]
      <4>1. Sharers(d)' = Sharers(d) /\ dbi'[d].uses = dbi[d].uses
        BY <2>0, <3>1, HeapAssumption DEF IInv, TypeOK, Place, NoFile, HasDb, Asks, Sharers,
           LeavesDb, Returns, Goto
      <4>2. QED BY <4>1 DEF IInv, Counts
    <3>2. CASE d = dbip[t]
      <4>1. IsFiniteSet(Sharers(d))
        <5>1. Sharers(d) \subseteq Threads
          BY DEF Sharers
        <5>2. QED BY <5>1, FiniteAssumption, FS_Subset
      <4>2. Sharers(d)' = Sharers(d) \ {t} /\ t \in Sharers(d)
        BY <2>0, <3>2, HeapAssumption DEF IInv, TypeOK, Place, NoFile, HasDb, Asks, Sharers,
           LeavesDb, Returns, Goto
      <4>3. dbi'[d].uses = dbi[d].uses - 1
        BY <2>0, <3>2 DEF IInv, TypeOK, LeavesDb, Returns, Goto
      <4>4. dbi[d].uses = Cardinality(Sharers(d))
        BY DEF IInv, Counts
      <4>5. QED BY <4>1, <4>2, <4>3, <4>4, CountIn
    <3>3. QED BY <3>1, <3>2
  <2>3. \A u \in Threads : (Closes(u) \/ pc[u] = "init" => dbi[dbip[u]].uses = 0)'
    BY <2>0 DEF IInv, TypeOK, Place, Counts, Closes, HasDb, NoFile, LeavesDb, Returns, Goto
  <2>4. QED BY <2>1, <2>2, <2>3 DEF Counts
<1>8. Entries'
  BY DEF IInv, TypeOK, Place, Pointers, Alone, Entries, LeavesDb, Returns, Goto, NoFile,
     HasDb, Busy
<1>9. Fresh'
  BY DEF IInv, TypeOK, Place, Pointers, Fresh, LeavesDb, Returns, Goto, NoFile, Asks
<1>10. Bitmaps'
  BY DEF IInv, TypeOK, Place, Pointers, Bitmaps, ConvertedOnce, LeavesDb, Returns, Goto,
     NoFile, HasDb
<1>11. Strays'
  BY StraysKeep DEF IInv, TypeOK, LeavesDb, Returns
<1>12. QED BY <1>1, <1>2, <1>3, <1>4, <1>5, <1>6, <1>7, <1>8, <1>9, <1>10, <1>11 DEF IInv

LEMMA LastToCloseKeeps ==
    ASSUME IInv, Serial, NEW t \in Threads, LastToClose(t)
    PROVE  IInv'
<1>1. TypeOK'
  <2>1. dbip[t] \in Dbs /\ dbi[dbip[t]] \in DbRec
    BY HoldsDb DEF HasDb, LastToClose
  <2>2. dbi[dbip[t]].uses - 1 \in Nat
    <3>1. t \in Sharers(dbip[t])
      BY DEF Sharers, LastToClose
    <3>2. QED BY <3>1, <2>1, SharerIsCounted, HoldsDb DEF IInv, HasDb, LastToClose
  <2>3. [dbi[dbip[t]] EXCEPT !.uses = @ - 1] \in DbRec
    BY <2>1, <2>2 DEF DbRec
  <2>4. dbi' \in [Dbs -> DbRec]
    BY <2>1, <2>3 DEF IInv, TypeOK, DbRec, LastToClose
  <2>5. QED BY <2>4 DEF IInv, TypeOK, DbRec, Tags, LastToClose, Goto
<1>2. Place'
  BY DEF IInv, TypeOK, Place, Pointers, Links, LastToClose, Goto, NoFile, HasDb
<1>3. Alone'
  BY StartsFree DEF IInv, TypeOK, Alone, LastToClose, Goto, Busy, Closes
<1>4. Memory'
  BY DEF IInv, TypeOK, Place, Pointers, Memory, Links, LastToClose, Goto, NoFile, HasDb
<1>5. Pointers'
  BY DEF IInv, TypeOK, Place, Pointers, Links, Alone, LastToClose, Goto, NoFile, HasDb, Busy,
     Closes
<1>6. Links'
  BY DEF IInv, TypeOK, Place, Pointers, Links, Alone, LastToClose, Goto, NoFile, HasDb, Busy,
     Closes
<1>7. Counts'
  <2>0. dbip[t] \in Dbs /\ dbi[dbip[t]].live /\ dbi[dbip[t]].uses \in Nat
    BY HoldsDb DEF HasDb, LastToClose
  <2>1. ASSUME NEW m \in Maps
        PROVE  map'[m].uses = Cardinality(Users(m)') + Cardinality(Readers(m)') + stray'[m]
    <3>1. Users(m)' = Users(m) /\ Readers(m)' = Readers(m) /\ map'[m].uses = map[m].uses
          /\ stray'[m] = stray[m]
      BY <2>0, HeapAssumption DEF IInv, TypeOK, Place, NoFile, HasDb, Asks, Users, Readers,
         LastToClose, Goto
    <3>2. QED BY <3>1 DEF IInv, Counts
  <2>2. ASSUME NEW d \in Dbs PROVE dbi'[d].uses = Cardinality(Sharers(d)')
    <3>1. CASE d # dbip[t]
      <4>1. Sharers(d)' = Sharers(d) /\ dbi'[d].uses = dbi[d].uses
        BY <2>0, <3>1, HeapAssumption DEF IInv, TypeOK, Place, NoFile, HasDb, Asks, Sharers,
           LastToClose, Goto
      <4>2. QED BY <4>1 DEF IInv, Counts
    <3>2. CASE d = dbip[t]
      <4>1. IsFiniteSet(Sharers(d))
        <5>1. Sharers(d) \subseteq Threads
          BY DEF Sharers
        <5>2. QED BY <5>1, FiniteAssumption, FS_Subset
      <4>2. Sharers(d)' = Sharers(d) \ {t} /\ t \in Sharers(d)
        BY <2>0, <3>2, HeapAssumption DEF IInv, TypeOK, Place, NoFile, HasDb, Asks, Sharers,
           LastToClose, Goto
      <4>3. dbi'[d].uses = dbi[d].uses - 1
        BY <2>0, <3>2 DEF IInv, TypeOK, LastToClose, Goto
      <4>4. dbi[d].uses = Cardinality(Sharers(d))
        BY DEF IInv, Counts
      <4>5. QED BY <4>1, <4>2, <4>3, <4>4, CountIn
    <3>3. QED BY <3>1, <3>2
  <2>3. ASSUME NEW u \in Threads, (Closes(u) \/ pc[u] = "init")' PROVE (dbi[dbip[u]].uses = 0)'
    <3>1. u = t
      BY <2>3, StartsFree DEF IInv, TypeOK, Closes, Busy, LastToClose, Goto
    <3>2. dbi[dbip[t]].uses = 1
      <4>1. t \in Sharers(dbip[t])
        BY DEF Sharers, LastToClose
      <4>2. dbi[dbip[t]].uses >= 1
        BY <4>1, <2>0, SharerIsCounted DEF IInv
      <4>3. QED BY <4>2, <2>0 DEF LastToClose
    <3>3. QED BY <3>1, <3>2, <2>0 DEF IInv, TypeOK, LastToClose
  <2>4. QED BY <2>1, <2>2, <2>3 DEF Counts
<1>8. Entries'
  BY DEF IInv, TypeOK, Place, Pointers, Alone, Entries, LastToClose, Goto, NoFile, HasDb, Busy
<1>9. Fresh'
  BY DEF IInv, TypeOK, Place, Pointers, Fresh, LastToClose, Goto, NoFile, Asks
<1>10. Bitmaps'
  BY DEF IInv, TypeOK, Place, Pointers, Bitmaps, ConvertedOnce, LastToClose, Goto, NoFile, HasDb
<1>11. Strays'
  BY StraysKeep DEF IInv, TypeOK, LastToClose
<1>12. QED BY <1>1, <1>2, <1>3, <1>4, <1>5, <1>6, <1>7, <1>8, <1>9, <1>10, <1>11 DEF IInv

LEMMA CloseDbFileKeeps ==
    ASSUME IInv, Serial, NEW t \in Threads, CloseDbFile(t)
    PROVE  IInv'
<1>1. TypeOK'
  <2>1. dbi[dbip[t]].mf \in Maps /\ map[dbi[dbip[t]].mf] \in MapRec
    BY HoldsDb, Elements DEF IInv, Links, Place, HasDb, CloseDbFile
  <2>2. map[dbi[dbip[t]].mf].uses - 1 \in Nat
    <3>1. dbip[t] \in Dbs /\ dbip[t] # None
      BY HoldsDb, HeapAssumption DEF HasDb, CloseDbFile
    <3>2. \A u \in Threads : ~(dbip[u] = dbip[t] /\ pc[u] = "sweep")
      BY DEF IInv, Alone, Closes, Busy, CloseDbFile
    <3>3. QED BY <3>1, <3>2, <2>1, HeapAssumption, ReaderIsCounted, Elements DEF IInv
  <2>3. [map[dbi[dbip[t]].mf] EXCEPT !.uses = @ - 1] \in MapRec
    BY <2>1, <2>2 DEF MapRec
  <2>4. map' \in [Maps -> MapRec]
    BY <2>1, <2>3 DEF IInv, TypeOK, MapRec, CloseDbFile, Released
  <2>5. QED BY <2>4 DEF IInv, TypeOK, MapRec, CloseDbFile, Goto
<1>2. Place'
  BY DEF IInv, TypeOK, Place, Pointers, Links, CloseDbFile, Released, Goto, NoFile, HasDb
<1>3. Alone'
  BY DEF IInv, TypeOK, Place, Alone, CloseDbFile, Released, Goto, Busy, Closes, HasDb
<1>4. Memory'
  <2>1. dbi[dbip[t]].mf \in Maps /\ map[dbi[dbip[t]].mf].live
    BY HoldsDb, Elements DEF IInv, Links, Place, HasDb, CloseDbFile
  <2>2. ASSUME NEW m \in Maps
        PROVE  map'[m].live = map[m].live /\ (m # dbi[dbip[t]].mf => map'[m] = map[m])
    BY <2>1 DEF IInv, TypeOK, CloseDbFile, Released, Goto
  <2>3. QED BY <2>1, <2>2 DEF IInv, TypeOK, Memory, CloseDbFile, Released, Goto
<1>5. Pointers'
  BY DEF IInv, TypeOK, Place, Pointers, Links, Alone, CloseDbFile, Released, Goto, NoFile,
     HasDb, Busy, Closes
<1>6. Links'
  <2>1. /\ dbip[t] \in Dbs /\ dbi[dbip[t]].mf \in Maps
        /\ map[dbi[dbip[t]].mf].live /\ map[dbi[dbip[t]].mf].uses \in Nat
    BY HoldsDb, Elements DEF IInv, Links, Place, HasDb, CloseDbFile
  <2>2. \A m \in Maps : map'[m].live = map[m].live /\ map'[m].db = map[m].db /\ map'[m].appl = map[m].appl
    BY <2>1 DEF IInv, TypeOK, CloseDbFile, Released
  <2>3. \A d \in Dbs : dbi[d].mf \in Maps \cup {None}
    BY Elements DEF IInv
  <2>4. QED BY <2>1, <2>2, <2>3, HeapAssumption DEF IInv, TypeOK, Links, CloseDbFile, Goto
<1>7. Counts'
  <2>0. /\ dbip[t] \in Dbs /\ dbi[dbip[t]].mf \in Maps
       /\ map[dbi[dbip[t]].mf].live /\ map[dbi[dbip[t]].mf].uses \in Nat
       /\ \A u \in Threads : pc[u] # "sweep"
    BY HoldsDb, Elements DEF IInv, Links, Place, HasDb, CloseDbFile, Alone, Busy, Closes
  <2>1. ASSUME NEW m \in Maps
        PROVE  map'[m].uses = Cardinality(Users(m)') + Cardinality(Readers(m)') + stray'[m]
    <3>1. CASE m # dbi[dbip[t]].mf
      <4>1. Users(m)' = Users(m) /\ Readers(m)' = Readers(m) /\ map'[m].uses = map[m].uses
            /\ stray'[m] = stray[m]
        BY <2>0, <3>1, HeapAssumption DEF IInv, TypeOK, Place, NoFile, HasDb, Asks, Users,
           Readers, CloseDbFile, Released, Goto
      <4>2. QED BY <4>1 DEF IInv, Counts
    <3>2. CASE m = dbi[dbip[t]].mf
      <4>1. IsFiniteSet(Users(m)) /\ IsFiniteSet(Readers(m))
        <5>1. Users(m) \subseteq Threads /\ Readers(m) \subseteq Dbs
          BY DEF Users, Readers
        <5>2. QED BY <5>1, FiniteAssumption, FS_Subset
      <4>2. Users(m)' = Users(m)
        BY <2>0, <3>2, HeapAssumption DEF IInv, TypeOK, Place, NoFile, HasDb, Asks, Users,
           CloseDbFile, Released, Goto
      <4>3. Readers(m)' = Readers(m) \ {dbip[t]} /\ dbip[t] \in Readers(m)
        BY <2>0, <3>2, HeapAssumption DEF IInv, TypeOK, Place, NoFile, HasDb, Asks, Readers,
           CloseDbFile, Released, Goto
      <4>4. map'[m].uses = map[m].uses - 1 /\ stray'[m] = stray[m] /\ stray[m] \in Nat
        BY <2>0, <3>2 DEF IInv, TypeOK, CloseDbFile, Released, Goto
      <4>5. map[m].uses = Cardinality(Users(m)) + Cardinality(Readers(m)) + stray[m]
        BY DEF IInv, Counts
      <4>6. /\ Cardinality(Users(m)) \in Nat
            /\ Cardinality(Users(m)') = Cardinality(Users(m))
        BY <4>1, <4>2, CountIn
      <4>7. /\ Cardinality(Readers(m)) \in Nat
            /\ Cardinality(Readers(m)') = Cardinality(Readers(m)) - 1
        BY <4>1, <4>3, CountIn
      <4>8. QED BY <4>4, <4>5, <4>6, <4>7
    <3>3. QED BY <3>1, <3>2
  <2>2. ASSUME NEW d \in Dbs PROVE dbi'[d].uses = Cardinality(Sharers(d)')
    <3>1. Sharers(d)' = Sharers(d) /\ dbi'[d].uses = dbi[d].uses
      BY <2>0, HeapAssumption DEF IInv, TypeOK, Place, NoFile, HasDb, Asks, Sharers,
         CloseDbFile, Released, Goto
    <3>2. QED BY <3>1 DEF IInv, Counts
  <2>3. \A u \in Threads : (Closes(u) \/ pc[u] = "init" => dbi[dbip[u]].uses = 0)'
    BY <2>0 DEF IInv, TypeOK, Place, Counts, Closes, HasDb, NoFile, CloseDbFile, Released, Goto
  <2>4. QED BY <2>1, <2>2, <2>3 DEF Counts
<1>8. Entries'
  BY DEF IInv, TypeOK, Place, Pointers, Alone, Entries, CloseDbFile, Released, Goto, NoFile,
     HasDb, Busy
<1>9. Fresh'
  <2>1. \A m \in Maps : map'[m].version = map[m].version
    BY DEF IInv, TypeOK, CloseDbFile, Released
  <2>2. \A u \in Threads : pc[u] = "incr" => mp[u] \in Maps
    BY Holds DEF NoFile
  <2>3. \A u \in Threads : Asks(u)' => pc'[u] = pc[u]
    BY DEF IInv, TypeOK, Asks, CloseDbFile, Goto
  <2>4. QED BY <2>1, <2>2, <2>3 DEF IInv, Fresh, Asks, CloseDbFile
<1>10. Bitmaps'
  BY DEF IInv, TypeOK, Place, Pointers, Bitmaps, ConvertedOnce, CloseDbFile, Released, Goto,
     NoFile, HasDb
<1>11. Strays'
  BY StraysKeep DEF IInv, TypeOK, CloseDbFile, Released
<1>12. QED BY <1>1, <1>2, <1>3, <1>4, <1>5, <1>6, <1>7, <1>8, <1>9, <1>10, <1>11 DEF IInv

LEMMA FreeDbKeeps ==
    ASSUME IInv, Serial, NEW t \in Threads, FreeDb(t)
    PROVE  IInv'
<1>1. TypeOK'
  <2>1. dbi' \in [Dbs -> DbRec]
    BY FreshRecords DEF IInv, TypeOK, DbRec, FreeDb
  <2>2. QED BY <2>1 DEF IInv, TypeOK, DbRec, Tags, FreeDb, Returns, Goto
<1>2. Place'
  BY DEF IInv, TypeOK, Place, Pointers, Links, FreeDb, Returns, Goto, NoFile, HasDb
<1>3. Alone'
  BY DEF IInv, TypeOK, Place, Alone, FreeDb, Returns, Goto, Busy, Closes, HasDb
<1>4. Memory'
  BY DEF IInv, TypeOK, Place, Pointers, Memory, Links, FreeDb, Returns, Goto, NoFile, HasDb
<1>5. Pointers'
  <2>1. \A u \in Threads : u = t \/ dbip[u] # dbip[t]
    BY FreedIsNotShared DEF Closes, FreeDb
  <2>2. dbip[t] \in Dbs
    BY HoldsDb DEF HasDb, FreeDb
  <2>3. QED BY <2>1, <2>2 DEF IInv, TypeOK, Place, NoFile, Pointers, FreeDb, Returns, Goto
<1>6. Links'
  <2>1. dbip[t] \in Dbs /\ dbi[dbip[t]].mf = None
    BY HoldsDb, HeapAssumption DEF IInv, Links, HasDb, FreeDb
  <2>2. \A m \in Maps : map[m].db # dbip[t]
    BY <2>1, HeapAssumption DEF IInv, Links
  <2>3. \A u \in Threads : u = t \/ dbip[u] # dbip[t]
    BY FreedIsNotShared DEF Closes, FreeDb
  <2>4. dbi' = [dbi EXCEPT ![dbip[t]] = FreeDbi] /\ FreeDbi.mf = None
    BY DEF FreeDb, FreeDbi
  <2>5. QED BY <2>1, <2>2, <2>3, <2>4 DEF IInv, TypeOK, Links, FreeDb, Returns, Goto
<1>7. Counts'
  <2>1. dbip[t] \in Dbs /\ dbi[dbip[t]].mf = None /\ dbi[dbip[t]].uses = 0
    BY HoldsDb, HeapAssumption DEF IInv, Links, Counts, HasDb, Closes, FreeDb
  <2>2. \A u \in Threads : u = t \/ dbip[u] # dbip[t]
    BY FreedIsNotShared DEF Closes, FreeDb
  <2>3. ASSUME NEW d \in Dbs PROVE dbi'[d].mf = dbi[d].mf /\ dbi'[d].uses = dbi[d].uses
    BY <2>1 DEF IInv, TypeOK, FreeDb, FreeDbi
  <2>4. ASSUME NEW m \in Maps PROVE Users(m)' = Users(m) /\ Readers(m)' = Readers(m)
    <3>1. Users(m)' = Users(m)
      BY HeapAssumption DEF IInv, TypeOK, Place, NoFile, Users, Asks, FreeDb, Returns, Goto
    <3>2. Readers(m)' = Readers(m)
      BY <2>1, <2>3, HeapAssumption DEF IInv, TypeOK, Readers, FreeDb, Returns, Goto
    <3>3. QED BY <3>1, <3>2
  <2>5. ASSUME NEW d \in Dbs PROVE Sharers(d)' = Sharers(d)
    BY HeapAssumption DEF IInv, TypeOK, Sharers, FreeDb, Returns, Goto
  <2>6. ASSUME NEW u \in Threads, (Closes(u) \/ pc[u] = "init")' PROVE (dbi[dbip[u]].uses = 0)'
    <3>1. u # t /\ dbip'[u] = dbip[u] /\ (Closes(u) \/ pc[u] = "init")
      BY <2>6 DEF IInv, TypeOK, Closes, FreeDb, Returns, Goto
    <3>2. dbip[u] \in Dbs
      BY <3>1, HoldsDb DEF HasDb, Closes
    <3>3. QED BY <3>1, <3>2, <2>3 DEF IInv, Counts
  <2>7. QED BY <2>3, <2>4, <2>5, <2>6 DEF IInv, Counts, FreeDb
<1>8. Entries'
  BY DEF IInv, TypeOK, Place, Pointers, Alone, Entries, FreeDb, Returns, Goto, NoFile, HasDb,
     Busy
<1>9. Fresh'
  BY DEF IInv, TypeOK, Place, Pointers, Fresh, FreeDb, Returns, Goto, NoFile, Asks
<1>10. Bitmaps'
  BY DEF IInv, TypeOK, Place, Pointers, Bitmaps, ConvertedOnce, FreeDb, Returns, Goto,
     NoFile, HasDb
<1>11. Strays'
  BY StraysKeep DEF IInv, TypeOK, FreeDb, Returns
<1>12. QED BY <1>1, <1>2, <1>3, <1>4, <1>5, <1>6, <1>7, <1>8, <1>9, <1>10, <1>11 DEF IInv

LEMMA MakesDbKeeps ==
    ASSUME IInv, Serial, NEW t \in Threads, NEW d \in Dbs, MakesDb(t, d)
    PROVE  IInv'
<1>0. /\ mp[t] \in Maps /\ map[mp[t]] \in MapRec /\ map[mp[t]].live /\ map[mp[t]].db = None
      /\ map[mp[t]].appl \in {"db_i", "_INVALID_"} /\ mp[t] # None
  BY Holds, HeapAssumption DEF IInv, Pointers, NoFile, MakesDb
<1>s1. /\ d # None /\ ~dbi[d].live /\ dbi[d].mf = None /\ dbi[d].uses = 0
       /\ \A u \in Threads : dbip[u] # d
       /\ \A m \in Maps : map[m].db # d
       /\ \A e \in Dbs : dbi[e].mf # mp[t]
  <2>1. dbi[d] = FreeDbi
    BY DEF IInv, Memory, MakesDb, UnusedDbs
  <2>2. QED BY <2>1, <1>0, HeapAssumption DEF IInv, Links, FreeDbi, MakesDb, UnusedDbs
<1>s2. /\ dbi'[d] = [live |-> TRUE, mf |-> mp[t], uses |-> 0]
       /\ \A e \in Dbs : e # d => dbi'[e] = dbi[e]
       /\ map'[mp[t]].db = d
       /\ \A m \in Maps : m # mp[t] => map'[m] = map[m]
       /\ \A m \in Maps : /\ map'[m].live = map[m].live /\ map'[m].appl = map[m].appl
                           /\ map'[m].version = map[m].version /\ map'[m].uses = map[m].uses
                           /\ map'[m].bitmap = map[m].bitmap
  BY <1>0 DEF IInv, TypeOK, MakesDb
<1>1. TypeOK'
  <2>1. [map[mp[t]] EXCEPT !.db = d] \in MapRec
    BY <1>0 DEF MapRec
  <2>2. map' \in [Maps -> MapRec]
    BY <1>0, <2>1 DEF IInv, TypeOK, MapRec, MakesDb
  <2>3. [live |-> TRUE, mf |-> mp[t], uses |-> 0] \in DbRec
    BY <1>0 DEF DbRec
  <2>4. dbi' \in [Dbs -> DbRec]
    BY <2>3 DEF IInv, TypeOK, DbRec, MakesDb
  <2>5. QED BY <2>2, <2>4 DEF IInv, TypeOK, MapRec, DbRec, MakesDb, Goto
<1>2. Place'
  BY <1>s1 DEF IInv, TypeOK, Place, MakesDb, Goto, NoFile, HasDb
<1>3. Alone'
  BY DEF IInv, TypeOK, Place, Alone, MakesDb, Goto, Busy, Closes, HasDb
<1>4. Memory'
  BY <1>0, <1>s2 DEF IInv, Memory, MakesDb
<1>5. Pointers'
  <2>1. \A u \in Threads : u # t => mp'[u] = mp[u] /\ dbip'[u] = dbip[u] /\ (mp[u] # None => mp[u] \in Maps)
                                   /\ (dbip[u] # None => dbip[u] \in Dbs /\ dbip[u] # d)
    BY <1>s1, Elements DEF IInv, TypeOK, MakesDb
  <2>2. mp'[t] = None /\ dbip'[t] = d /\ appl' = appl
    BY DEF IInv, TypeOK, MakesDb
  <2>3. QED BY <2>1, <2>2, <1>s2 DEF IInv, Pointers
<1>6. Links'
  <2>1. \A u \in Threads : u # t => mp'[u] = mp[u] /\ dbip'[u] = dbip[u] /\ pc'[u] = pc[u]
                                   /\ (dbip[u] # None => dbip[u] \in Dbs /\ dbip[u] # d)
    BY <1>s1, Elements DEF IInv, TypeOK, MakesDb, Goto
  <2>2. mp'[t] = None /\ dbip'[t] = d /\ appl' = appl /\ pc'[t] = "init" /\ appl[t] = "db_i"
    BY DEF IInv, TypeOK, MakesDb, Goto
  <2>3. \A e \in Dbs : dbi[e].mf # None => dbi[e].mf \in Maps
    BY Elements DEF IInv
  <2>4. \A m \in Maps : map[m].db # None => map[m].db \in Dbs
    BY Elements DEF IInv
  <2>5. \A u \in Threads : mp[u] = mp[t] => appl[u] = "db_i"
    BY <1>0, <2>2 DEF IInv, Pointers
  <2>6. dbi'[d].live /\ dbi'[d].mf = mp[t]
    BY <1>s2
  <2>7. \A e \in Dbs : dbi'[e].mf # None =>
          /\ map'[dbi'[e].mf].live
          /\ map'[dbi'[e].mf].db = e
          /\ map'[dbi'[e].mf].appl \in {"db_i", "_INVALID_"}
    BY <2>3, <2>6, <1>0, <1>s1, <1>s2 DEF IInv, Links
  <2>8. \A m \in Maps : map'[m].db # None => dbi'[map'[m].db].live /\ dbi'[map'[m].db].mf = m
    BY <2>4, <2>6, <1>0, <1>s1, <1>s2 DEF IInv, Links
  <2>9. \A e \in Dbs, u \in Threads : mp'[u] # None /\ dbi'[e].mf = mp'[u] => appl'[u] = "db_i"
    BY <2>1, <2>2, <2>5, <2>6, <1>s2 DEF IInv, Links
  <2>10. \A u \in Threads : dbip'[u] # None => (dbi'[dbip'[u]].mf = None <=> pc'[u] = "free")
    BY <2>1, <2>2, <2>6, <1>0, <1>s2 DEF IInv, Links
  <2>11. QED BY <2>7, <2>8, <2>9, <2>10 DEF Links
<1>7. Counts'
  <2>1. ASSUME NEW m \in Maps
        PROVE  map'[m].uses = Cardinality(Users(m)') + Cardinality(Readers(m)') + stray'[m]
    <3>1. CASE m # mp[t]
      <4>1. Users(m)' = Users(m)
        BY <3>1, HeapAssumption DEF IInv, TypeOK, Users, Asks, MakesDb, Goto
      <4>2. Readers(m)' = Readers(m)
        BY <3>1, <1>s1, <1>s2, HeapAssumption DEF IInv, TypeOK, Readers, MakesDb, Goto
      <4>3. QED BY <4>1, <4>2, <3>1, <1>s2 DEF IInv, Counts, MakesDb
    <3>2. CASE m = mp[t]
      <4>1. IsFiniteSet(Users(m)) /\ IsFiniteSet(Readers(m))
        <5>1. Users(m) \subseteq Threads /\ Readers(m) \subseteq Dbs
          BY DEF Users, Readers
        <5>2. QED BY <5>1, FiniteAssumption, FS_Subset
      <4>2. Users(m)' = Users(m) \ {t} /\ t \in Users(m)
        BY <3>2, HeapAssumption DEF IInv, TypeOK, Users, Asks, MakesDb, Goto
      <4>3. Readers(m)' = Readers(m) \cup {d} /\ d \notin Readers(m)
        <5>1. \A u \in Threads : ~(dbip'[u] = d /\ pc'[u] = "sweep")
          BY <1>s1 DEF IInv, TypeOK, MakesDb, Goto
        <5>2. \A e \in Dbs : dbi'[e].mf = m <=> e = d
          BY <3>2, <1>s1, <1>s2
        <5>3. Readers(m) = {}
          BY <3>2, <1>s1 DEF Readers
        <5>4. QED BY <5>1, <5>2, <5>3 DEF Readers
      <4>4. Cardinality(Users(m)') = Cardinality(Users(m)) - 1 /\ Cardinality(Users(m)) \in Nat
        BY <4>1, <4>2, CountIn
      <4>5. Cardinality(Readers(m)') = Cardinality(Readers(m)) + 1 /\ Cardinality(Readers(m)) \in Nat
        BY <4>1, <4>3, CountIn
      <4>6. /\ map'[m].uses = Cardinality(Users(m)) + Cardinality(Readers(m)) + stray[m]
            /\ stray'[m] = stray[m] /\ stray[m] \in Nat
        BY <1>s2 DEF IInv, TypeOK, Counts, MakesDb
      <4>7. QED BY <4>4, <4>5, <4>6
    <3>3. QED BY <3>1, <3>2
  <2>2. ASSUME NEW e \in Dbs PROVE Sharers(e)' = Sharers(e) /\ dbi'[e].uses = dbi[e].uses
    BY <1>s1, <1>s2, HeapAssumption DEF IInv, TypeOK, Place, HasDb, Sharers, MakesDb, Goto
  <2>3. ASSUME NEW u \in Threads, (Closes(u) \/ pc[u] = "init")' PROVE (dbi[dbip[u]].uses = 0)'
    <3>1. CASE u = t
      BY <3>1, <1>s2 DEF IInv, TypeOK, MakesDb
    <3>2. CASE u # t
      <4>1. dbip'[u] = dbip[u] /\ (Closes(u) \/ pc[u] = "init")
        BY <2>3, <3>2 DEF IInv, TypeOK, Closes, MakesDb, Goto
      <4>2. dbip[u] \in Dbs
        BY <4>1, HoldsDb DEF HasDb, Closes
      <4>3. QED BY <4>1, <4>2, <2>2 DEF IInv, Counts
    <3>3. QED BY <3>1, <3>2
  <2>4. QED BY <2>1, <2>2, <2>3 DEF IInv, Counts
<1>8. Entries'
  BY <1>s2 DEF IInv, TypeOK, Entries, MakesDb, Goto
<1>9. Fresh'
  BY <1>s2, Elements, HeapAssumption DEF IInv, TypeOK, Place, NoFile, Fresh, Asks, MakesDb, Goto
<1>10. Bitmaps'
  BY <1>s2, Elements, HeapAssumption DEF IInv, TypeOK, Place, NoFile, Bitmaps, ConvertedOnce,
     MakesDb, Goto
<1>11. Strays'
  <2>1. stray[mp[t]] = 0
    BY <1>0, NoStray DEF MakesDb
  <2>2. QED BY <2>1, <1>0, <1>s2, HeapAssumption DEF IInv, TypeOK, Strays, MakesDb
<1>12. QED BY <1>1, <1>2, <1>3, <1>4, <1>5, <1>6, <1>7, <1>8, <1>9, <1>10, <1>11 DEF IInv

LEMMA FreeKeeps ==
    ASSUME IInv, Serial, NEW t \in Threads, Free(t)
    PROVE  IInv'
<1>0. /\ \A u \in Threads : ~Busy(u)
      /\ Sweep(map) /\ UNCHANGED <<disk, dbi, pc, appl, mp, dbip, copy, seen, stray>>
  BY StartsFree DEF IInv, Busy, Free
<1>s1. \A u \in Threads : ~Asks(u) /\ ~Closes(u) /\ pc[u] \in {"idle", "has"}
  BY <1>0 DEF Asks, Closes, Busy
<1>s2. /\ \A u \in Threads : mp[u] # None => mp[u] \in Maps /\ map'[mp[u]] = map[mp[u]]
       /\ \A d \in Dbs : dbi[d].mf # None => dbi[d].mf \in Maps /\ map'[dbi[d].mf] = map[dbi[d].mf]
  BY <1>0, <1>s1, SweepSpares, Elements DEF IInv
<1>s3. /\ \A m \in Maps : map'[m] = IF map[m].live /\ map[m].uses = 0 THEN FreeMap ELSE map[m]
       /\ table' \in Seq(Maps) /\ Distinct(table')
       /\ ToSet(table') = {m \in ToSet(table) : map[m].uses > 0}
       /\ map' \in [Maps -> MapRec]
  BY <1>0, SweepFrees
<1>s4. FreeMap = [live |-> FALSE, appl |-> "NULL", version |-> Gone, uses |-> 0,
                  bitmap |-> "none", db |-> None]
  BY DEF FreeMap
<1>1. TypeOK'
  BY <1>0, <1>s3 DEF IInv, TypeOK, MapRec
<1>2. Place'
  BY <1>0 DEF IInv, Place, NoFile, HasDb
<1>3. Alone'
  BY <1>0 DEF IInv, Alone, Busy, Closes
<1>4. Memory'
  <2>1. ASSUME NEW m \in Maps PROVE map'[m].live <=> m \in ToSet(table')
    <3>1. map[m].uses \in Nat /\ (map[m].live <=> m \in ToSet(table))
      BY Elements DEF IInv, Memory
    <3>2. QED BY <3>1, <1>s3, <1>s4
  <2>2. ASSUME NEW m \in Maps, ~map'[m].live PROVE map'[m] = FreeMap
    BY <2>2, <1>s3 DEF IInv, Memory
  <2>3. QED BY <2>1, <2>2, <1>0, <1>s3 DEF IInv, Memory
<1>5. Pointers'
  BY <1>0, <1>s2 DEF IInv, Pointers
<1>6. Links'
  <2>1. ASSUME NEW m \in Maps, map'[m].db # None PROVE map'[m] = map[m]
    BY <2>1, <1>s3, <1>s4
  <2>2. QED BY <1>0, <1>s2, <2>1 DEF IInv, Links
<1>7. Counts'
  <2>1. ASSUME NEW m \in Maps PROVE map'[m].uses = map[m].uses
    BY <1>s3, <1>s4
  <2>2. ASSUME NEW m \in Maps PROVE Users(m)' = Users(m) /\ Readers(m)' = Readers(m)
    BY <1>0 DEF Users, Readers, Asks
  <2>3. ASSUME NEW d \in Dbs PROVE Sharers(d)' = Sharers(d)
    BY <1>0 DEF Sharers
  <2>4. QED BY <1>0, <2>1, <2>2, <2>3 DEF IInv, Counts, Closes
<1>8. Entries'
  <2>1. ASSUME NEW m \in Maps, map'[m].appl = "db_i" PROVE map[m].appl = "db_i"
    BY <2>1, <1>s3, <1>s4
  <2>2. QED BY <1>0, <2>1 DEF IInv, Entries
<1>9. Fresh'
  BY <1>0, <1>s1 DEF IInv, Fresh, Asks
<1>10. Bitmaps'
  <2>1. ASSUME NEW m \in Maps PROVE map'[m].bitmap # "part"
    BY <1>s1, <1>s3, <1>s4 DEF IInv, Bitmaps, ConvertedOnce
  <2>2. ASSUME NEW u \in Threads, pc[u] = "has", appl[u] = "ebm" PROVE map'[mp[u]].bitmap # "none"
    <3>1. mp[u] # None
      BY <2>2 DEF IInv, Place, NoFile
    <3>2. QED BY <3>1, <2>2, <1>s2 DEF IInv, Bitmaps, ConvertedOnce
  <2>3. QED BY <1>0, <1>s1, <2>1, <2>2 DEF Bitmaps, ConvertedOnce
<1>11. Strays'
  <2>1. ASSUME NEW m \in Maps, stray[m] > 0 PROVE map'[m] = map[m]
    BY <2>1, <1>0, StrayIsCounted, <1>s3 DEF IInv
  <2>2. QED BY <1>0, <2>1 DEF IInv, Strays
<1>12. QED BY <1>1, <1>2, <1>3, <1>4, <1>5, <1>6, <1>7, <1>8, <1>9, <1>10, <1>11 DEF IInv

LEMMA SweepDbFileKeeps ==
    ASSUME IInv, Serial, NEW t \in Threads, SweepDbFile(t)
    PROVE  IInv'
<1> DEFINE d == dbip[t]
           m == dbi[d].mf
<1>0. /\ pc[t] = "sweep" /\ Sweep(map) /\ dbi' = [dbi EXCEPT ![d].mf = None]
      /\ pc' = [pc EXCEPT ![t] = "free"]
      /\ UNCHANGED <<disk, appl, mp, dbip, copy, seen, stray>>
  BY DEF SweepDbFile, Goto
<1>s1. /\ d \in Dbs /\ d # None /\ m \in Maps /\ m # None /\ map[m].live /\ map[m].db = d
       /\ dbi[d].uses = 0 /\ dbi[d].live /\ appl[t] = "db_i" /\ mp[t] = None
  <2>1. d \in Dbs /\ dbi[d].mf # None /\ appl[t] = "db_i" /\ mp[t] = None /\ dbi[d].uses = 0
        /\ dbi[d].live
    BY <1>0, HoldsDb, HeapAssumption DEF IInv, Place, Links, Counts, Closes, NoFile, HasDb
  <2>2. QED BY <2>1, Elements, HeapAssumption DEF IInv, Links
<1> HIDE DEF d, m
<1>s2. \A u \in Threads : ~Asks(u) /\ (u # t => ~Busy(u) /\ dbip[u] # d)
  BY <1>0, FreedIsNotShared DEF IInv, Alone, Closes, Busy, Asks, d
<1>s3. \A u \in Threads : mp[u] # m
  <2>1. ASSUME NEW u \in Threads, mp[u] = m PROVE FALSE
    <3>1. u # t /\ appl[u] = "db_i"
      BY <2>1, <1>s1 DEF IInv, Links, m
    <3>2. pc[u] = "has" \/ pc[u] = "idle"
      BY <3>1, <1>s2 DEF Busy
    <3>3. QED BY <2>1, <3>1, <3>2, <1>s1 DEF IInv, Place, NoFile
  <2>2. QED BY <2>1
<1>s4. /\ \A n \in Maps : map'[n] = IF map[n].live /\ map[n].uses = 0 THEN FreeMap ELSE map[n]
       /\ table' \in Seq(Maps) /\ Distinct(table')
       /\ ToSet(table') = {n \in ToSet(table) : map[n].uses > 0}
       /\ map' \in [Maps -> MapRec]
  BY <1>0, SweepFrees
<1>s5. FreeMap = [live |-> FALSE, appl |-> "NULL", version |-> Gone, uses |-> 0,
                  bitmap |-> "none", db |-> None]
  BY DEF FreeMap
<1>s6. \A e \in Dbs : e # d => dbi[e].mf # m
  BY <1>s1 DEF IInv, Links
<1>s7. map[m].uses = 0 /\ map'[m] = FreeMap
  <2>1. Users(m) = {}
    BY <1>s3 DEF Users
  <2>2. Readers(m) = {}
    BY <1>0, <1>s6 DEF Readers, d
  <2>3. map[m].uses = 0
    <3>1. stray[m] = 0
      BY <1>s1, NoStray
    <3>2. map[m].uses = Cardinality(Users(m)) + Cardinality(Readers(m)) + stray[m]
      BY <1>s1 DEF IInv, Counts
    <3>3. QED BY <2>1, <2>2, <3>1, <3>2, FS_EmptySet
  <2>4. QED BY <2>3, <1>s1, <1>s4
<1>s8. /\ \A u \in Threads : mp[u] # None => mp[u] \in Maps /\ map'[mp[u]] = map[mp[u]]
       /\ \A e \in Dbs : e # d /\ dbi[e].mf # None
                           => dbi[e].mf \in Maps /\ map'[dbi[e].mf] = map[dbi[e].mf]
  <2>1. ASSUME NEW e \in Dbs, e # d, NEW u \in Threads PROVE ~(dbip[u] = e /\ pc[u] = "sweep")
    BY <2>1, <1>s2 DEF Busy, d
  <2>2. QED BY <1>0, <1>s2, <2>1, SweepSpares, Elements DEF IInv
<1>s9. /\ dbi'[d].live /\ dbi'[d].mf = None /\ dbi'[d].uses = 0
       /\ \A e \in Dbs : e # d => dbi'[e] = dbi[e]
       /\ dbi' \in [Dbs -> DbRec]
  <2>1. dbi \in [Dbs -> DbRec] /\ [dbi[d] EXCEPT !.mf = None] \in DbRec
    BY <1>s1, Elements DEF IInv, TypeOK, DbRec
  <2>2. QED BY <2>1, <1>0, <1>s1 DEF DbRec
<1>1. TypeOK'
  BY <1>0, <1>s4, <1>s9 DEF IInv, TypeOK, MapRec, DbRec
<1>2. Place'
  BY <1>0 DEF IInv, TypeOK, Place, NoFile, HasDb
<1>3. Alone'
  BY <1>0 DEF IInv, TypeOK, Alone, Busy, Closes
<1>4. Memory'
  <2>1. ASSUME NEW n \in Maps PROVE map'[n].live <=> n \in ToSet(table')
    <3>1. map[n].uses \in Nat /\ (map[n].live <=> n \in ToSet(table))
      BY Elements DEF IInv, Memory
    <3>2. QED BY <3>1, <1>s4, <1>s5
  <2>2. ASSUME NEW n \in Maps, ~map'[n].live PROVE map'[n] = FreeMap
    BY <2>2, <1>s4 DEF IInv, Memory
  <2>3. ASSUME NEW e \in Dbs, ~dbi'[e].live PROVE dbi'[e] = FreeDbi
    BY <2>3, <1>s9 DEF IInv, Memory
  <2>4. QED BY <2>1, <2>2, <2>3, <1>s4 DEF Memory
<1>5. Pointers'
  <2>1. \A u \in Threads : dbip[u] # None => dbip[u] \in Dbs /\ dbi'[dbip[u]].live
    BY <1>s9, Elements DEF IInv, Pointers
  <2>2. QED BY <1>0, <1>s8, <2>1 DEF IInv, Pointers
<1>6. Links'
  <2>1. ASSUME NEW n \in Maps, map'[n].db # None
        PROVE  map'[n] = map[n] /\ map[n].db \in Dbs /\ map[n].db # d
    <3>1. map'[n] = map[n] /\ n # m
      BY <2>1, <1>s4, <1>s5, <1>s7
    <3>2. map[n].db \in Dbs
      BY <2>1, <3>1, Elements DEF IInv
    <3>3. QED BY <2>1, <3>1, <3>2 DEF IInv, Links, m
  <2>2. \A n \in Maps : map'[n].db # None => dbi'[map'[n].db].live /\ dbi'[map'[n].db].mf = n
    BY <2>1, <1>s9 DEF IInv, Links
  <2>3. \A e \in Dbs : dbi'[e].mf # None =>
          /\ map'[dbi'[e].mf].live
          /\ map'[dbi'[e].mf].db = e
          /\ map'[dbi'[e].mf].appl \in {"db_i", "_INVALID_"}
    BY <1>s8, <1>s9 DEF IInv, Links
  <2>4. \A e \in Dbs, u \in Threads : mp'[u] # None /\ dbi'[e].mf = mp'[u] => appl'[u] = "db_i"
    BY <1>0, <1>s9 DEF IInv, Links
  <2>5. ASSUME NEW u \in Threads, dbip'[u] # None PROVE dbi'[dbip'[u]].mf = None <=> pc'[u] = "free"
    <3>1. CASE u = t
      BY <3>1, <1>0, <1>s9 DEF IInv, TypeOK, d
    <3>2. CASE u # t
      <4>1. dbip[u] # d /\ dbip[u] \in Dbs /\ pc'[u] = pc[u]
        BY <2>5, <3>2, <1>0, <1>s2, Elements DEF IInv, TypeOK
      <4>2. QED BY <2>5, <4>1, <1>0, <1>s9 DEF IInv, Links
    <3>3. QED BY <3>1, <3>2
  <2>6. QED BY <2>2, <2>3, <2>4, <2>5 DEF Links
<1>7. Counts'
  <2>1. ASSUME NEW n \in Maps PROVE map'[n].uses = map[n].uses
    BY <1>s4, <1>s5
  <2>2. ASSUME NEW n \in Maps PROVE Users(n)' = Users(n)
    BY <1>0 DEF IInv, TypeOK, Users, Asks
  <2>3. ASSUME NEW n \in Maps PROVE Readers(n)' = Readers(n)
    <3>1. d \notin Readers(n)
      BY <1>0 DEF Readers, d
    <3>2. d \notin Readers(n)'
      <4>1. dbi'[d].mf # n
        BY <1>s9, HeapAssumption
      <4>2. QED BY <4>1 DEF Readers
    <3>3. ASSUME NEW e \in Dbs, e # d PROVE e \in Readers(n) <=> e \in Readers(n)'
      <4>1. \A u \in Threads : ~(dbip[u] = e /\ pc[u] = "sweep") /\ ~(dbip'[u] = e /\ pc'[u] = "sweep")
        BY <3>3, <1>0, <1>s2 DEF IInv, TypeOK, Busy, d
      <4>2. QED BY <3>3, <4>1, <1>s9 DEF Readers
    <3>4. Readers(n) \subseteq Dbs /\ Readers(n)' \subseteq Dbs
      BY DEF Readers
    <3>5. QED BY <3>1, <3>2, <3>3, <3>4
  <2>4. ASSUME NEW e \in Dbs PROVE Sharers(e)' = Sharers(e) /\ dbi'[e].uses = dbi[e].uses
    BY <1>0, <1>s1, <1>s9 DEF IInv, TypeOK, Sharers
  <2>5. ASSUME NEW u \in Threads, (Closes(u) \/ pc[u] = "init")' PROVE (dbi[dbip[u]].uses = 0)'
    <3>1. Closes(u) \/ pc[u] = "init"
      BY <2>5, <1>0 DEF IInv, TypeOK, Closes
    <3>2. dbip[u] \in Dbs
      BY <3>1, HoldsDb DEF HasDb, Closes
    <3>3. QED BY <3>1, <3>2, <2>4, <1>0 DEF IInv, Counts
  <2>6. stray' = stray
    BY <1>0
  <2>7. QED BY <2>1, <2>2, <2>3, <2>4, <2>5, <2>6 DEF IInv, Counts
<1>8. Entries'
  <2>1. ASSUME NEW n \in Maps, map'[n].appl = "db_i" PROVE map[n].appl = "db_i"
    BY <2>1, <1>s4, <1>s5
  <2>2. QED BY <1>0, <2>1 DEF IInv, TypeOK, Entries
<1>9. Fresh'
  BY <1>0, <1>s2 DEF IInv, TypeOK, Fresh, Asks
<1>10. Bitmaps'
  <2>1. \A u \in Threads : pc[u] # "convert" /\ pc'[u] # "convert" /\ (pc'[u] = "has" => pc[u] = "has")
    BY <1>0, <1>s2 DEF IInv, TypeOK, Busy
  <2>2. ASSUME NEW n \in Maps PROVE map'[n].bitmap # "part"
    BY <2>1, <1>s4, <1>s5 DEF IInv, Bitmaps, ConvertedOnce
  <2>3. ASSUME NEW u \in Threads, pc[u] = "has", appl[u] = "ebm" PROVE map'[mp[u]].bitmap # "none"
    <3>1. mp[u] # None
      BY <2>3 DEF IInv, Place, NoFile
    <3>2. QED BY <3>1, <2>3, <1>s8 DEF IInv, Bitmaps, ConvertedOnce
  <2>4. QED BY <1>0, <2>1, <2>2, <2>3 DEF Bitmaps, ConvertedOnce
<1>11. Strays'
  <2>1. ASSUME NEW n \in Maps, stray[n] > 0 PROVE map'[n] = map[n]
    BY <2>1, <1>0, StrayIsCounted, <1>s4 DEF IInv
  <2>2. QED BY <1>0, <2>1 DEF IInv, Strays
<1>12. QED BY <1>1, <1>2, <1>3, <1>4, <1>5, <1>6, <1>7, <1>8, <1>9, <1>10, <1>11 DEF IInv

LEMMA FileChangesKeeps ==
    ASSUME IInv, FileChanges
    PROVE  IInv'
<1>1. TypeOK'
  BY VersionsAssumption DEF IInv, TypeOK, FileChanges
<1>2. Place' /\ Alone' /\ Memory' /\ Pointers' /\ Links'
  BY DEF IInv, Place, Alone, Memory, Pointers, Links, NoFile, HasDb, Busy, Closes, FileChanges
<1>3. Counts'
  BY DEF IInv, Counts, Users, Readers, Sharers, Asks, Closes, FileChanges
<1>4. Strays' /\ Entries' /\ Bitmaps'
  BY DEF IInv, Strays, Entries, Bitmaps, ConvertedOnce, FileChanges
<1>5. Fresh'
  BY DEF IInv, TypeOK, Fresh, Asks, FileChanges
<1>6. QED BY <1>1, <1>2, <1>3, <1>4, <1>5 DEF IInv

-----------------------------------------------------------------------------
(* The invariant holds throughout.                                         *)

LEMMA InitInv == Init => IInv
<1> SUFFICES ASSUME Init PROVE IInv
  OBVIOUS
<1>0. /\ \A t \in Threads : /\ pc[t] = "idle" /\ mp[t] = None /\ dbip[t] = None
                            /\ appl[t] = "NULL" /\ copy[t] = Gone
      /\ \A m \in Maps : map[m] = FreeMap
      /\ \A d \in Dbs : dbi[d] = FreeDbi
      /\ table = <<>>
      /\ \A m \in Maps : stray[m] = 0
  BY DEF Init
<1>s1. /\ FreeMap.live = FALSE /\ FreeMap.uses = 0 /\ FreeMap.appl = "NULL"
       /\ FreeMap.bitmap = "none" /\ FreeMap.db = None
       /\ FreeDbi.live = FALSE /\ FreeDbi.mf = None /\ FreeDbi.uses = 0
  BY DEF FreeMap, FreeDbi
<1>1. TypeOK
  <2>1. map \in [Maps -> MapRec] /\ dbi \in [Dbs -> DbRec]
    BY FreshRecords DEF Init
  <2>2. QED BY <2>1 DEF Init, TypeOK, MapRec, DbRec, Tags, Gone
<1>2. Place
  BY <1>0 DEF Place, NoFile, HasDb
<1>3. Alone
  BY <1>0 DEF Alone, Closes, Busy
<1>4. Memory
  BY <1>0, <1>s1 DEF Memory, Distinct, ToSet
<1>5. Pointers
  BY <1>0 DEF Pointers
<1>6. Links
  BY <1>0, <1>s1 DEF Links
<1>7. Counts
  <2>1. ASSUME NEW m \in Maps PROVE Users(m) = {} /\ Readers(m) = {}
    BY <1>0, <1>s1, HeapAssumption DEF Users, Readers
  <2>2. ASSUME NEW d \in Dbs PROVE Sharers(d) = {}
    BY <1>0 DEF Sharers
  <2>3. \A t \in Threads : ~Closes(t) /\ pc[t] # "init"
    BY <1>0 DEF Closes
  <2>4. Cardinality({}) = 0
    BY FS_EmptySet
  <2>5. ASSUME NEW m \in Maps
        PROVE  map[m].uses = Cardinality(Users(m)) + Cardinality(Readers(m)) + stray[m]
    <3>1. map[m].uses = 0 /\ stray[m] = 0
      BY <1>0, <1>s1
    <3>2. Cardinality(Users(m)) = 0 /\ Cardinality(Readers(m)) = 0
      BY <2>1, <2>4
    <3>3. QED BY <3>1, <3>2
  <2>6. ASSUME NEW d \in Dbs PROVE dbi[d].uses = Cardinality(Sharers(d))
    BY <2>2, <2>4, <1>0, <1>s1
  <2>7. QED BY <2>3, <2>5, <2>6 DEF Counts
<1>8. Entries
  BY <1>0, <1>s1 DEF Entries
<1>9. Fresh
  BY <1>0 DEF Fresh, Asks
<1>10. Bitmaps
  BY <1>0, <1>s1 DEF Bitmaps, ConvertedOnce
<1>11. Strays
  BY <1>0 DEF Strays
<1>12. QED BY <1>1, <1>2, <1>3, <1>4, <1>5, <1>6, <1>7, <1>8, <1>9, <1>10, <1>11 DEF IInv

LEMMA StepInv == Serial /\ IInv /\ [Next]_vars => IInv'
<1> SUFFICES ASSUME Serial, IInv, [Next]_vars PROVE IInv'
  OBVIOUS
<1>1. ASSUME NEW t \in Threads, NEW a \in Tags, Find(t, a) PROVE IInv'
  BY <1>1, FindKeeps
<1>2. ASSUME NEW t \in Threads,
             Validate(t) \/ Increment(t) \/ Invalidate(t) \/ MapFile(t) \/ OpenFails(t)
      PROVE  IInv'
  BY <1>2, ValidateKeeps, IncrementKeeps, InvalidateKeeps, MapFileKeeps, OpenFailsKeeps
<1>3. ASSUME NEW t \in Threads, Add(t) PROVE IInv'
  BY <1>3, AddCases, EntersKeeps
<1>4. ASSUME NEW t \in Threads, Close(t) \/ Free(t) PROVE IInv'
  BY <1>4, CloseKeeps, FreeKeeps
<1>5. ASSUME NEW t \in Threads,
             TooShort(t) \/ CheckBitmap(t) \/ AllocateBitmap(t) \/ ConvertBitmap(t)
      PROVE  IInv'
  BY <1>5, TooShortKeeps, CheckBitmapKeeps, AllocateBitmapCases, FirstToConvertKeeps,
     TooLateToConvertKeeps, ConvertBitmapKeeps
<1>6. ASSUME NEW t \in Threads,
             ReadApbuf(t) \/ ShareDb(t) \/ GiveBack(t) \/ InitDb(t) \/ GetcwdFails(t)
      PROVE  IInv'
  BY <1>6, ReadApbufKeeps, ShareDbKeeps, GiveBackKeeps, InitDbKeeps, GetcwdFailsKeeps
<1>7. ASSUME NEW t \in Threads, NewDb(t) PROVE IInv'
  BY <1>7, NewDbCases, MakesDbKeeps
<1>8. ASSUME NEW t \in Threads, CloseDb(t) PROVE IInv'
  BY <1>8, CloseDbCases, LeavesDbKeeps, LastToCloseKeeps
<1>9. ASSUME NEW t \in Threads, CloseDbFile(t) \/ SweepDbFile(t) \/ FreeDb(t) PROVE IInv'
  BY <1>9, CloseDbFileKeeps, SweepDbFileKeeps, FreeDbKeeps
<1>10. CASE FileChanges
  BY <1>10, FileChangesKeeps
<1>11. CASE UNCHANGED vars
  <2>1. TypeOK' /\ Place' /\ Alone' /\ Memory' /\ Pointers' /\ Links'
    BY <1>11 DEF vars, IInv, TypeOK, Place, Alone, Memory, Pointers, Links, NoFile, HasDb,
                 Busy, Closes
  <2>2. Counts' /\ Strays' /\ Entries' /\ Fresh' /\ Bitmaps'
    BY <1>11 DEF vars, IInv, Counts, Users, Readers, Sharers, Asks, Closes, Strays, Entries,
                 Fresh, Bitmaps, ConvertedOnce
  <2>3. QED BY <2>1, <2>2 DEF IInv
<1>12. QED BY <1>1, <1>2, <1>3, <1>4, <1>5, <1>6, <1>7, <1>8, <1>9, <1>10, <1>11 DEF Next

(* Every state of the program satisfies the inductive invariant, among it  *)
(* the types of what mappedfile.c, db_open.c and ebm.c keep.               *)
THEOREM InvariantHolds == Serial => (Spec => []IInv)
<1>1. CASE ~Serial
  BY <1>1
<1>2. CASE Serial
  <2>1. IInv /\ [Next]_vars => IInv'
    BY <1>2, StepInv
  <2>2. QED BY <2>1, InitInv, PTL DEF Spec
<1>3. QED BY <1>1, <1>2

(* No user, entry or database is left with a pointer to memory that        *)
(* bu_free_mapped_files or db_close has given back.                        *)
THEOREM NoPointerDangles == Serial => (Spec => []NothingDangling)
<1>1. IInv => NothingDangling
  BY DEF IInv, Pointers, Links, NothingDangling
<1>2. QED BY <1>1, InvariantHolds, PTL

(* The use counts are the pointers handed out (bu_open_mapped_file,        *)
(* bu_close_mapped_file, db_open, db_close), but for one more for each     *)
(* rt_ebm_import4 that found the file too short, whose use stays with the  *)
(* entry of that version of the file.                                      *)
THEOREM UsesAreUsers == Serial => (Spec => []UsesCounted)
<1>1. IInv => UsesCounted
  BY DEF IInv, Counts, Strays, Users, Readers, Sharers, UsesCounted
<1>2. QED BY <1>1, InvariantHolds, PTL

(* At most one entry answers to the tag "db_i", whatever becomes of the    *)
(* file and whoever opens it meanwhile (mapped_file_find, db_open).        *)
THEOREM DatabaseIsShared == Serial => (Spec => []OneDatabase)
<1>1. ASSUME IInv PROVE OneDatabase
  <2> DEFINE Hits == {i \in DOMAIN table : map[table[i]].appl = "db_i"}
  <2>1. /\ DOMAIN table = 1 .. Len(table)
        /\ \A i \in 1 .. Len(table) : table[i] \in Maps
    BY <1>1, LenProperties, ElementOfSeq DEF IInv, TypeOK
  <2>2. \A i, j \in Hits : i = j
    BY <1>1, <2>1 DEF IInv, Memory, Distinct, Entries
  <2>3. CASE Hits = {}
    BY <2>3, FS_EmptySet DEF OneDatabase
  <2>4. CASE Hits # {}
    <3>1. PICK i \in Hits : TRUE
      BY <2>4
    <3>2. Hits = {i}
      BY <2>2, <3>1
    <3>3. Cardinality({i}) = 1
      BY FS_Singleton
    <3>4. QED BY <3>2, <3>3 DEF OneDatabase
  <2>5. QED BY <2>3, <2>4
<1>2. QED BY <1>1, InvariantHolds, PTL

(* A bitmap is converted by one thread only, and a user that is back from  *)
(* rt_ebm_import4 has one.                                                 *)
THEOREM BitmapIsConvertedOnce == Serial => (Spec => []ConvertedOnce)
<1>1. IInv => ConvertedOnce
  BY DEF IInv, Bitmaps
<1>2. QED BY <1>1, InvariantHolds, PTL

(* The entry that bu_open_mapped_file returns is no older than the call    *)
(* (mapped_file_is_valid), however often the file changes.                 *)
THEOREM EntryIsFresh == Serial => (Spec => FreshCopy)
<1> DEFINE Step == \A t \in Threads :
              Asks(t) /\ pc'[t] \in {"has", "opened"} =>
                  {map'[mp'[t]].version, Gone} \cap seen[t] # {}
<1>1. ASSUME IInv, Next, NEW t \in Threads, Asks(t), pc'[t] \in {"has", "opened"}
      PROVE  {map'[mp'[t]].version, Gone} \cap seen[t] # {}
  <2>1. pc'[t] # pc[t] /\ pc[t] \notin {"idle", "has", "opened", "lock", "convert", "reuse",
                                        "unuse", "init", "close", "sweep", "free"}
    BY <1>1 DEF Asks
  <2>2. ASSUME NEW u \in Threads, u # t, NEW labels, Goto(u, labels) PROVE FALSE
    BY <2>1, <2>2 DEF Goto, IInv, TypeOK
  <2>3. Increment(t) \/ Add(t)
    <3>1. CASE FileChanges
      BY <3>1, <2>1 DEF FileChanges
    <3>2. ASSUME NEW u \in Threads, u # t, NEW a \in Tags, Find(u, a) PROVE FALSE
      BY <3>2, <2>2 DEF Find
    <3>3. ASSUME NEW u \in Threads, Free(u) PROVE FALSE
      BY <3>3, <2>1 DEF Free
    <3>4. ASSUME NEW u \in Threads, u # t,
                 \/ Validate(u) \/ Increment(u) \/ Invalidate(u) \/ MapFile(u) \/ OpenFails(u)
                 \/ Add(u) \/ Close(u)
          PROVE  FALSE
      BY <3>4, <2>2 DEF Validate, Increment, Invalidate, MapFile, OpenFails, Add, Close, Opened,
                        Returns
    <3>5. ASSUME NEW u \in Threads, u # t,
                 \/ TooShort(u) \/ CheckBitmap(u) \/ AllocateBitmap(u) \/ ConvertBitmap(u)
                 \/ ReadApbuf(u) \/ ShareDb(u) \/ GiveBack(u) \/ NewDb(u)
          PROVE  FALSE
      BY <3>5, <2>2 DEF TooShort, CheckBitmap, AllocateBitmap, ConvertBitmap, ReadApbuf,
                        ShareDb, GiveBack, NewDb, Has, Returns
    <3>6. ASSUME NEW u \in Threads, u # t,
                 \/ InitDb(u) \/ GetcwdFails(u) \/ CloseDb(u) \/ CloseDbFile(u)
                 \/ SweepDbFile(u) \/ FreeDb(u)
          PROVE  FALSE
      BY <3>6, <2>2 DEF InitDb, GetcwdFails, CloseDb, CloseDbFile, SweepDbFile, FreeDb, Has,
                        Returns
    <3>7. ASSUME Validate(t) \/ Invalidate(t) \/ MapFile(t) \/ OpenFails(t) PROVE FALSE
      BY <3>7, <1>1 DEF Validate, Invalidate, MapFile, OpenFails, Returns, Goto, IInv, TypeOK
    <3>8. ASSUME NEW a \in Tags, Find(t, a) PROVE FALSE
      BY <3>8, <2>1 DEF Find
    <3>9. ASSUME \/ Close(t) \/ TooShort(t) \/ CheckBitmap(t) \/ AllocateBitmap(t)
                 \/ ConvertBitmap(t) \/ ReadApbuf(t) \/ ShareDb(t) \/ GiveBack(t) \/ NewDb(t)
                 \/ InitDb(t) \/ GetcwdFails(t) \/ CloseDb(t) \/ CloseDbFile(t)
                 \/ SweepDbFile(t) \/ FreeDb(t)
          PROVE  FALSE
      BY <3>9, <2>1 DEF Close, TooShort, CheckBitmap, AllocateBitmap, ConvertBitmap, ReadApbuf,
                        ShareDb, GiveBack, NewDb, InitDb, GetcwdFails, CloseDb, CloseDbFile,
                        SweepDbFile, FreeDb
    <3>10. QED BY <1>1, <3>1, <3>2, <3>3, <3>4, <3>5, <3>6, <3>7, <3>8, <3>9 DEF Next
  <2>4. CASE Increment(t)
    <3>1. mp[t] \in Maps
      BY <1>1, <2>4, Holds DEF NoFile, Increment
    <3>2. map'[mp'[t]].version = map[mp[t]].version
      BY <1>1, <2>4, <3>1 DEF IInv, TypeOK, Increment
    <3>3. QED BY <1>1, <2>4, <3>2 DEF IInv, Fresh, Increment
  <2>5. CASE Add(t)
    <3>1. PICK m \in Maps : Enters(t, m)
      BY <2>5, AddCases
    <3>2. mp'[t] = m /\ map'[m].version = copy[t]
      BY <1>1, <3>1 DEF IInv, TypeOK, Enters, FreeMap
    <3>3. QED BY <1>1, <3>1, <3>2 DEF IInv, Fresh, Enters
  <2>6. QED BY <2>3, <2>4, <2>5
<1>2. IInv /\ [Next]_vars => [Step]_vars
  BY <1>1
<1>3. [Step]_vars <=> [\A t \in Threads :
              Asks(t) /\ pc'[t] \in {"has", "opened"} =>
                  {map'[mp'[t]].version, Gone} \cap seen[t] # {}]_vars
  OBVIOUS
<1>4. QED BY <1>2, InvariantHolds, PTL DEF Spec, FreshCopy

=============================================================================
