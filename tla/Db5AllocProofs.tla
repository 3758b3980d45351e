--------------------------- MODULE Db5AllocProofs ---------------------------
(***************************************************************************)
(* Proofs about the storage of a .g file (Db5Alloc): type correctness; no  *)
(* storage belongs to two objects, or to an object and to the map of free  *)
(* storage, and none is lost to both; objects read back as they were last  *)
(* put; and a file is corrupt only for a reason: whatever crashes, failed  *)
(* writes and scans there are.                                             *)
(*                                                                         *)
(* The first inductive invariant, IInv, is about memory: it gives every    *)
(* directory entry a claim on storage.  In the middle of an operation the  *)
(* claim of the entry that is changed is not what the entry says:          *)
(* db5_realloc points the entry at one half of its storage after the other *)
(* to have them erased.                                                    *)
(*                                                                         *)
(* The second, Tiled, is about the file: there is a set of marks, the      *)
(* addresses at which a scan may look for a header, such that each object  *)
(* ends at the next mark, but for the storage that an operation is at work *)
(* on, and the directory and the map say of the marks what the file does.  *)
(* After a crash in a delicate write there may be junk on a mark, but a    *)
(* scan still goes from mark to mark and misses no object with a name.     *)
(***************************************************************************)
EXTENDS Db5Alloc, FiniteSetTheorems, WellFoundedInduction, TLAPS

-----------------------------------------------------------------------------
(* What rt_memfree (src/src/librt/memalloc.c) leaves of a map of free      *)
(* storage: its extents stay apart, and they reach into no storage that    *)
(* neither the map nor the freed extent reached into.                      *)

(* The extent e and the n units from a have none in common.                *)
Clear(e, a, n) == After(e) <= a \/ a + n <= e.addr

Smaller == {p \in Nat \X Nat : p[1] < p[2]}

LEMMA Least ==
    ASSUME NEW T, T \subseteq Nat, T # {}
    PROVE  \E x \in T : \A y \in T : x <= y
<1>1. OpToRel(<, Nat) = Smaller
  BY DEF OpToRel, Smaller
<1>2. IsWellFoundedOn(Smaller, Nat)
  BY <1>1, NatLessThanWellFounded
<1>3. PICK x \in T : \A y \in T : <<y, x>> \notin Smaller
  BY <1>2, WFMin
<1>4. ASSUME NEW y \in T PROVE x <= y
  <2>1. x \in Nat /\ y \in Nat
    OBVIOUS
  <2>2. <<y, x>> \notin Smaller
    BY <1>3
  <2>3. ~(y < x)
    BY <2>1, <2>2 DEF Smaller
  <2> QED
    BY <2>1, <2>3
<1> QED
  BY <1>4

LEMMA Greatest ==
    ASSUME NEW T, T \subseteq Nat, T # {}, NEW n \in Nat, \A t \in T : t <= n
    PROVE  \E x \in T : \A y \in T : y <= x
<1> DEFINE U == {n - t : t \in T}
<1>1. U \subseteq Nat /\ U # {}
  <2>1. ASSUME NEW t \in T PROVE n - t \in Nat
    <3>1. t \in Nat /\ t <= n
      OBVIOUS
    <3> QED
      BY <3>1
  <2>2. PICK t \in T : TRUE
    OBVIOUS
  <2> QED
    BY <2>1, <2>2
<1>2. PICK u \in U : \A v \in U : u <= v
  BY <1>1, Least
<1>3. PICK x \in T : u = n - x
  BY <1>2
<1>4. ASSUME NEW y \in T PROVE y <= x
  <2>1. n - x <= n - y
    BY <1>2, <1>3
  <2> QED
    BY <2>1
<1> QED
  BY <1>4

LEMMA PrevExists ==
    ASSUME NEW map, map \subseteq Extent, NEW addr \in Nat,
           NEW e \in map, e.addr <= addr
    PROVE  \E p \in Prev(map, addr) : e.addr <= p.addr
<1> DEFINE T == {f.addr : f \in {f \in map : f.addr <= addr}}
<1>1. T \subseteq Nat /\ T # {} /\ \A t \in T : t <= addr
  BY DEF Extent
<1>2. PICK x \in T : \A y \in T : y <= x
  BY <1>1, Greatest
<1>3. PICK p \in map : p.addr <= addr /\ p.addr = x
  BY <1>2
<1>4. \A f \in map : f.addr <= addr => f.addr \in T
  OBVIOUS
<1>5. p \in Prev(map, addr)
  BY <1>2, <1>3, <1>4 DEF Prev
<1>6. e.addr <= p.addr
  BY <1>2, <1>3, <1>4
<1> QED
  BY <1>5, <1>6

LEMMA CurrExists ==
    ASSUME NEW map, map \subseteq Extent, NEW addr \in Nat,
           NEW e \in map, addr < e.addr
    PROVE  \E c \in Curr(map, addr) : c.addr <= e.addr
<1> DEFINE T == {f.addr : f \in {f \in map : addr < f.addr}}
<1>1. T \subseteq Nat /\ T # {}
  BY DEF Extent
<1>2. PICK x \in T : \A y \in T : x <= y
  BY <1>1, Least
<1>3. PICK c \in map : addr < c.addr /\ c.addr = x
  BY <1>2
<1>4. \A f \in map : addr < f.addr => f.addr \in T
  OBVIOUS
<1>5. c \in Curr(map, addr)
  BY <1>2, <1>3, <1>4 DEF Curr
<1>6. c.addr <= e.addr
  BY <1>2, <1>3, <1>4
<1> QED
  BY <1>5, <1>6

(* The two neighbours say it all: what overlaps neither of them overlaps   *)
(* nothing, and nothing else touches it.                                   *)
LEMMA Neighbours ==
    ASSUME NEW map, map \subseteq Extent, Apart(map),
           NEW addr \in Nat, NEW size \in Nat \ {0}, ~Overflow(map, size, addr)
    PROVE  /\ \A e \in map : Clear(e, addr, size)
           /\ {e \in Prev(map, addr) : After(e) = addr} = {e \in map : After(e) = addr}
           /\ {e \in Curr(map, addr) : addr + size = e.addr} =
                {e \in map : addr + size = e.addr}
<1>1. ASSUME NEW e \in map, e.addr <= addr PROVE After(e) <= addr
  <2>1. PICK p \in Prev(map, addr) : e.addr <= p.addr
    BY <1>1, PrevExists
  <2>2. p \in map /\ p.addr <= addr /\ After(p) <= addr
    BY <2>1 DEF Prev, Overflow, After, Extent
  <2>3. CASE e = p
    BY <2>2, <2>3
  <2>4. CASE e # p
    <3>1. After(e) < p.addr \/ After(p) < e.addr
      BY <2>2, <2>4 DEF Apart
    <3> QED
      BY <2>1, <2>2, <3>1 DEF After, Extent
  <2> QED
    BY <2>3, <2>4
<1>2. ASSUME NEW e \in map, addr < e.addr PROVE addr + size <= e.addr
  <2>1. PICK c \in Curr(map, addr) : c.addr <= e.addr
    BY <1>2, CurrExists
  <2>2. c \in map /\ addr + size <= c.addr
    BY <2>1 DEF Curr, Overflow, Extent
  <2> QED
    BY <2>1, <2>2 DEF Extent
<1>3. \A e \in map : Clear(e, addr, size)
  BY <1>1, <1>2 DEF Clear, Extent
<1>4. ASSUME NEW e \in map, After(e) = addr PROVE e \in Prev(map, addr)
  <2>1. e.addr <= addr
    BY <1>4 DEF After, Extent
  <2>2. ASSUME NEW f \in map, f.addr <= addr PROVE f.addr <= e.addr
    <3>1. e = f \/ After(e) < f.addr \/ After(f) < e.addr
      BY DEF Apart
    <3> QED
      BY <1>4, <2>2, <3>1 DEF After, Extent
  <2> QED
    BY <2>1, <2>2 DEF Prev
<1>5. ASSUME NEW e \in map, addr + size = e.addr PROVE e \in Curr(map, addr)
  <2>1. addr < e.addr
    BY <1>5 DEF Extent
  <2>2. ASSUME NEW f \in map, addr < f.addr PROVE e.addr <= f.addr
    BY <1>2, <1>5, <2>2
  <2> QED
    BY <2>1, <2>2 DEF Curr
<1>6. Prev(map, addr) \subseteq map /\ Curr(map, addr) \subseteq map
  BY DEF Prev, Curr
<1> QED
  BY <1>3, <1>4, <1>5, <1>6

(* One of the extents of a merged map covers the freed extent, and the     *)
(* neighbours that are gone with it; all others were there before.         *)
LEMMA Merged ==
    ASSUME NEW map, map \subseteq Extent, Apart(map),
           NEW addr \in Nat, NEW size \in Nat \ {0}, ~Overflow(map, size, addr)
    PROVE  \E m \in Extent :
             LET gone == {e \in map : After(e) = addr \/ addr + size = e.addr}
             IN  /\ rt_memfree(map, size, addr) = (map \ gone) \cup {m}
                 /\ m.addr = addr \/ \E b \in gone : After(b) = addr /\ m.addr = b.addr
                 /\ After(m) = addr + size
                        \/ \E a \in gone : addr + size = a.addr /\ After(m) = After(a)
                 /\ m.addr <= addr /\ addr + size <= After(m)
                 /\ \A e \in gone : m.addr <= e.addr /\ After(e) <= After(m)
<1> DEFINE B == {e \in map : After(e) = addr}
           A == {e \in map : addr + size = e.addr}
           gone == {e \in map : After(e) = addr \/ addr + size = e.addr}
<1>1. rt_memfree(map, size, addr) = (map \ (B \cup A)) \cup Merge(B, A, size, addr)
  <2>1. {e \in Prev(map, addr) : After(e) = addr} = B
    BY Neighbours
  <2>2. {e \in Curr(map, addr) : addr + size = e.addr} = A
    BY Neighbours
  <2>3. ~(size = 0 \/ Overflow(map, size, addr))
    OBVIOUS
  <2> HIDE DEF A, B
  <2> QED
    BY <2>1, <2>2, <2>3, Zenon DEF rt_memfree
<1>2. gone = B \cup A
  OBVIOUS
<1>3. ASSUME NEW b \in B, NEW c \in B PROVE b = c
  <2>1. b = c \/ After(b) < c.addr \/ After(c) < b.addr
    BY DEF Apart
  <2> QED
    BY <2>1 DEF After, Extent
<1>4. ASSUME NEW a \in A, NEW c \in A PROVE a = c
  <2>1. a = c \/ After(a) < c.addr \/ After(c) < a.addr
    BY DEF Apart
  <2> QED
    BY <2>1 DEF After, Extent
<1>5. CASE B # {} /\ A # {}
  <2>1. PICK b \in B, a \in A : TRUE
    BY <1>5
  <2> DEFINE m == [addr |-> b.addr, size |-> b.size + size + a.size]
  <2>2. B = {b} /\ A = {a}
    BY <1>3, <1>4
  <2>3. Merge(B, A, size, addr) = {m}
    BY <2>2 DEF Merge
  <2>4. /\ b \in Extent /\ a \in Extent /\ After(b) = addr /\ addr + size = a.addr
    OBVIOUS
  <2>5. m \in Extent /\ m.addr = b.addr /\ After(m) = After(a)
    BY <2>4 DEF Extent, After
  <2>6. m.addr <= addr /\ addr + size <= After(m)
    BY <2>4, <2>5 DEF Extent, After
  <2>7. \A e \in gone : m.addr <= e.addr /\ After(e) <= After(m)
    BY <1>2, <2>2, <2>4, <2>5, <2>6 DEF Extent, After
  <2>8. rt_memfree(map, size, addr) = (map \ gone) \cup {m}
    BY <1>1, <1>2, <2>3
  <2>9. b \in gone /\ a \in gone
    BY <1>2
  <2> QED
    BY <2>4, <2>5, <2>6, <2>7, <2>8, <2>9
<1>6. CASE B # {} /\ A = {}
  <2>1. PICK b \in B : TRUE
    BY <1>6
  <2> DEFINE m == [addr |-> b.addr, size |-> b.size + size]
  <2>2. B = {b}
    BY <1>3
  <2>3. b \in Extent /\ After(b) = addr
    OBVIOUS
  <2>4. [b EXCEPT !.size = b.size + size] = m
    BY <2>3 DEF Extent
  <2>5. Merge(B, A, size, addr) = {[b EXCEPT !.size = b.size + size]}
    BY <1>6, <2>2 DEF Merge
  <2>6. m \in Extent /\ m.addr = b.addr /\ After(m) = addr + size
    BY <2>3 DEF Extent, After
  <2>7. m.addr <= addr /\ addr + size <= After(m)
    BY <2>3, <2>6 DEF Extent, After
  <2>8. \A e \in gone : m.addr <= e.addr /\ After(e) <= After(m)
    BY <1>2, <1>6, <2>2, <2>3, <2>6, <2>7 DEF Extent, After
  <2>9. rt_memfree(map, size, addr) = (map \ gone) \cup {m}
    BY <1>1, <1>2, <2>4, <2>5
  <2> QED
    BY <1>2, <2>3, <2>6, <2>7, <2>8, <2>9
<1>7. CASE B = {} /\ A # {}
  <2>1. PICK a \in A : TRUE
    BY <1>7
  <2> DEFINE m == [addr |-> addr, size |-> size + a.size]
  <2>2. A = {a}
    BY <1>4
  <2>3. Merge(B, A, size, addr) = {m}
    BY <1>7, <2>2 DEF Merge
  <2>4. a \in Extent /\ addr + size = a.addr
    OBVIOUS
  <2>5. m \in Extent /\ m.addr = addr /\ After(m) = After(a)
    BY <2>4 DEF Extent, After
  <2>6. m.addr <= addr /\ addr + size <= After(m)
    BY <2>4, <2>5 DEF Extent, After
  <2>7. \A e \in gone : m.addr <= e.addr /\ After(e) <= After(m)
    BY <1>2, <1>7, <2>2, <2>4, <2>5, <2>6 DEF Extent, After
  <2>8. rt_memfree(map, size, addr) = (map \ gone) \cup {m}
    BY <1>1, <1>2, <2>3
  <2> QED
    BY <1>2, <2>4, <2>5, <2>6, <2>7, <2>8
<1>8. CASE B = {} /\ A = {}
  <2> DEFINE m == [addr |-> addr, size |-> size]
  <2>1. Merge(B, A, size, addr) = {m}
    BY <1>8 DEF Merge
  <2>2. m \in Extent /\ m.addr = addr /\ After(m) = addr + size
    BY DEF Extent, After
  <2>3. rt_memfree(map, size, addr) = (map \ gone) \cup {m}
    BY <1>1, <1>2, <2>1
  <2> QED
    BY <1>2, <1>8, <2>2, <2>3
<1> QED
  BY <1>5, <1>6, <1>7, <1>8

(* What is freed joins the map, which stays a map of extents apart.        *)
LEMMA FreeKeepsApart ==
    ASSUME NEW map, map \subseteq Extent, Apart(map), NEW addr \in Nat, NEW size \in Nat
    PROVE  /\ rt_memfree(map, size, addr) \subseteq Extent
           /\ Apart(rt_memfree(map, size, addr))
<1>1. CASE size = 0 \/ Overflow(map, size, addr)
  BY <1>1 DEF rt_memfree
<1>2. CASE size # 0 /\ ~Overflow(map, size, addr)
  <2> DEFINE gone == {e \in map : After(e) = addr \/ addr + size = e.addr}
  <2>1. size \in Nat \ {0}
    BY <1>2
  <2>2. PICK m \in Extent :
          /\ rt_memfree(map, size, addr) = (map \ gone) \cup {m}
          /\ m.addr = addr \/ \E b \in gone : After(b) = addr /\ m.addr = b.addr
          /\ After(m) = addr + size
                 \/ \E a \in gone : addr + size = a.addr /\ After(m) = After(a)
    BY <1>2, <2>1, Merged
  <2>3. ASSUME NEW e \in map \ gone PROVE After(e) < m.addr \/ After(m) < e.addr
    <3>1. After(e) <= addr \/ addr + size <= e.addr
      BY <1>2, <2>1, Neighbours DEF Clear
    <3>2. After(e) # addr /\ addr + size # e.addr /\ e \in Extent
      OBVIOUS
    <3>3. ASSUME After(e) < addr PROVE After(e) < m.addr
      <4>1. CASE m.addr = addr
        BY <3>3, <4>1
      <4>2. ASSUME NEW b \in gone, After(b) = addr, m.addr = b.addr
            PROVE  After(e) < m.addr
        <5>1. After(e) < b.addr \/ After(b) < e.addr
          BY DEF Apart
        <5> QED
          BY <3>2, <3>3, <4>2, <5>1 DEF After, Extent
      <4> QED
        BY <2>2, <4>1, <4>2
    <3>4. ASSUME addr + size < e.addr PROVE After(m) < e.addr
      <4>1. CASE After(m) = addr + size
        BY <3>4, <4>1
      <4>2. ASSUME NEW a \in gone, addr + size = a.addr, After(m) = After(a)
            PROVE  After(m) < e.addr
        <5>1. After(e) < a.addr \/ After(a) < e.addr
          BY DEF Apart
        <5> QED
          BY <3>2, <3>4, <4>2, <5>1 DEF After, Extent
      <4> QED
        BY <2>2, <4>1, <4>2
    <3> QED
      BY <3>1, <3>2, <3>3, <3>4 DEF After, Extent
  <2>4. Apart(map \ gone)
    BY DEF Apart
  <2> HIDE DEF gone
  <2>5. Apart((map \ gone) \cup {m})
    BY <2>3, <2>4 DEF Apart
  <2> QED
    BY <2>2, <2>5
<1> QED
  BY <1>1, <1>2

(* A map that is clear of some storage stays clear of it when other        *)
(* storage is freed.                                                       *)
LEMMA FreeKeepsClear ==
    ASSUME NEW map, map \subseteq Extent, Apart(map), NEW addr \in Nat, NEW size \in Nat,
           NEW a \in Nat, NEW n \in Nat \ {0},
           \A e \in map : Clear(e, a, n),
           addr + size <= a \/ a + n <= addr
    PROVE  \A e \in rt_memfree(map, size, addr) : Clear(e, a, n)
<1>1. CASE size = 0 \/ Overflow(map, size, addr)
  BY <1>1 DEF rt_memfree
<1>2. CASE size # 0 /\ ~Overflow(map, size, addr)
  <2> DEFINE gone == {e \in map : After(e) = addr \/ addr + size = e.addr}
  <2>1. size \in Nat \ {0}
    BY <1>2
  <2>2. PICK m \in Extent :
          /\ rt_memfree(map, size, addr) = (map \ gone) \cup {m}
          /\ m.addr = addr \/ \E b \in gone : After(b) = addr /\ m.addr = b.addr
          /\ After(m) = addr + size
                 \/ \E c \in gone : addr + size = c.addr /\ After(m) = After(c)
    BY <1>2, <2>1, Merged
  <2>3. CASE addr + size <= a
    <3>1. ASSUME After(m) = addr + size PROVE Clear(m, a, n)
      BY <2>3, <3>1 DEF Clear
    <3>2. ASSUME NEW c \in gone, addr + size = c.addr, After(m) = After(c)
          PROVE  Clear(m, a, n)
      <4>1. c \in map /\ Clear(c, a, n) /\ c \in Extent
        OBVIOUS
      <4> QED
        BY <2>1, <2>3, <3>2, <4>1 DEF Clear, After, Extent
    <3>3. Clear(m, a, n)
      BY <2>2, <3>1, <3>2 DEF Clear
    <3> QED
      BY <2>2, <3>3
  <2>4. CASE a + n <= addr
    <3>1. ASSUME m.addr = addr PROVE Clear(m, a, n)
      BY <2>4, <3>1 DEF Clear
    <3>2. ASSUME NEW b \in gone, After(b) = addr, m.addr = b.addr
          PROVE  Clear(m, a, n)
      <4>1. Clear(b, a, n) /\ b \in Extent
        OBVIOUS
      <4> QED
        BY <2>1, <2>4, <3>2, <4>1 DEF Clear, After, Extent
    <3>3. Clear(m, a, n)
      BY <2>2, <3>1, <3>2 DEF Clear
    <3> QED
      BY <2>2, <3>3
  <2> QED
    BY <2>3, <2>4
<1> QED
  BY <1>1, <1>2

-----------------------------------------------------------------------------
(* The claims of the directory entries, and the map of free storage.       *)

Place == [addr : Nat \cup {PhonyAddr}, len : Nat]
Request == [name : Names, content : Content \cup {None}, addr : Nat \cup {PhonyAddr},
            len : Nat]

Busy == pc \notin {"idle", "scan"}

OpClaim ==
    CASE pc \in {"zap", "allocate"} -> Absent
      [] pc \in {"front", "back"} -> [addr |-> op.addr, len |-> op.len]
      [] pc = "surplus" -> [addr |-> dp.addr - Length, len |-> Length + dp.len]
      [] OTHER -> dp

Claims == IF Busy THEN [dir EXCEPT ![op.name] = OpClaim] ELSE dir
Limit == IF pc = "scan" THEN pos ELSE dbi_eof

Disjoint(p, q) == p.addr + p.len <= q.addr \/ q.addr + q.len <= p.addr

Layout(free, claim, limit) ==
    /\ limit \in Start .. MaxEnd + 1
    /\ \A e \in free : Start <= e.addr /\ After(e) <= limit
    /\ \A n \in Names : claim[n].addr # PhonyAddr =>
            /\ 0 < claim[n].len /\ Start <= claim[n].addr
            /\ claim[n].addr + claim[n].len <= limit
            /\ \A e \in free : Clear(e, claim[n].addr, claim[n].len)
    /\ \A m, n \in Names :
            (m # n /\ claim[m].addr # PhonyAddr /\ claim[n].addr # PhonyAddr) =>
                Disjoint(claim[m], claim[n])

(* What the entry says at each step of db5_realloc and db_delete.          *)
Stage ==
    /\ Busy => op \in Request
    /\ (Busy /\ pc # "delete") => op.content \in Content
    /\ pc = "zap" => dp.addr # PhonyAddr /\ Start <= dp.addr /\ 0 < dp.len
                        /\ dp.addr + dp.len <= MaxEnd + 1
    /\ pc = "front" => dp.addr = op.addr /\ dp.len = Length
    /\ pc = "back" => dp.addr = op.addr + Length /\ dp.len = op.len - Length
    /\ pc \in {"front", "back"} => op.addr # PhonyAddr /\ Length < op.len
    /\ pc = "surplus" => dp.addr # PhonyAddr /\ 0 < dp.len /\ Start + Length <= dp.addr
    /\ pc \in {"erase", "write"} => dp.addr # PhonyAddr /\ dp.len = Length
    /\ pc = "delete" => dp.addr # PhonyAddr

IInv ==
    /\ TypeOK
    /\ FreeApart
    /\ dbi_read_only => ~Busy /\ pc # "scan"
    /\ Stage
    /\ ~dbi_read_only => Layout(dbi_freep, Claims, Limit)

-----------------------------------------------------------------------------
(* Layouts.                                                                *)

LEMMA FreeWithin ==
    ASSUME NEW map, map \subseteq Extent, Apart(map), NEW addr \in Nat, NEW size \in Nat,
           NEW lo \in Nat, NEW hi \in Nat,
           \A e \in map : lo <= e.addr /\ After(e) <= hi,
           lo <= addr, addr + size <= hi
    PROVE  \A e \in rt_memfree(map, size, addr) : lo <= e.addr /\ After(e) <= hi
<1>1. CASE size = 0 \/ Overflow(map, size, addr)
  BY <1>1 DEF rt_memfree
<1>2. CASE size # 0 /\ ~Overflow(map, size, addr)
  <2> DEFINE gone == {e \in map : After(e) = addr \/ addr + size = e.addr}
  <2>1. size \in Nat \ {0}
    BY <1>2
  <2>2. PICK m \in Extent :
          /\ rt_memfree(map, size, addr) = (map \ gone) \cup {m}
          /\ m.addr = addr \/ \E b \in gone : After(b) = addr /\ m.addr = b.addr
          /\ After(m) = addr + size
                 \/ \E c \in gone : addr + size = c.addr /\ After(m) = After(c)
    BY <1>2, <2>1, Merged
  <2>3. lo <= m.addr /\ After(m) <= hi
    BY <2>2
  <2> QED
    BY <2>2, <2>3
<1> QED
  BY <1>1, <1>2

(* The first k units of an entry's storage are kept, the others freed.     *)
LEMMA LayoutFreed ==
    ASSUME NEW free, free \subseteq Extent, Apart(free),
           NEW claim \in [Names -> Place], NEW limit, Layout(free, claim, limit),
           NEW n \in Names, claim[n].addr # PhonyAddr,
           NEW k \in Nat, k < claim[n].len,
           NEW left \in Place,
           left = Absent \/ (left = [addr |-> claim[n].addr, len |-> k] /\ 0 < k)
    PROVE  Layout(rt_memfree(free, claim[n].len - k, claim[n].addr + k),
                  [claim EXCEPT ![n] = left], limit)
<1> DEFINE addr == claim[n].addr + k
           size == claim[n].len - k
           result == rt_memfree(free, size, addr)
           new == [claim EXCEPT ![n] = left]
<1>1. /\ claim[n].addr \in Nat /\ claim[n].len \in Nat /\ limit \in Nat
      /\ addr \in Nat /\ size \in Nat /\ Start <= addr /\ addr + size <= limit
  BY DEF Layout, Place, Start, PhonyAddr
<1>2. limit \in Start .. MaxEnd + 1
  BY DEF Layout
<1>3. \A e \in result : Start <= e.addr /\ After(e) <= limit
  <2>1. \A e \in free : Start <= e.addr /\ After(e) <= limit
    BY DEF Layout
  <2> QED
    BY <1>1, <2>1, FreeWithin DEF Start
<1>4. ASSUME NEW m \in Names, m # n, claim[m].addr # PhonyAddr
      PROVE  \A e \in result : Clear(e, claim[m].addr, claim[m].len)
  <2>1. /\ claim[m].addr \in Nat /\ claim[m].len \in Nat \ {0}
        /\ \A e \in free : Clear(e, claim[m].addr, claim[m].len)
    BY <1>4 DEF Layout, Place
  <2>2. Disjoint(claim[m], claim[n])
    BY <1>4 DEF Layout
  <2>3. addr + size <= claim[m].addr \/ claim[m].addr + claim[m].len <= addr
    BY <1>1, <2>1, <2>2 DEF Disjoint
  <2> QED
    BY <1>1, <2>1, <2>3, FreeKeepsClear
<1>5. ASSUME left # Absent
      PROVE  \A e \in result : Clear(e, claim[n].addr, k)
  <2>1. 0 < k
    BY <1>5
  <2>2. \A e \in free : Clear(e, claim[n].addr, claim[n].len)
    BY DEF Layout
  <2>3. \A e \in free : Clear(e, claim[n].addr, k)
    BY <1>1, <2>2 DEF Clear, Extent, After
  <2> QED
    BY <1>1, <2>1, <2>3, FreeKeepsClear
<1>6. /\ new[n] = left
      /\ \A m \in Names : m # n => new[m] = claim[m]
  OBVIOUS
<1>7. left # Absent => left.addr = claim[n].addr /\ left.len = k
  OBVIOUS
<1>8. left = Absent => left.addr = PhonyAddr
  BY DEF Absent
<1> HIDE DEF result, new
<1>9. ASSUME NEW m \in Names, new[m].addr # PhonyAddr
      PROVE  /\ 0 < new[m].len /\ Start <= new[m].addr
             /\ new[m].addr + new[m].len <= limit
             /\ \A e \in result : Clear(e, new[m].addr, new[m].len)
  <2>1. CASE m # n
    BY <1>4, <1>6, <1>9, <2>1 DEF Layout
  <2>2. CASE m = n
    <3>1. left # Absent /\ 0 < k
      BY <1>6, <1>8, <1>9, <2>2
    <3>2. Start <= claim[n].addr
      BY DEF Layout
    <3> QED
      BY <1>1, <1>5, <1>6, <1>7, <2>2, <3>1, <3>2
  <2> QED
    BY <2>1, <2>2
<1>10. ASSUME NEW l \in Names, NEW m \in Names, l # m,
              new[l].addr # PhonyAddr, new[m].addr # PhonyAddr
       PROVE  Disjoint(new[l], new[m])
  <2>1. ASSUME NEW p \in Names, new[p].addr # PhonyAddr
        PROVE  /\ claim[p].addr # PhonyAddr
               /\ new[p].addr = claim[p].addr /\ new[p].len <= claim[p].len
               /\ new[p].len \in Nat /\ claim[p].len \in Nat /\ claim[p].addr \in Nat
    <3>1. CASE p # n
      BY <1>6, <2>1, <3>1 DEF Place
    <3>2. CASE p = n
      BY <1>1, <1>6, <1>7, <1>8, <2>1, <3>2
    <3> QED
      BY <3>1, <3>2
  <2>2. Disjoint(claim[l], claim[m])
    BY <1>10, <2>1 DEF Layout
  <2> QED
    BY <1>10, <2>1, <2>2 DEF Disjoint
<1>11. Layout(result, new, limit)
  BY <1>2, <1>3, <1>9, <1>10 DEF Layout
<1> QED
  BY <1>11 DEF result, new

(* Storage that nobody claims is given to an entry.                        *)
LEMMA LayoutClaimed ==
    ASSUME NEW free, free \subseteq Extent, NEW claim \in [Names -> Place], NEW limit,
           Layout(free, claim, limit),
           NEW n \in Names, claim[n].addr = PhonyAddr,
           NEW rest, rest \subseteq free,
           NEW end \in Start .. MaxEnd + 1, limit <= end,
           NEW p \in Place, p.addr # PhonyAddr, 0 < p.len, Start <= p.addr,
           p.addr + p.len <= end,
           \A e \in rest : Clear(e, p.addr, p.len),
           \A m \in Names : claim[m].addr # PhonyAddr => Disjoint(claim[m], p)
    PROVE  Layout(rest, [claim EXCEPT ![n] = p], end)
<1> DEFINE new == [claim EXCEPT ![n] = p]
<1>1. /\ new[n] = p
      /\ \A m \in Names : m # n => new[m] = claim[m]
  OBVIOUS
<1> HIDE DEF new
<1>2. limit \in Nat /\ end \in Nat /\ limit <= end
  BY DEF Layout, Start
<1>3. ASSUME NEW e \in rest PROVE Start <= e.addr /\ After(e) <= end
  <2>1. Start <= e.addr /\ After(e) <= limit
    BY DEF Layout
  <2>2. After(e) \in Nat
    BY DEF Extent, After
  <2> QED
    BY <1>2, <2>1, <2>2
<1>4. ASSUME NEW m \in Names, new[m].addr # PhonyAddr
      PROVE  /\ 0 < new[m].len /\ Start <= new[m].addr
             /\ new[m].addr + new[m].len <= end
             /\ \A e \in rest : Clear(e, new[m].addr, new[m].len)
  <2>1. CASE m = n
    BY <1>1, <2>1
  <2>2. CASE m # n
    <3>1. claim[m].addr \in Nat /\ claim[m].len \in Nat
      BY <1>1, <1>4, <2>2 DEF Place
    <3>2. /\ 0 < claim[m].len /\ Start <= claim[m].addr
          /\ claim[m].addr + claim[m].len <= limit
          /\ \A e \in free : Clear(e, claim[m].addr, claim[m].len)
      BY <1>1, <1>4, <2>2 DEF Layout
    <3>3. claim[m].addr + claim[m].len <= end
      BY <1>2, <3>1, <3>2
    <3> QED
      BY <1>1, <2>2, <3>2, <3>3
  <2> QED
    BY <2>1, <2>2
<1>5. ASSUME NEW l \in Names, NEW m \in Names, l # m,
             new[l].addr # PhonyAddr, new[m].addr # PhonyAddr
      PROVE  Disjoint(new[l], new[m])
  <2>1. CASE l = n
    BY <1>1, <1>5, <2>1 DEF Disjoint
  <2>2. CASE m = n
    BY <1>1, <1>5, <2>2
  <2>3. CASE l # n /\ m # n
    BY <1>1, <1>5, <2>3 DEF Layout
  <2> QED
    BY <2>1, <2>2, <2>3
<1>6. Layout(rest, new, end)
  BY <1>3, <1>4, <1>5 DEF Layout
<1> QED
  BY <1>6 DEF new

-----------------------------------------------------------------------------
(* Types.                                                                  *)

DiskOK ==
    /\ file \in [Start .. MaxEnd -> Cell]
    /\ file_end \in Start .. MaxEnd + 1

LEMMA ClaimsType ==
    ASSUME TypeOK, Stage
    PROVE  Claims \in [Names -> Place]
<1>1. dir \in [Names -> Place]
  BY DEF TypeOK, Place
<1>2. CASE ~Busy
  BY <1>1, <1>2 DEF Claims
<1>3. CASE Busy
  <2>1. op \in Request
    BY <1>3 DEF Stage
  <2>2. op.name \in Names /\ dp \in Place
    BY <1>1, <2>1 DEF dp, Request
  <2>3. OpClaim \in Place
    <3>1. CASE pc \in {"zap", "allocate"}
      BY <3>1 DEF OpClaim, Absent, Place, PhonyAddr
    <3>2. CASE pc \in {"front", "back"}
      BY <2>1, <3>2 DEF OpClaim, Place, Request
    <3>3. CASE pc = "surplus"
      <4>1. op.content \in Content /\ Start + Length <= dp.addr /\ dp.addr # PhonyAddr
        BY <1>3, <3>3 DEF Stage
      <4>2. Length \in Nat
        BY <4>1, ConstantsAssumption DEF Length, Content
      <4>3. dp.addr - Length \in Nat /\ Length + dp.len \in Nat
        BY <2>2, <4>1, <4>2 DEF Place, Start, PhonyAddr
      <4>4. OpClaim = [addr |-> dp.addr - Length, len |-> Length + dp.len]
        BY <3>3 DEF OpClaim
      <4> QED
        BY <4>3, <4>4 DEF Place
    <3>4. CASE pc \notin {"zap", "allocate", "front", "back", "surplus"}
      <4>1. OpClaim = dp
        BY <3>4 DEF OpClaim
      <4> QED
        BY <2>2, <4>1
    <3> QED
      BY <3>1, <3>2, <3>3, <3>4
  <2> HIDE DEF OpClaim
  <2> QED
    BY <1>1, <1>3, <2>2, <2>3 DEF Claims
<1> QED
  BY <1>2, <1>3

(* Whatever is written next is storage of the file.                        *)
LEMMA WritesInside ==
    ASSUME IInv, pc \in Writes
    PROVE  /\ dp.addr \in Nat /\ Start <= dp.addr
           /\ dp.len \in Nat \ {0} /\ dp.addr + dp.len <= MaxEnd + 1
           /\ op.name \in Names
           /\ pc = "write" => op.content \in Content /\ dp.len = Length
<1> USE DEF Writes
<1>1. Busy /\ ~dbi_read_only /\ op \in Request
  BY DEF IInv, Stage, Busy
<1>2. op.name \in Names /\ dp \in Place
  BY <1>1 DEF IInv, TypeOK, Place, dp, Request
<1>3. Layout(dbi_freep, Claims, Limit) /\ Stage /\ Claims[op.name] = OpClaim
  BY <1>1, <1>2 DEF IInv, Claims, TypeOK
<1>4. Limit \in Nat /\ Limit <= MaxEnd + 1 /\ MaxEnd \in Nat
  BY <1>3, ConstantsAssumption DEF Layout, Start
<1>5. OpClaim.addr # PhonyAddr =>
        0 < OpClaim.len /\ Start <= OpClaim.addr /\ OpClaim.addr + OpClaim.len <= Limit
  BY <1>2, <1>3 DEF Layout
<1>6. pc # "delete" => op.content \in Content /\ Length \in Nat \ {0}
  BY <1>1, ConstantsAssumption DEF IInv, Stage, Length, Content
<1>7. CASE pc = "zap"
  BY <1>2, <1>7 DEF IInv, Stage, Place, PhonyAddr
<1>8. CASE pc \in {"front", "back"}
  <2>1. OpClaim.addr = op.addr /\ OpClaim.len = op.len
    BY <1>8 DEF OpClaim
  <2>2. op.addr \in Nat \cup {PhonyAddr} /\ op.len \in Nat
    BY <1>1 DEF Request
  <2>3. /\ op.addr # PhonyAddr /\ Length < op.len
        /\ \/ dp.addr = op.addr /\ dp.len = Length
           \/ dp.addr = op.addr + Length /\ dp.len = op.len - Length
    BY <1>3, <1>8 DEF Stage
  <2> QED
    BY <1>2, <1>4, <1>5, <1>6, <1>8, <2>1, <2>2, <2>3 DEF PhonyAddr, Start
<1>9. CASE pc = "surplus"
  <2>1. OpClaim.addr = dp.addr - Length /\ OpClaim.len = Length + dp.len
    BY <1>9 DEF OpClaim
  <2>2. dp.addr # PhonyAddr /\ 0 < dp.len /\ Start + Length <= dp.addr
    BY <1>3, <1>9 DEF Stage
  <2> QED
    BY <1>2, <1>4, <1>5, <1>6, <1>9, <2>1, <2>2 DEF Place, PhonyAddr, Start
<1>10. CASE pc \in {"erase", "write", "delete"}
  <2>1. OpClaim = dp /\ dp.addr # PhonyAddr
    BY <1>3, <1>10 DEF OpClaim, Stage
  <2>2. pc = "write" => dp.len = Length
    BY <1>3 DEF Stage
  <2> QED
    BY <1>2, <1>4, <1>5, <1>6, <1>10, <2>1, <2>2 DEF Place, PhonyAddr, Start
<1> QED
  BY <1>7, <1>8, <1>9, <1>10


(* Each write is of consecutive units inside the storage.                  *)
LEMMA DataType ==
    ASSUME IInv, pc \in Writes
    PROVE  \E lo, hi \in Start .. MaxEnd :
             /\ lo <= hi /\ DOMAIN Data = lo .. hi
             /\ \A a \in lo .. hi : Data[a] \in Cell
<1>1. /\ dp.addr \in Nat /\ Start <= dp.addr
      /\ dp.len \in Nat \ {0} /\ dp.addr + dp.len <= MaxEnd + 1
      /\ op.name \in Names
      /\ pc = "write" => op.content \in Content /\ dp.len = Length
  BY WritesInside
<1>2. MaxEnd \in Nat /\ Large \in Nat /\ 2 <= Large /\ None \notin Names
  BY ConstantsAssumption
<1>3. file \in [Start .. MaxEnd -> Cell]
  BY DEF IInv, TypeOK
<1>4. ASSUME NEW b \in BOOLEAN, NEW l \in Nat \ {0}
      PROVE  /\ [head |-> [name |-> None, len |-> l], own |-> None, tail |-> b] \in Cell
             /\ [head |-> None, own |-> None, tail |-> b] \in Cell
  BY DEF Cell, Head
<1>5. CASE pc = "write"
  <2>1. op.content \in Content /\ op.content.len = dp.len
    BY <1>1, <1>5 DEF Length
  <2>2. Data = Object(op.content, dp.addr)
    BY <1>5 DEF Data
  <2>3. DOMAIN Data = dp.addr .. dp.addr + dp.len - 1
    BY <2>1, <2>2 DEF Object
  <2>4. ASSUME NEW a \in dp.addr .. dp.addr + dp.len - 1
        PROVE  Data[a] \in Cell
    <3> DEFINE h == IF a = dp.addr THEN [name |-> op.content.name, len |-> op.content.len]
                                   ELSE None
    <3>1. Data[a] = [head |-> h, own |-> op.content, tail |-> a = dp.addr + dp.len - 1]
      BY <2>1, <2>2 DEF Object
    <3>2. h \in Head \cup {None}
      BY <1>1, <2>1, ConstantsAssumption DEF Head, Content
    <3>3. (a = dp.addr + dp.len - 1) \in BOOLEAN
      OBVIOUS
    <3> HIDE DEF h
    <3> QED
      BY <2>1, <3>1, <3>2, <3>3 DEF Cell
  <2>5. dp.addr \in Start .. MaxEnd /\ dp.addr + dp.len - 1 \in Start .. MaxEnd
    BY <1>1, <1>2 DEF Start
  <2> QED
    BY <1>1, <2>3, <2>4, <2>5
<1>6. CASE pc # "write" /\ dp.len <= Large
  <2>1. Data = FreeObject(dp.addr, dp.len)
    BY <1>6 DEF Data
  <2>2. DOMAIN Data = dp.addr .. dp.addr + dp.len - 1
    BY <2>1 DEF FreeObject
  <2>3. ASSUME NEW a \in dp.addr .. dp.addr + dp.len - 1
        PROVE  Data[a] \in Cell
    <3>1. Data[a] = [head |-> IF a = dp.addr THEN [name |-> None, len |-> dp.len] ELSE None,
                     own |-> None, tail |-> a = dp.addr + dp.len - 1]
      BY <2>1 DEF FreeObject
    <3>2. CASE a = dp.addr
      BY <1>1, <1>4, <3>1, <3>2
    <3>3. CASE a # dp.addr
      BY <1>1, <1>4, <3>1, <3>3
    <3> QED
      BY <3>2, <3>3
  <2>4. dp.addr \in Start .. MaxEnd /\ dp.addr + dp.len - 1 \in Start .. MaxEnd
    BY <1>1, <1>2 DEF Start
  <2> QED
    BY <1>1, <2>2, <2>3, <2>4
<1>7. CASE pc # "write" /\ ~(dp.len <= Large) /\ ~half
  <2>1. Data = FreeHeader(dp.addr, dp.len)
    BY <1>7 DEF Data
  <2>2. DOMAIN Data = dp.addr .. dp.addr + 1
    BY <2>1 DEF FreeHeader
  <2>3. ASSUME NEW a \in dp.addr .. dp.addr + 1
        PROVE  Data[a] \in Cell
    <3>1. Data[a] = [head |-> IF a = dp.addr THEN [name |-> None, len |-> dp.len] ELSE None,
                     own |-> None, tail |-> FALSE]
      BY <2>1 DEF FreeHeader
    <3>2. CASE a = dp.addr
      BY <1>1, <1>4, <3>1, <3>2
    <3>3. CASE a # dp.addr
      BY <1>1, <1>4, <3>1, <3>3
    <3> QED
      BY <3>2, <3>3
  <2>4. dp.addr \in Start .. MaxEnd /\ dp.addr + 1 \in Start .. MaxEnd
    BY <1>1, <1>2, <1>7 DEF Start
  <2> QED
    BY <1>1, <2>2, <2>3, <2>4
<1>8. CASE pc # "write" /\ ~(dp.len <= Large) /\ half
  <2> DEFINE x == dp.addr + dp.len - 1
  <2>1. Data = [a \in {x} |-> [file[a] EXCEPT !.tail = TRUE]]
    BY <1>8 DEF Data, FreeTrailer
  <2>2. x \in Start .. MaxEnd
    BY <1>1, <1>2 DEF Start
  <2>3. x .. x = {x}
    BY <2>2 DEF Start
  <2>4. Data[x] = [file[x] EXCEPT !.tail = TRUE] /\ DOMAIN Data = {x}
    BY <2>1
  <2>5. [file[x] EXCEPT !.tail = TRUE] \in Cell
    BY <1>3, <2>2 DEF Cell
  <2> HIDE DEF x
  <2>6. DOMAIN Data = x .. x /\ \A a \in x .. x : Data[a] \in Cell
    BY <2>3, <2>4, <2>5
  <2>7. x <= x
    BY <2>2 DEF Start
  <2> QED
    BY <2>2, <2>6, <2>7
<1> QED
  BY <1>5, <1>6, <1>7, <1>8

LEMMA WrittenType ==
    ASSUME IInv, pc \in Writes, NEW k \in 0 .. Whole, Written(k)
    PROVE  DiskOK'
<1>1. PICK lo \in Start .. MaxEnd, hi \in Start .. MaxEnd :
        /\ lo <= hi /\ DOMAIN Data = lo .. hi
        /\ \A a \in lo .. hi : Data[a] \in Cell
  BY DataType
<1>2. MaxEnd \in Nat /\ lo \in Nat /\ hi \in Nat
  BY ConstantsAssumption DEF Start
<1>3. From = lo
  <2>1. lo \in DOMAIN Data /\ \A b \in DOMAIN Data : lo <= b
    BY <1>1, <1>2
  <2>2. From \in DOMAIN Data /\ \A b \in DOMAIN Data : From <= b
    BY <2>1, Zenon DEF From
  <2>3. From \in lo .. hi /\ From <= lo
    BY <1>1, <2>1, <2>2, Zenon
  <2> QED
    BY <1>2, <2>3
<1>4. Whole = hi - lo + 1
  BY <1>1, <1>2, FS_Interval DEF Whole
<1>5. /\ k \in Nat /\ lo + k <= MaxEnd + 1
      /\ k > 0 => lo + k \in Start .. MaxEnd + 1
  BY <1>1, <1>2, <1>4 DEF Start
<1>6. file_end' \in Start .. MaxEnd + 1
  BY <1>3, <1>5 DEF Written, IInv, TypeOK
<1>7. file' \in [Start .. MaxEnd -> Cell]
  <2>1. file \in [Start .. MaxEnd -> Cell]
    BY DEF IInv, TypeOK
  <2>2. file' = [a \in Start .. MaxEnd |->
                    IF a \in {b \in lo .. hi : b < lo + k} THEN Data[a] ELSE file[a]]
    BY <1>1, <1>3, <2>1 DEF Written
  <2> QED
    BY <1>1, <2>1, <2>2
<1> QED
  BY <1>6, <1>7 DEF DiskOK


-----------------------------------------------------------------------------
(* Each step keeps the invariant.                                          *)

LEMMA InitHolds == Init => IInv
<1> SUFFICES ASSUME Init PROVE IInv
  OBVIOUS
<1> USE DEF Init
<1>1. TypeOK
  <2>1. Blank \in Cell
    BY DEF Blank, Cell
  <2>2. MaxEnd \in Nat \ {0} /\ MaxCrashes \in Nat
    BY ConstantsAssumption
  <2>3. Absent \in [addr : Nat \cup {PhonyAddr}, len : Nat]
    BY DEF Absent, PhonyAddr
  <2>4. Start \in Start .. MaxEnd + 1 /\ Start \in Nat /\ 0 \in 0 .. MaxCrashes
    BY <2>2 DEF Start
  <2> QED
    BY <2>1, <2>3, <2>4 DEF TypeOK
<1>2. FreeApart /\ ~Busy /\ Stage
  BY DEF FreeApart, Apart, Busy, Stage
<1>3. Layout(dbi_freep, Claims, Limit)
  <2>1. Claims = dir /\ Limit = Start /\ dbi_freep = {}
    BY DEF Claims, Busy, Limit
  <2>2. \A n \in Names : dir[n].addr = PhonyAddr
    BY DEF Absent
  <2>3. Start \in Start .. MaxEnd + 1
    BY ConstantsAssumption DEF Start
  <2> QED
    BY <2>1, <2>2, <2>3 DEF Layout
<1> QED
  BY <1>1, <1>2, <1>3 DEF IInv

LEMMA PutKeeps ==
    ASSUME IInv, NEW n \in Names, NEW c \in Content, Put(n, c)
    PROVE  IInv'
<1>1. /\ pc = "idle" /\ ~dbi_read_only /\ ~Busy
      /\ op' = [name |-> n, content |-> c, addr |-> dir[n].addr, len |-> dir[n].len]
      /\ UNCHANGED <<file, file_end, dbi_eof, dbi_read_only, half, pos>>
      /\ UNCHANGED <<store, lost, crashes, torn>>
  BY DEF Put, Busy, disk, history
<1>2. /\ Layout(dbi_freep, dir, dbi_eof)
      /\ dir \in [Names -> Place] /\ dbi_freep \subseteq Extent /\ Apart(dbi_freep)
      /\ dir[n].addr \in Nat \cup {PhonyAddr} /\ dir[n].len \in Nat
      /\ c.len \in Nat \ {0} /\ dbi_eof <= MaxEnd + 1 /\ dbi_eof \in Nat
  BY <1>1, ConstantsAssumption
     DEF IInv, Claims, Limit, Layout, TypeOK, Place, FreeApart, Content, Start
<1>3. /\ op' \in Request /\ op'.name = n /\ op'.content = c
      /\ op'.addr = dir[n].addr /\ op'.len = dir[n].len /\ Length' = c.len
  BY <1>1, <1>2 DEF Request, Length
<1>4. dir[n].addr # PhonyAddr =>
        /\ 0 < dir[n].len /\ Start <= dir[n].addr /\ dir[n].addr + dir[n].len <= dbi_eof
  BY <1>2 DEF Layout
<1>5. ASSUME pc' \in {"write", "front", "zap", "allocate"},
             dir' \in [Names -> Place], dbi_freep' \subseteq Extent
      PROVE  TypeOK'
  BY <1>1, <1>3, <1>5 DEF IInv, TypeOK, Place, Request, Writes
<1>6. ASSUME pc' \in {"write", "front", "zap", "allocate"}, dir' \in [Names -> Place]
      PROVE  Claims' = [dir' EXCEPT ![n] = OpClaim'] /\ Limit' = dbi_eof
  BY <1>1, <1>3, <1>6 DEF Claims, Busy, Limit
<1>7. CASE c.len = dir[n].len /\ dir[n].addr # PhonyAddr /\ pc' = "write"
             /\ UNCHANGED <<dir, dbi_freep>>
  <2>1. dp' = dir[n] /\ OpClaim' = dir[n]
    BY <1>3, <1>7 DEF dp, OpClaim
  <2>2. Claims' = dir /\ Limit' = dbi_eof
    BY <1>2, <1>6, <1>7, <2>1
  <2>3. Stage'
    BY <1>3, <1>7, <2>1 DEF Stage, Busy
  <2> QED
    BY <1>1, <1>2, <1>5, <1>7, <2>2, <2>3 DEF IInv, FreeApart
<1>8. CASE c.len < dir[n].len /\ dir[n].addr # PhonyAddr /\ pc' = "front"
             /\ dir' = [dir EXCEPT ![n].len = c.len] /\ UNCHANGED dbi_freep
  <2>1. dir' \in [Names -> Place]
    BY <1>2, <1>8 DEF Place
  <2>2. dp'.addr = dir[n].addr /\ dp'.len = c.len
    BY <1>2, <1>3, <1>8 DEF dp, Place
  <2>3. OpClaim' = [addr |-> dir[n].addr, len |-> dir[n].len]
    BY <1>3, <1>8 DEF OpClaim
  <2>4. OpClaim' = dir[n]
    BY <1>2, <2>3 DEF Place
  <2>5. Claims' = dir /\ Limit' = dbi_eof
    <3>1. Claims' = [dir' EXCEPT ![n] = dir[n]] /\ Limit' = dbi_eof
      BY <1>6, <1>8, <2>1, <2>4
    <3> QED
      BY <1>2, <1>8, <3>1
  <2>6. Stage'
    BY <1>2, <1>3, <1>8, <2>2 DEF Stage, Busy
  <2> QED
    BY <1>1, <1>2, <1>5, <1>8, <2>1, <2>5, <2>6 DEF IInv, FreeApart
<1>9. CASE c.len > dir[n].len /\ dir[n].addr # PhonyAddr /\ pc' = "zap"
             /\ dbi_freep' = rt_memfree(dbi_freep, dir[n].len, dir[n].addr)
             /\ UNCHANGED dir
  <2>1. dbi_freep' \subseteq Extent /\ Apart(dbi_freep')
    BY <1>2, <1>9, FreeKeepsApart
  <2>2. dp' = dir[n] /\ OpClaim' = Absent
    BY <1>3, <1>9 DEF dp, OpClaim
  <2>3. Absent \in Place
    BY DEF Absent, Place, PhonyAddr
  <2>4. Layout(rt_memfree(dbi_freep, dir[n].len - 0, dir[n].addr + 0),
               [dir EXCEPT ![n] = Absent], dbi_eof)
    BY <1>2, <1>4, <1>9, <2>3, LayoutFreed
  <2>5. dir[n].len - 0 = dir[n].len /\ dir[n].addr + 0 = dir[n].addr
    BY <1>2, <1>9
  <2>6. Layout(dbi_freep', Claims', Limit')
    BY <1>2, <1>6, <1>9, <2>2, <2>4, <2>5
  <2>7. dir[n].addr + dir[n].len <= MaxEnd + 1
    BY <1>2, <1>4, <1>9, ConstantsAssumption DEF PhonyAddr
  <2>8. Stage'
    BY <1>3, <1>4, <1>9, <2>2, <2>7 DEF Stage, Busy
  <2> QED
    BY <1>1, <1>2, <1>5, <1>9, <2>1, <2>6, <2>8 DEF IInv, FreeApart
<1>10. CASE dir[n].addr = PhonyAddr /\ pc' = "allocate" /\ UNCHANGED <<dir, dbi_freep>>
  <2>1. Claims' = [dir EXCEPT ![n] = Absent] /\ Limit' = dbi_eof
    BY <1>2, <1>6, <1>10 DEF OpClaim
  <2>2. Layout(dbi_freep, [dir EXCEPT ![n] = Absent], dbi_eof)
    <3> DEFINE new == [dir EXCEPT ![n] = Absent]
    <3>1. /\ new[n].addr = PhonyAddr /\ \A m \in Names : m # n => new[m] = dir[m]
          /\ dir[n].addr = PhonyAddr
      BY <1>2, <1>10 DEF Absent
    <3> HIDE DEF new
    <3>2. \A m \in Names : new[m].addr # PhonyAddr => m # n /\ new[m] = dir[m]
      BY <3>1
    <3>3. Layout(dbi_freep, new, dbi_eof)
      BY <1>2, <3>2 DEF Layout
    <3> QED
      BY <3>3 DEF new
  <2>3. Stage'
    BY <1>3, <1>10 DEF Stage, Busy
  <2> QED
    BY <1>1, <1>2, <1>5, <1>10, <2>1, <2>2, <2>3 DEF IInv, FreeApart
<1> QED
  BY <1>7, <1>8, <1>9, <1>10 DEF Put


LEMMA DeleteKeeps ==
    ASSUME IInv, NEW n \in Names, Delete(n)
    PROVE  IInv'
<1>1. /\ pc = "idle" /\ pc' = "delete" /\ ~dbi_read_only /\ ~Busy /\ dir[n].addr # PhonyAddr
      /\ op' = [name |-> n, content |-> None, addr |-> dir[n].addr, len |-> dir[n].len]
      /\ UNCHANGED <<file, file_end, dir, dbi_freep, dbi_eof, dbi_read_only, half, pos>>
      /\ UNCHANGED <<store, lost, crashes, torn>>
  BY DEF Delete, Busy, disk, memory, history
<1>2. dir \in [Names -> Place] /\ Layout(dbi_freep, dir, dbi_eof)
  BY <1>1 DEF IInv, Claims, Limit, TypeOK, Place
<1>3. op' \in Request /\ op'.name = n
  BY <1>1, <1>2 DEF Request, Place
<1>4. dp' = dir[n] /\ OpClaim' = dir[n]
  BY <1>1, <1>3 DEF dp, OpClaim
<1>5. Claims' = dir /\ Limit' = dbi_eof
  BY <1>1, <1>2, <1>3, <1>4 DEF Claims, Busy, Limit
<1>6. TypeOK'
  BY <1>1, <1>3 DEF IInv, TypeOK, Request, Writes
<1>7. Stage'
  BY <1>1, <1>3, <1>4 DEF Stage
<1> QED
  BY <1>1, <1>2, <1>5, <1>6, <1>7 DEF IInv, FreeApart

LEMMA AllocateKeeps ==
    ASSUME IInv, Allocate
    PROVE  IInv'
<1> DEFINE n == op.name
           L == Length
<1>1. /\ pc = "allocate" /\ ~dbi_read_only /\ Busy
      /\ UNCHANGED <<file, file_end, dbi_read_only, half, op, pos>>
      /\ UNCHANGED <<store, lost, crashes, torn>>
  BY DEF Allocate, IInv, Busy, disk, history
<1>2. /\ op \in Request /\ n \in Names /\ op.content \in Content
      /\ L \in Nat \ {0}
  BY <1>1, ConstantsAssumption DEF IInv, Stage, Busy, Request, Content, Length
<1>3. /\ dir \in [Names -> Place] /\ dbi_freep \subseteq Extent /\ Apart(dbi_freep)
      /\ Claims = [dir EXCEPT ![n] = Absent] /\ Claims \in [Names -> Place]
      /\ Limit = dbi_eof /\ Layout(dbi_freep, Claims, dbi_eof)
      /\ Claims[n].addr = PhonyAddr
  BY <1>1, <1>2, ClaimsType
     DEF IInv, TypeOK, Place, FreeApart, Claims, OpClaim, Limit, Absent
<1>4. dbi_eof \in Start .. MaxEnd + 1 /\ dbi_eof \in Nat /\ MaxEnd \in Nat
  BY <1>3, ConstantsAssumption DEF Layout, Start
<1>5. ASSUME pc' \in {"write", "surplus"}, dir' \in [Names -> Place],
             dbi_freep' \subseteq Extent, dbi_eof' \in Nat
      PROVE  TypeOK'
  BY <1>1, <1>5 DEF IInv, TypeOK, Place, Writes
<1>6. ASSUME pc' \in {"write", "surplus"}, NEW p \in Place, p.addr # PhonyAddr, 0 < p.len,
             Start <= p.addr, dbi_eof' \in Start .. MaxEnd + 1, dbi_eof <= dbi_eof',
             p.addr + p.len <= dbi_eof', dbi_freep' \subseteq dbi_freep,
             \A e \in dbi_freep' : Clear(e, p.addr, p.len),
             \A m \in Names : Claims[m].addr # PhonyAddr => Disjoint(Claims[m], p),
             \E q \in Place : dir' = [dir EXCEPT ![n] = q],
             OpClaim' = p
      PROVE  Layout(dbi_freep', Claims', Limit')
  <2>1. Layout(dbi_freep', [Claims EXCEPT ![n] = p], dbi_eof')
    BY <1>2, <1>3, <1>6, LayoutClaimed
  <2>2. Claims' = [dir' EXCEPT ![n] = p] /\ Limit' = dbi_eof'
    BY <1>1, <1>6 DEF Claims, Busy, Limit
  <2>3. [dir' EXCEPT ![n] = p] = [Claims EXCEPT ![n] = p]
    BY <1>3, <1>6
  <2> QED
    BY <2>1, <2>2, <2>3
<1>7. ASSUME NEW e \in BestFit(dbi_freep, Length),
             dbi_freep' = dbi_freep \ {e}, UNCHANGED dbi_eof
      PROVE  /\ e \in Extent /\ L <= e.size /\ Start <= e.addr /\ After(e) <= dbi_eof
             /\ dbi_freep' \subseteq Extent /\ FreeApart'
             /\ \A f \in dbi_freep' : Clear(f, e.addr, e.size)
             /\ \A m \in Names : Claims[m].addr # PhonyAddr => Clear(e, Claims[m].addr, Claims[m].len)
  <2>1. e \in dbi_freep /\ L <= e.size
    BY <1>7 DEF BestFit
  <2>2. Apart(dbi_freep')
    BY <1>3, <1>7 DEF Apart
  <2>3. \A f \in dbi_freep' : Clear(f, e.addr, e.size)
    BY <1>3, <1>7, <2>1 DEF Apart, Clear, After, Extent
  <2> QED
    BY <1>3, <1>7, <2>1, <2>2, <2>3 DEF Layout, FreeApart
<1>8. ASSUME NEW e \in BestFit(dbi_freep, Length),
             dbi_freep' = dbi_freep \ {e}, UNCHANGED dbi_eof,
             e.size = Length, pc' = "write",
             dir' = [dir EXCEPT ![n] = [addr |-> e.addr, len |-> Length]]
      PROVE  IInv'
  <2> DEFINE p == [addr |-> e.addr, len |-> L]
  <2>1. /\ e \in Extent /\ L <= e.size /\ Start <= e.addr /\ After(e) <= dbi_eof
        /\ dbi_freep' \subseteq Extent /\ FreeApart'
        /\ \A f \in dbi_freep' : Clear(f, e.addr, e.size)
        /\ \A m \in Names : Claims[m].addr # PhonyAddr => Clear(e, Claims[m].addr, Claims[m].len)
    BY <1>7, <1>8
  <2>2. p \in Place /\ p.addr # PhonyAddr /\ p.addr = e.addr /\ p.len = L
    BY <1>2, <2>1 DEF Place, Extent, PhonyAddr
  <2>3. dir' \in [Names -> Place] /\ dp' = p /\ OpClaim' = p
    BY <1>1, <1>2, <1>3, <1>8, <2>2 DEF dp, OpClaim
  <2>4. \A m \in Names : Claims[m].addr # PhonyAddr => Disjoint(Claims[m], p)
    BY <1>8, <2>1, <2>2 DEF Clear, Disjoint, After
  <2>5. p.addr + p.len <= dbi_eof
    BY <1>8, <2>1, <2>2 DEF After
  <2>6. Layout(dbi_freep', Claims', Limit')
    <3>1. /\ 0 < p.len /\ Start <= p.addr /\ dbi_freep' \subseteq dbi_freep
          /\ dbi_eof' \in Start .. MaxEnd + 1 /\ dbi_eof <= dbi_eof'
          /\ p.addr + p.len <= dbi_eof'
      BY <1>2, <1>4, <1>8, <2>1, <2>2, <2>5
    <3>2. \E r \in Place : dir' = [dir EXCEPT ![n] = r]
      BY <1>8, <2>2
    <3>3. \A f \in dbi_freep' : Clear(f, p.addr, p.len)
      BY <1>8, <2>1, <2>2
    <3> HIDE DEF p
    <3> QED
      BY <1>6, <1>8, <2>2, <2>3, <2>4, <3>1, <3>2, <3>3
  <2>7. Stage'
    BY <1>1, <1>2, <1>8, <2>2, <2>3 DEF Stage, Busy, Length
  <2> QED
    BY <1>1, <1>4, <1>5, <1>8, <2>1, <2>3, <2>6, <2>7 DEF IInv
<1>9. ASSUME NEW e \in BestFit(dbi_freep, Length),
              dbi_freep' = dbi_freep \ {e}, UNCHANGED dbi_eof,
              e.size # Length, pc' = "surplus",
              dir' = [dir EXCEPT ![n] = [addr |-> e.addr + Length, len |-> e.size - Length]]
       PROVE  IInv'
  <2> DEFINE q == [addr |-> e.addr + L, len |-> e.size - L]
             p == [addr |-> e.addr, len |-> e.size]
  <2>1. /\ e \in Extent /\ L <= e.size /\ Start <= e.addr /\ After(e) <= dbi_eof
        /\ dbi_freep' \subseteq Extent /\ FreeApart'
        /\ \A f \in dbi_freep' : Clear(f, e.addr, e.size)
        /\ \A m \in Names : Claims[m].addr # PhonyAddr => Clear(e, Claims[m].addr, Claims[m].len)
    BY <1>7, <1>9
  <2>2. /\ p \in Place /\ p.addr # PhonyAddr /\ p.addr = e.addr /\ p.len = e.size /\ 0 < p.len
        /\ q \in Place /\ q.addr # PhonyAddr /\ q.addr = e.addr + L /\ q.len = e.size - L
        /\ 0 < q.len
    BY <1>2, <1>9, <2>1 DEF Place, Extent, PhonyAddr
  <2>3. dir' \in [Names -> Place] /\ dp' = q
    BY <1>1, <1>2, <1>3, <1>9, <2>2 DEF dp
  <2>4. OpClaim' = p
    <3>1. Length' = L
      BY <1>1 DEF Length
    <3>2. OpClaim' = [addr |-> q.addr - L, len |-> L + q.len]
      BY <1>9, <2>3, <3>1 DEF OpClaim
    <3>3. q.addr - L = e.addr /\ L + q.len = e.size
      BY <1>2, <2>1, <2>2 DEF Extent
    <3> QED
      BY <3>2, <3>3
  <2>5. \A m \in Names : Claims[m].addr # PhonyAddr => Disjoint(Claims[m], p)
    BY <2>1, <2>2 DEF Clear, Disjoint, After
  <2>6. p.addr + p.len <= dbi_eof
    BY <2>1, <2>2 DEF After
  <2>7. Layout(dbi_freep', Claims', Limit')
    <3>1. /\ 0 < p.len /\ Start <= p.addr /\ dbi_freep' \subseteq dbi_freep
          /\ dbi_eof' \in Start .. MaxEnd + 1 /\ dbi_eof <= dbi_eof'
          /\ p.addr + p.len <= dbi_eof'
      BY <1>4, <1>9, <2>1, <2>2, <2>6
    <3>2. \E r \in Place : dir' = [dir EXCEPT ![n] = r]
      BY <1>9, <2>2
    <3>3. \A f \in dbi_freep' : Clear(f, p.addr, p.len)
      BY <2>1, <2>2
    <3> HIDE DEF p, q
    <3> QED
      BY <1>6, <1>9, <2>2, <2>4, <2>5, <3>1, <3>2, <3>3
  <2>8. Stage'
    <3>1. Start + L <= q.addr
      BY <1>2, <2>1, <2>2 DEF Extent, Start
    <3> QED
      BY <1>1, <1>2, <1>9, <2>2, <2>3, <3>1 DEF Stage, Busy, Length
  <2> QED
    BY <1>1, <1>4, <1>5, <1>9, <2>1, <2>3, <2>7, <2>8 DEF IInv
<1>10. ASSUME dbi_eof + Length <= MaxEnd + 1, pc' = "write", UNCHANGED dbi_freep,
              dir' = [dir EXCEPT ![n] = [addr |-> dbi_eof, len |-> Length]],
              dbi_eof' = dbi_eof + Length
       PROVE  IInv'
  <2> DEFINE p == [addr |-> dbi_eof, len |-> L]
  <2>1. /\ p \in Place /\ p.addr # PhonyAddr /\ p.addr = dbi_eof /\ p.len = L
        /\ Start <= p.addr /\ 0 < p.len
    BY <1>2, <1>4 DEF Place, PhonyAddr, Start
  <2>2. dir' \in [Names -> Place] /\ dp' = p /\ OpClaim' = p
    BY <1>1, <1>2, <1>3, <1>10, <2>1 DEF dp, OpClaim
  <2>3. dbi_eof' \in Start .. MaxEnd + 1 /\ dbi_eof <= dbi_eof' /\ dbi_eof' \in Nat
    BY <1>2, <1>4, <1>10 DEF Start
  <2>4. \A e \in dbi_freep : Clear(e, p.addr, p.len)
    BY <1>3, <2>1 DEF Layout, Clear
  <2>5. \A m \in Names : Claims[m].addr # PhonyAddr => Disjoint(Claims[m], p)
    BY <1>3, <2>1 DEF Layout, Disjoint
  <2>6. p.addr + p.len <= dbi_eof'
    BY <1>2, <1>4, <1>10, <2>1
  <2>7. Layout(dbi_freep', Claims', Limit')
    BY <1>2, <1>6, <1>10, <2>1, <2>2, <2>3, <2>4, <2>5, <2>6
  <2>8. Stage'
    BY <1>1, <1>2, <1>10, <2>1, <2>2 DEF Stage, Busy, Length
  <2> QED
    BY <1>1, <1>3, <1>5, <1>10, <2>2, <2>3, <2>7, <2>8 DEF IInv, FreeApart
<1> QED
  BY <1>8, <1>9, <1>10 DEF Allocate


(* While an operation is under way.                                        *)
LEMMA BusyFacts ==
    ASSUME IInv, pc \in Writes
    PROVE  /\ Busy /\ ~dbi_read_only /\ op \in Request /\ op.name \in Names
           /\ dir \in [Names -> Place] /\ dp \in Place /\ dp.addr # PhonyAddr
           /\ dbi_freep \subseteq Extent /\ Apart(dbi_freep)
           /\ Claims = [dir EXCEPT ![op.name] = OpClaim] /\ Claims \in [Names -> Place]
           /\ Claims[op.name] = OpClaim /\ OpClaim \in Place
           /\ Limit = dbi_eof /\ Layout(dbi_freep, Claims, dbi_eof)
           /\ pc # "delete" => op.content \in Content /\ Length \in Nat \ {0}
<1>1. Busy /\ ~dbi_read_only /\ op \in Request /\ pc # "scan"
  BY DEF IInv, Stage, Busy, Writes
<1>2. op.name \in Names /\ dir \in [Names -> Place]
  BY <1>1 DEF IInv, TypeOK, Place, Request
<1>3. dp \in Place /\ dp.addr # PhonyAddr
  BY <1>2, WritesInside DEF dp, PhonyAddr
<1>4. /\ Claims = [dir EXCEPT ![op.name] = OpClaim] /\ Claims \in [Names -> Place]
      /\ Limit = dbi_eof
  BY <1>1, ClaimsType DEF IInv, Claims, Limit
<1>5. Claims[op.name] = OpClaim /\ OpClaim \in Place
  BY <1>2, <1>4
<1>6. pc # "delete" => op.content \in Content /\ Length \in Nat \ {0}
  BY <1>1, ConstantsAssumption DEF IInv, Stage, Length, Content
<1> QED
  BY <1>1, <1>2, <1>3, <1>4, <1>5, <1>6 DEF IInv, FreeApart, TypeOK

LEMMA WriteHeaderKeeps ==
    ASSUME IInv, WriteHeader
    PROVE  IInv'
<1>1. pc \in Writes /\ Whole \in 0 .. Whole /\ Written(Whole)
  <2>1. pc \in Writes /\ Written(Whole)
    BY DEF WriteHeader
  <2>2. PICK lo \in Start .. MaxEnd, hi \in Start .. MaxEnd :
          lo <= hi /\ DOMAIN Data = lo .. hi
    BY <2>1, DataType
  <2>3. Whole \in Nat
    BY <2>2, FS_Interval, ConstantsAssumption DEF Whole, Start
  <2> QED
    BY <2>1, <2>3
<1>2. DiskOK'
  BY <1>1, WrittenType
<1>3. /\ UNCHANGED <<dir, dbi_freep, dbi_eof, dbi_read_only, pc, op, pos>>
      /\ UNCHANGED <<store, lost, crashes, torn>> /\ half' = TRUE
  BY DEF WriteHeader, memory, history
<1>4. TypeOK'
  BY <1>2, <1>3 DEF IInv, TypeOK, DiskOK
<1>5. dp' = dp /\ Length' = Length /\ Busy' = Busy
  BY <1>3 DEF dp, Length, Busy
<1>6. OpClaim' = OpClaim
  BY <1>3, <1>5 DEF OpClaim
<1>7. Claims' = Claims /\ Limit' = Limit
  BY <1>3, <1>5, <1>6 DEF Claims, Limit
<1>8. Stage'
  BY <1>3, <1>5 DEF IInv, Stage
<1> QED
  BY <1>3, <1>4, <1>5, <1>7, <1>8 DEF IInv, FreeApart

LEMMA LastWriteFacts ==
    ASSUME IInv, NEW step \in Writes, LastWrite(step)
    PROVE  /\ pc = step /\ DiskOK' /\ half' = FALSE
           /\ UNCHANGED <<dbi_eof, dbi_read_only, pos>>
           /\ step \notin {"write", "delete"} => op' = op
           /\ step \in {"write", "delete"} => op' = None
<1>1. pc = step /\ Written(Whole)
  BY DEF LastWrite
<1>2. PICK lo \in Start .. MaxEnd, hi \in Start .. MaxEnd :
        lo <= hi /\ DOMAIN Data = lo .. hi
  BY <1>1, DataType
<1>3. Whole \in 0 .. Whole
  BY <1>2, FS_Interval, ConstantsAssumption DEF Whole, Start
<1>4. DiskOK'
  BY <1>1, <1>3, WrittenType
<1> QED
  BY <1>1, <1>4 DEF LastWrite

(* The types after a step of db5_realloc.                                  *)
LEMMA StepType ==
    ASSUME IInv, NEW step \in Writes, LastWrite(step),
           pc' \in Writes \cup {"idle", "allocate"},
           dir' \in [Names -> Place], dbi_freep' \subseteq Extent,
           store' \in [Names -> Content \cup {None}], lost' \subseteq Names,
           UNCHANGED <<crashes, torn>>
    PROVE  TypeOK'
<1>1. /\ DiskOK' /\ half' = FALSE /\ UNCHANGED <<dbi_eof, dbi_read_only, pos>>
      /\ op' = op \/ op' = None
  BY LastWriteFacts
<1> QED
  BY <1>1 DEF IInv, TypeOK, DiskOK, Place

LEMMA ZappedKeeps ==
    ASSUME IInv, Zapped
    PROVE  IInv'
<1> USE DEF Writes
<1>1. /\ LastWrite("zap") /\ pc' = "allocate"
      /\ dir' = [dir EXCEPT ![op.name].addr = PhonyAddr]
      /\ UNCHANGED <<dbi_freep, store, lost, crashes, torn>>
  BY DEF Zapped, history
<1>2. /\ pc = "zap" /\ UNCHANGED <<dbi_eof, dbi_read_only, pos, op>>
  BY <1>1, LastWriteFacts
<1>3. /\ Busy /\ ~dbi_read_only /\ op \in Request /\ op.name \in Names
      /\ dir \in [Names -> Place]
      /\ Claims = [dir EXCEPT ![op.name] = OpClaim]
      /\ Limit = dbi_eof /\ Layout(dbi_freep, Claims, dbi_eof)
      /\ op.content \in Content
  BY <1>2, BusyFacts
<1>4. dir' \in [Names -> Place]
  BY <1>1, <1>3 DEF Place
<1>5. TypeOK'
  BY <1>1, <1>4, StepType DEF IInv, TypeOK
<1>6. Claims' = Claims /\ Limit' = dbi_eof
  <2>1. OpClaim' = Absent /\ OpClaim = Absent
    BY <1>1, <1>2 DEF OpClaim
  <2>2. Claims' = [dir' EXCEPT ![op.name] = Absent] /\ Claims = [dir EXCEPT ![op.name] = Absent]
    BY <1>1, <1>2, <1>3, <2>1 DEF Claims, Busy
  <2>3. Claims' = Claims
    BY <1>1, <1>3, <2>2
  <2> QED
    BY <1>1, <1>2, <2>3 DEF Limit
<1>7. Stage'
  BY <1>1, <1>2, <1>3 DEF Stage, Busy
<1> QED
  BY <1>1, <1>2, <1>3, <1>5, <1>6, <1>7 DEF IInv, FreeApart

LEMMA FrontErasedKeeps ==
    ASSUME IInv, FrontErased
    PROVE  IInv'
<1> USE DEF Writes
<1>1. /\ LastWrite("front") /\ pc' = "back"
      /\ dir' = [dir EXCEPT ![op.name] = [addr |-> op.addr + Length, len |-> op.len - Length]]
      /\ UNCHANGED <<dbi_freep, store, lost, crashes, torn>>
  BY DEF FrontErased, Moved, history
<1>2. /\ pc = "front" /\ UNCHANGED <<dbi_eof, dbi_read_only, pos, op>>
  BY <1>1, LastWriteFacts
<1>3. /\ Busy /\ ~dbi_read_only /\ op \in Request /\ op.name \in Names
      /\ dir \in [Names -> Place]
      /\ Claims = [dir EXCEPT ![op.name] = OpClaim]
      /\ Limit = dbi_eof /\ Layout(dbi_freep, Claims, dbi_eof)
      /\ op.content \in Content /\ Length \in Nat \ {0}
  BY <1>2, BusyFacts
<1>4. op.addr \in Nat /\ op.addr # PhonyAddr /\ op.len \in Nat /\ Length < op.len
  BY <1>2, <1>3 DEF IInv, Stage, Request
<1>5. dir' \in [Names -> Place]
  BY <1>1, <1>3, <1>4 DEF Place
<1>6. TypeOK'
  BY <1>1, <1>5, StepType DEF IInv, TypeOK
<1>7. /\ dp' = [addr |-> op.addr + Length, len |-> op.len - Length]
      /\ dp'.addr = op.addr + Length /\ dp'.len = op.len - Length
      /\ Length' = Length
  BY <1>1, <1>2, <1>3 DEF dp, Length
<1>8. Claims' = Claims /\ Limit' = dbi_eof
  <2>1. OpClaim' = OpClaim
    BY <1>1, <1>2 DEF OpClaim
  <2>2. Claims' = [dir' EXCEPT ![op.name] = OpClaim]
    BY <1>1, <1>2, <2>1 DEF Claims, Busy
  <2> HIDE DEF OpClaim
  <2>3. Claims' = Claims
    BY <1>1, <1>3, <2>2
  <2> QED
    BY <1>1, <1>2, <2>3 DEF Limit
<1>9. Stage'
  BY <1>1, <1>2, <1>3, <1>4, <1>7 DEF Stage, Busy
<1> QED
  BY <1>1, <1>2, <1>3, <1>6, <1>8, <1>9 DEF IInv, FreeApart


LEMMA BackErasedKeeps ==
    ASSUME IInv, BackErased
    PROVE  IInv'
<1> USE DEF Writes
<1> DEFINE n == op.name
           left == [addr |-> op.addr, len |-> Length]
<1>1. /\ LastWrite("back") /\ pc' = "write"
      /\ dbi_freep' = rt_memfree(dbi_freep, dp.len, dp.addr)
      /\ dir' = [dir EXCEPT ![n] = left]
      /\ UNCHANGED <<store, lost, crashes, torn>>
  BY DEF BackErased, Moved, Freed, history
<1>2. /\ pc = "back" /\ UNCHANGED <<dbi_eof, dbi_read_only, pos, op>>
  BY <1>1, LastWriteFacts
<1>3. /\ Busy /\ ~dbi_read_only /\ op \in Request /\ n \in Names
      /\ dir \in [Names -> Place] /\ dbi_freep \subseteq Extent /\ Apart(dbi_freep)
      /\ Claims = [dir EXCEPT ![n] = OpClaim] /\ Claims \in [Names -> Place]
      /\ Limit = dbi_eof /\ Layout(dbi_freep, Claims, dbi_eof)
      /\ op.content \in Content /\ Length \in Nat \ {0} /\ Claims[n] = OpClaim
  BY <1>2, BusyFacts
<1>4. /\ op.addr \in Nat /\ op.addr # PhonyAddr /\ op.len \in Nat /\ Length < op.len
      /\ dp.addr = op.addr + Length /\ dp.len = op.len - Length
  BY <1>2, <1>3 DEF IInv, Stage, Request
<1>5. left \in Place /\ Claims[n].addr = op.addr /\ Claims[n].len = op.len
  BY <1>2, <1>3, <1>4 DEF OpClaim, Place
<1>6. dbi_freep' \subseteq Extent /\ Apart(dbi_freep')
  <2>1. dp.addr \in Nat /\ dp.len \in Nat
    BY <1>3, <1>4
  <2> QED
    BY <1>1, <1>3, <2>1, FreeKeepsApart
<1>7. dir' \in [Names -> Place] /\ dp' = left /\ Length' = Length
  BY <1>1, <1>2, <1>3, <1>5 DEF dp, Length
<1>8. TypeOK'
  BY <1>1, <1>6, <1>7, StepType DEF IInv, TypeOK
<1>9. Layout(rt_memfree(dbi_freep, Claims[n].len - Length, Claims[n].addr + Length),
             [Claims EXCEPT ![n] = left], dbi_eof)
  <2>1. left = [addr |-> Claims[n].addr, len |-> Length] /\ 0 < Length
    BY <1>3, <1>5
  <2>2. Length \in Nat /\ Length < Claims[n].len /\ Claims[n].addr # PhonyAddr
    BY <1>3, <1>4, <1>5
  <2> HIDE DEF left
  <2> QED
    BY <1>3, <1>5, <2>1, <2>2, LayoutFreed
<1>10. Claims' = [Claims EXCEPT ![n] = left] /\ Limit' = dbi_eof
  <2>1. OpClaim' = left
    BY <1>1, <1>7 DEF OpClaim
  <2>2. Claims' = [dir' EXCEPT ![n] = left]
    BY <1>1, <1>2, <2>1 DEF Claims, Busy
  <2> HIDE DEF left, OpClaim
  <2>3. Claims' = [Claims EXCEPT ![n] = left]
    BY <1>1, <1>3, <2>2
  <2> QED
    BY <1>1, <1>2, <2>3 DEF Limit
<1>11. Layout(dbi_freep', Claims', Limit')
  BY <1>1, <1>4, <1>5, <1>9, <1>10
<1>12. Stage'
  BY <1>1, <1>2, <1>3, <1>4, <1>7 DEF Stage, Busy
<1> QED
  BY <1>1, <1>2, <1>3, <1>6, <1>8, <1>11, <1>12 DEF IInv, FreeApart

LEMMA SurplusErasedKeeps ==
    ASSUME IInv, SurplusErased
    PROVE  IInv'
<1> USE DEF Writes
<1> DEFINE n == op.name
           left == [addr |-> dp.addr - Length, len |-> Length]
<1>1. /\ LastWrite("surplus") /\ pc' = "erase"
      /\ dbi_freep' = rt_memfree(dbi_freep, dp.len, dp.addr)
      /\ dir' = [dir EXCEPT ![n] = left]
      /\ UNCHANGED <<store, lost, crashes, torn>>
  BY DEF SurplusErased, Moved, Freed, history
<1>2. /\ pc = "surplus" /\ UNCHANGED <<dbi_eof, dbi_read_only, pos, op>>
  BY <1>1, LastWriteFacts
<1>3. /\ Busy /\ ~dbi_read_only /\ op \in Request /\ n \in Names
      /\ dir \in [Names -> Place] /\ dbi_freep \subseteq Extent /\ Apart(dbi_freep)
      /\ Claims = [dir EXCEPT ![n] = OpClaim] /\ Claims \in [Names -> Place]
      /\ Limit = dbi_eof /\ Layout(dbi_freep, Claims, dbi_eof)
      /\ op.content \in Content /\ Length \in Nat \ {0} /\ Claims[n] = OpClaim
      /\ dp \in Place /\ dp.addr # PhonyAddr
  BY <1>2, BusyFacts
<1>4. /\ dp.addr \in Nat /\ dp.len \in Nat /\ 0 < dp.len /\ Start + Length <= dp.addr
      /\ dp.addr - Length \in Nat /\ dp.addr - Length # PhonyAddr
  BY <1>2, <1>3 DEF IInv, Stage, Place, Start, PhonyAddr
<1>5. /\ left \in Place /\ left.addr = dp.addr - Length /\ left.len = Length
      /\ Claims[n].addr = dp.addr - Length /\ Claims[n].len = Length + dp.len
  BY <1>2, <1>3, <1>4 DEF OpClaim, Place
<1>6. dbi_freep' \subseteq Extent /\ Apart(dbi_freep')
  BY <1>1, <1>3, <1>4, FreeKeepsApart
<1>7. dir' \in [Names -> Place] /\ dp' = left /\ Length' = Length
  BY <1>1, <1>2, <1>3, <1>5 DEF dp, Length
<1>8. TypeOK'
  BY <1>1, <1>6, <1>7, StepType DEF IInv, TypeOK
<1>9. Layout(rt_memfree(dbi_freep, Claims[n].len - Length, Claims[n].addr + Length),
             [Claims EXCEPT ![n] = left], dbi_eof)
  <2>1. left = [addr |-> Claims[n].addr, len |-> Length] /\ 0 < Length
    BY <1>3, <1>5
  <2>2. Length \in Nat
    BY <1>3
  <2>3. Length < Claims[n].len
    BY <1>4, <1>5, <2>2
  <2>4. Claims[n].addr # PhonyAddr
    BY <1>4, <1>5
  <2> HIDE DEF left
  <2> QED
    BY <1>3, <1>5, <2>1, <2>2, <2>3, <2>4, LayoutFreed
<1>10. Claims' = [Claims EXCEPT ![n] = left] /\ Limit' = dbi_eof
  <2>1. OpClaim' = left
    BY <1>1, <1>7 DEF OpClaim
  <2>2. Claims' = [dir' EXCEPT ![n] = left]
    BY <1>1, <1>2, <2>1 DEF Claims, Busy
  <2> HIDE DEF left, OpClaim
  <2>3. Claims' = [Claims EXCEPT ![n] = left]
    BY <1>1, <1>3, <2>2
  <2> QED
    BY <1>1, <1>2, <2>3 DEF Limit
<1>11. Layout(dbi_freep', Claims', Limit')
  <2>1. Claims[n].len - Length = dp.len /\ Claims[n].addr + Length = dp.addr
    BY <1>3, <1>4, <1>5
  <2> QED
    BY <1>1, <1>9, <1>10, <2>1
<1>12. Stage'
  BY <1>1, <1>2, <1>3, <1>4, <1>5, <1>7 DEF Stage, Busy
<1> QED
  BY <1>1, <1>2, <1>3, <1>6, <1>8, <1>11, <1>12 DEF IInv, FreeApart

LEMMA PlaceErasedKeeps ==
    ASSUME IInv, PlaceErased
    PROVE  IInv'
<1> USE DEF Writes
<1>1. /\ LastWrite("erase") /\ pc' = "write"
      /\ UNCHANGED <<dir, dbi_freep, store, lost, crashes, torn>>
  BY DEF PlaceErased, history
<1>2. /\ pc = "erase" /\ UNCHANGED <<dbi_eof, dbi_read_only, pos, op>>
  BY <1>1, LastWriteFacts
<1>3. /\ Busy /\ ~dbi_read_only /\ op \in Request
      /\ dir \in [Names -> Place] /\ dbi_freep \subseteq Extent
      /\ Limit = dbi_eof /\ Layout(dbi_freep, Claims, dbi_eof)
      /\ op.content \in Content /\ dp.addr # PhonyAddr /\ dp.len = Length
  BY <1>2, BusyFacts DEF IInv, Stage
<1>4. TypeOK'
  BY <1>1, <1>3, StepType DEF IInv, TypeOK
<1>5. dp' = dp /\ Length' = Length
  BY <1>1, <1>2 DEF dp, Length
<1>6. Claims' = Claims /\ Limit' = dbi_eof
  <2>1. OpClaim' = dp /\ OpClaim = dp
    BY <1>1, <1>2, <1>5 DEF OpClaim
  <2> HIDE DEF OpClaim
  <2> QED
    BY <1>1, <1>2, <1>3, <2>1 DEF Claims, Busy, Limit
<1>7. Stage'
  BY <1>1, <1>2, <1>3, <1>5 DEF Stage, Busy
<1> QED
  BY <1>1, <1>2, <1>3, <1>4, <1>6, <1>7 DEF IInv, FreeApart

LEMMA ObjectWrittenKeeps ==
    ASSUME IInv, ObjectWritten
    PROVE  IInv'
<1> USE DEF Writes
<1>1. /\ LastWrite("write") /\ pc' = "idle"
      /\ store' = [store EXCEPT ![op.name] = op.content]
      /\ lost' = lost \ {op.name}
      /\ UNCHANGED <<dir, dbi_freep, crashes, torn>>
  BY DEF ObjectWritten
<1>2. /\ pc = "write" /\ UNCHANGED <<dbi_eof, dbi_read_only, pos>>
  BY <1>1, LastWriteFacts
<1>3. /\ ~dbi_read_only /\ op \in Request /\ op.name \in Names
      /\ dir \in [Names -> Place] /\ dbi_freep \subseteq Extent
      /\ Claims = [dir EXCEPT ![op.name] = OpClaim]
      /\ Limit = dbi_eof /\ Layout(dbi_freep, Claims, dbi_eof)
      /\ op.content \in Content
  BY <1>2, BusyFacts
<1>4. store' \in [Names -> Content \cup {None}] /\ lost' \subseteq Names
  BY <1>1, <1>3 DEF IInv, TypeOK
<1>5. TypeOK'
  BY <1>1, <1>3, <1>4, StepType
<1>6. Claims' = Claims /\ Limit' = dbi_eof
  <2>1. OpClaim = dir[op.name]
    BY <1>2 DEF OpClaim, dp
  <2>2. Claims = dir
    BY <1>3, <2>1
  <2> QED
    BY <1>1, <1>2, <2>2 DEF Claims, Busy, Limit
<1>7. ~Busy' /\ Stage'
  BY <1>1 DEF Stage, Busy
<1> QED
  BY <1>1, <1>2, <1>3, <1>5, <1>6, <1>7 DEF IInv, FreeApart

LEMMA DeletedKeeps ==
    ASSUME IInv, Deleted
    PROVE  IInv'
<1> USE DEF Writes
<1> DEFINE n == op.name
<1>1. /\ LastWrite("delete") /\ pc' = "idle"
      /\ dbi_freep' = rt_memfree(dbi_freep, dp.len, dp.addr)
      /\ dir' = [dir EXCEPT ![n] = Absent]
      /\ store' = [store EXCEPT ![n] = None] /\ lost' = lost \ {n}
      /\ UNCHANGED <<crashes, torn>>
  BY DEF Deleted, Freed
<1>2. /\ pc = "delete" /\ UNCHANGED <<dbi_eof, dbi_read_only, pos>>
  BY <1>1, LastWriteFacts
<1>3. /\ ~dbi_read_only /\ op \in Request /\ n \in Names
      /\ dir \in [Names -> Place] /\ dbi_freep \subseteq Extent /\ Apart(dbi_freep)
      /\ Claims = [dir EXCEPT ![n] = OpClaim] /\ Claims \in [Names -> Place]
      /\ Limit = dbi_eof /\ Layout(dbi_freep, Claims, dbi_eof)
      /\ Claims[n] = OpClaim /\ dp \in Place /\ dp.addr # PhonyAddr
  BY <1>2, BusyFacts
<1>4. /\ dp.addr \in Nat /\ dp.len \in Nat \ {0} /\ Claims[n] = dp /\ Absent \in Place
  BY <1>2, <1>3, WritesInside DEF OpClaim, Absent, Place, PhonyAddr
<1>5. dbi_freep' \subseteq Extent /\ Apart(dbi_freep')
  BY <1>1, <1>3, <1>4, FreeKeepsApart
<1>6. /\ store' \in [Names -> Content \cup {None}] /\ lost' \subseteq Names
      /\ dir' \in [Names -> Place]
  BY <1>1, <1>3, <1>4 DEF IInv, TypeOK
<1>7. TypeOK'
  BY <1>1, <1>5, <1>6, StepType
<1>8. Layout(rt_memfree(dbi_freep, dp.len, dp.addr), [Claims EXCEPT ![n] = Absent], dbi_eof)
  <2>1. Layout(rt_memfree(dbi_freep, Claims[n].len - 0, Claims[n].addr + 0),
               [Claims EXCEPT ![n] = Absent], dbi_eof)
    <3>1. 0 < Claims[n].len /\ Claims[n].addr # PhonyAddr
      BY <1>3, <1>4
    <3> HIDE DEF OpClaim
    <3> QED
      BY <1>3, <1>4, <3>1, LayoutFreed
  <2>2. Claims[n].len - 0 = dp.len /\ Claims[n].addr + 0 = dp.addr
    BY <1>4
  <2> QED
    BY <2>1, <2>2
<1>9. Claims' = [Claims EXCEPT ![n] = Absent] /\ Limit' = dbi_eof
  <2>1. Claims' = dir' /\ Limit' = dbi_eof
    BY <1>1, <1>2 DEF Claims, Busy, Limit
  <2> HIDE DEF OpClaim
  <2>2. dir' = [Claims EXCEPT ![n] = Absent]
    BY <1>1, <1>3
  <2> QED
    BY <2>1, <2>2
<1>10. ~Busy' /\ Stage'
  BY <1>1 DEF Stage, Busy
<1> QED
  BY <1>1, <1>2, <1>3, <1>5, <1>7, <1>8, <1>9, <1>10 DEF IInv, FreeApart


LEMMA WriteFailsKeeps ==
    ASSUME IInv, WriteFails
    PROVE  IInv'
<1> DEFINE n == op.name
<1>1. /\ pc \in Writes /\ \E k \in Partly : Written(k)
      /\ dbi_read_only' = TRUE /\ pc' = "idle" /\ half' = FALSE /\ op' = None
      /\ \/ /\ dbi_freep' = rt_memfree(dbi_freep, dp.len, dp.addr)
            /\ dir' = [dir EXCEPT ![n] = Absent]
         \/ UNCHANGED <<dir, dbi_freep>>
      /\ lost' = lost \cup {n} /\ torn' = torn \cup {"failed"} \cup Delicate
      /\ UNCHANGED <<dbi_eof, pos, store, crashes>>
  BY DEF WriteFails, Freed
<1>2. DiskOK'
  <2>1. PICK k \in Partly : Written(k)
    BY <1>1
  <2>2. PICK lo \in Start .. MaxEnd, hi \in Start .. MaxEnd :
          lo <= hi /\ DOMAIN Data = lo .. hi
    BY <1>1, DataType
  <2>3. Whole \in Nat
    BY <2>2, FS_Interval, ConstantsAssumption DEF Whole, Start
  <2>4. k \in 0 .. Whole
    BY <2>3 DEF Partly
  <2> QED
    BY <1>1, <2>1, <2>4, WrittenType
<1>3. /\ n \in Names /\ dir \in [Names -> Place]
      /\ dbi_freep \subseteq Extent /\ Apart(dbi_freep)
      /\ dp.addr \in Nat /\ dp.len \in Nat
  BY <1>1, BusyFacts, WritesInside
<1>4. dbi_freep' \subseteq Extent /\ Apart(dbi_freep') /\ dir' \in [Names -> Place]
  <2>1. Absent \in Place
    BY DEF Absent, Place, PhonyAddr
  <2> QED
    BY <1>1, <1>3, <2>1, FreeKeepsApart
<1>5. Delicate \subseteq {"failed", "shrink", "divide", "extend", "short"}
  BY DEF Delicate
<1>6. TypeOK'
  BY <1>1, <1>2, <1>3, <1>4, <1>5 DEF IInv, TypeOK, DiskOK, Place
<1> QED
  BY <1>1, <1>4, <1>6 DEF IInv, FreeApart, Stage, Busy

LEMMA CrashKeeps ==
    ASSUME IInv, Crash
    PROVE  IInv'
<1>1. /\ pc # "scan" /\ crashes < MaxCrashes /\ crashes' = crashes + 1
      /\ \/ pc \in Writes /\ \E k \in Partly : Written(k)
         \/ UNCHANGED <<file, file_end>>
      /\ lost' = IF pc = "idle" THEN lost ELSE lost \cup {op.name}
      /\ torn' = torn \cup Delicate
      /\ dir' = [m \in Names |-> Absent]
      /\ dbi_freep' = {} /\ dbi_eof' = PhonyAddr /\ dbi_read_only' = FALSE
      /\ pc' = "scan" /\ half' = FALSE /\ pos' = Start /\ op' = None
      /\ UNCHANGED store
  BY DEF Crash, disk
<1>2. DiskOK'
  <2>1. CASE UNCHANGED <<file, file_end>>
    BY <2>1 DEF IInv, TypeOK, DiskOK
  <2>2. CASE pc \in Writes /\ \E k \in Partly : Written(k)
    <3>1. PICK k \in Partly : Written(k)
      BY <2>2
    <3>2. PICK lo \in Start .. MaxEnd, hi \in Start .. MaxEnd :
            lo <= hi /\ DOMAIN Data = lo .. hi
      BY <2>2, DataType
    <3>3. Whole \in Nat
      BY <3>2, FS_Interval, ConstantsAssumption DEF Whole, Start
    <3>4. k \in 0 .. Whole
      BY <3>3 DEF Partly
    <3> QED
      BY <2>2, <3>1, <3>4, WrittenType
  <2> QED
    BY <1>1, <2>1, <2>2
<1>3. lost' \subseteq Names
  <2>1. pc # "idle" => op.name \in Names
    BY <1>1 DEF IInv, Stage, Busy, Request
  <2> QED
    BY <1>1, <2>1 DEF IInv, TypeOK
<1>4. Delicate \subseteq {"failed", "shrink", "divide", "extend", "short"}
  BY DEF Delicate
<1>5. /\ Start \in Start .. MaxEnd + 1 /\ crashes' \in 0 .. MaxCrashes
      /\ Absent \in Place
  BY <1>1, ConstantsAssumption DEF IInv, TypeOK, Absent, Place, PhonyAddr, Start
<1>6. TypeOK'
  BY <1>1, <1>2, <1>3, <1>4, <1>5 DEF IInv, TypeOK, DiskOK, Place
<1>7. Layout(dbi_freep', Claims', Limit')
  <2>1. Claims' = [m \in Names |-> Absent] /\ Limit' = Start
    BY <1>1 DEF Claims, Busy, Limit
  <2>2. \A m \in Names : [l \in Names |-> Absent][m].addr = PhonyAddr
    BY DEF Absent
  <2> QED
    BY <1>1, <1>5, <2>1, <2>2 DEF Layout
<1> QED
  BY <1>1, <1>6, <1>7 DEF IInv, FreeApart, Apart, Stage, Busy

LEMMA ScanFacts ==
    ASSUME IInv, pc = "scan"
    PROVE  /\ ~dbi_read_only /\ ~Busy /\ Claims = dir /\ Limit = pos
           /\ dir \in [Names -> Place] /\ dbi_freep \subseteq Extent /\ Apart(dbi_freep)
           /\ Layout(dbi_freep, dir, pos)
           /\ pos \in Start .. MaxEnd + 1 /\ pos \in Nat /\ MaxEnd \in Nat
  BY ConstantsAssumption
     DEF IInv, Busy, Claims, Limit, TypeOK, Place, FreeApart, Layout, Start

LEMMA ScanObjectKeeps ==
    ASSUME IInv, ScanObject
    PROVE  IInv'
<1> DEFINE head == file[pos].head
           end == pos + head.len
<1>1. /\ pc = "scan" /\ pos < file_end /\ IsObject(pos)
      /\ pos' = end
      /\ UNCHANGED <<file, file_end, dbi_eof, dbi_read_only, pc, half, op>>
      /\ UNCHANGED <<store, lost, crashes, torn>>
  BY DEF ScanObject, disk, history
<1>2. /\ ~dbi_read_only /\ ~Busy
      /\ dir \in [Names -> Place] /\ dbi_freep \subseteq Extent /\ Apart(dbi_freep)
      /\ Layout(dbi_freep, dir, pos)
      /\ pos \in Start .. MaxEnd + 1 /\ pos \in Nat /\ MaxEnd \in Nat
  BY <1>1, ScanFacts
<1>3. /\ head.name \in Names \cup {None} /\ head.len \in Nat \ {0} /\ end <= file_end
      /\ file_end \in Start .. MaxEnd + 1
  <2>1. file_end \in Start .. MaxEnd + 1 /\ file \in [Start .. MaxEnd -> Cell]
    BY DEF IInv, TypeOK
  <2>2. pos \in Start .. MaxEnd
    BY <1>1, <1>2, <2>1 DEF Start
  <2>3. head \in Head
    BY <1>1, <2>1, <2>2 DEF IsObject, Cell
  <2> QED
    BY <1>1, <2>1, <2>3 DEF Head, IsObject
<1>4. end \in Start .. MaxEnd + 1 /\ pos <= end /\ end \in Nat
  BY <1>2, <1>3 DEF Start
<1>5. ASSUME dir' \in [Names -> Place], dbi_freep' \subseteq Extent
      PROVE  TypeOK'
  BY <1>1, <1>4, <1>5 DEF IInv, TypeOK, Place
<1>6. Claims' = dir' /\ Limit' = end /\ ~Busy' /\ Stage'
  BY <1>1 DEF Claims, Limit, Busy, Stage
<1>7. Layout(dbi_freep, dir, end)
  <2>1. \A e \in dbi_freep : After(e) \in Nat /\ After(e) <= pos
    BY <1>2 DEF Layout, Extent, After
  <2>2. ASSUME NEW m \in Names, dir[m].addr # PhonyAddr
        PROVE  dir[m].addr + dir[m].len <= end
    <3>1. dir[m].addr + dir[m].len <= pos /\ dir[m].addr \in Nat /\ dir[m].len \in Nat
      BY <1>2, <2>2 DEF Layout, Place
    <3> QED
      BY <1>2, <1>4, <3>1
  <2>3. \A e \in dbi_freep : After(e) <= end
    BY <1>2, <1>4, <2>1
  <2> QED
    BY <1>2, <1>4, <2>2, <2>3 DEF Layout
<1>8. CASE dbi_freep' = rt_memfree(dbi_freep, head.len, pos) /\ UNCHANGED dir
  <2>1. dbi_freep' \subseteq Extent /\ Apart(dbi_freep')
    BY <1>2, <1>3, <1>8, FreeKeepsApart
  <2>2. \A e \in dbi_freep' : Start <= e.addr /\ After(e) <= end
    <3>1. \A e \in dbi_freep : Start <= e.addr /\ After(e) <= end
      BY <1>7 DEF Layout
    <3>2. Start <= pos /\ Start \in Nat
      BY <1>2 DEF Start
    <3>3. pos + head.len <= end
      BY <1>4
    <3>4. head.len \in Nat
      BY <1>3
    <3> HIDE DEF head, end
    <3> QED
      BY <1>2, <1>4, <1>8, <3>1, <3>2, <3>3, <3>4, FreeWithin
  <2>3. ASSUME NEW m \in Names, dir[m].addr # PhonyAddr
        PROVE  \A e \in dbi_freep' : Clear(e, dir[m].addr, dir[m].len)
    <3>1. /\ dir[m].addr \in Nat /\ dir[m].len \in Nat \ {0}
          /\ dir[m].addr + dir[m].len <= pos
          /\ \A e \in dbi_freep : Clear(e, dir[m].addr, dir[m].len)
      BY <1>2, <2>3 DEF Layout, Place
    <3> QED
      BY <1>2, <1>3, <1>8, <3>1, FreeKeepsClear
  <2>4. Layout(dbi_freep', dir, end)
    BY <1>7, <2>2, <2>3 DEF Layout
  <2> QED
    BY <1>1, <1>2, <1>5, <1>6, <1>8, <2>1, <2>4 DEF IInv, FreeApart
<1>9. CASE head.name # None /\ dir[head.name] = Absent /\ UNCHANGED dbi_freep
             /\ dir' = [dir EXCEPT ![head.name] = [addr |-> pos, len |-> head.len]]
  <2> DEFINE p == [addr |-> pos, len |-> head.len]
  <2>1. /\ p \in Place /\ p.addr # PhonyAddr /\ p.addr = pos /\ p.len = head.len /\ 0 < p.len
        /\ Start <= p.addr /\ p.addr + p.len <= end
    BY <1>2, <1>3 DEF Place, PhonyAddr, Start
  <2>2. head.name \in Names /\ dir[head.name].addr = PhonyAddr
    BY <1>3, <1>9 DEF Absent
  <2>3. \A e \in dbi_freep : Clear(e, p.addr, p.len)
    BY <1>2, <2>1 DEF Layout, Clear
  <2>4. \A m \in Names : dir[m].addr # PhonyAddr => Disjoint(dir[m], p)
    BY <1>2, <2>1 DEF Layout, Disjoint
  <2>5. dir' = [dir EXCEPT ![head.name] = p]
    BY <1>9
  <2> HIDE DEF p
  <2>6. Layout(dbi_freep, [dir EXCEPT ![head.name] = p], end)
    BY <1>2, <1>4, <2>1, <2>2, <2>3, <2>4, LayoutClaimed
  <2>7. dir' \in [Names -> Place]
    BY <1>2, <2>1, <2>5
  <2> QED
    BY <1>1, <1>2, <1>5, <1>6, <1>9, <2>5, <2>6, <2>7 DEF IInv, FreeApart
<1>10. CASE UNCHANGED <<dir, dbi_freep>>
  BY <1>1, <1>2, <1>5, <1>6, <1>7, <1>10 DEF IInv, FreeApart
<1> QED
  BY <1>8, <1>9, <1>10 DEF ScanObject

LEMMA ScanEndKeeps ==
    ASSUME IInv, ScanEnd
    PROVE  IInv'
<1>1. /\ pc = "scan" /\ dbi_eof' = pos /\ pc' = "idle" /\ pos' = Start
      /\ torn' = torn \cap {"shrink", "short"}
      /\ UNCHANGED <<file, file_end, dir, dbi_freep, dbi_read_only, half, op, store, lost,
                     crashes>>
  BY DEF ScanEnd, disk
<1>2. /\ ~dbi_read_only /\ Layout(dbi_freep, dir, pos)
      /\ pos \in Nat /\ MaxEnd \in Nat
  BY <1>1, ScanFacts
<1>3. Start \in Start .. MaxEnd + 1
  BY <1>2 DEF Start
<1>4. TypeOK'
  BY <1>1, <1>2, <1>3 DEF IInv, TypeOK, Writes
<1>5. Claims' = dir /\ Limit' = pos /\ Stage' /\ ~Busy'
  BY <1>1 DEF Claims, Limit, Busy, Stage
<1> QED
  BY <1>1, <1>2, <1>4, <1>5 DEF IInv, FreeApart

LEMMA ScanFatalKeeps ==
    ASSUME IInv, ScanFatal
    PROVE  IInv'
<1>1. /\ pc = "scan" /\ dbi_read_only' = TRUE /\ pc' = "idle"
      /\ UNCHANGED <<file, file_end, dir, dbi_freep, dbi_eof, half, op, pos>>
      /\ UNCHANGED <<store, lost, crashes, torn>>
  BY DEF ScanFatal, disk, history
<1>2. TypeOK'
  BY <1>1 DEF IInv, TypeOK, Writes
<1> QED
  BY <1>1, <1>2 DEF IInv, FreeApart, Stage, Busy

LEMMA ScanShortKeeps ==
    ASSUME IInv, ScanShort
    PROVE  IInv'
<1>1. /\ pc = "scan" /\ pos < file_end /\ dbi_eof' = pos + 1 /\ pc' = "idle"
      /\ torn' = torn \cup {"short"}
      /\ UNCHANGED <<file, file_end, dir, dbi_freep, dbi_read_only, half, op, pos, store,
                     lost, crashes>>
  BY DEF ScanShort, disk
<1>2. /\ ~dbi_read_only /\ Layout(dbi_freep, dir, pos)
      /\ dir \in [Names -> Place] /\ dbi_freep \subseteq Extent
      /\ pos \in Start .. MaxEnd + 1 /\ pos \in Nat /\ MaxEnd \in Nat
  BY <1>1, ScanFacts
<1>3. TypeOK'
  BY <1>1, <1>2 DEF IInv, TypeOK, Writes
<1>4. Layout(dbi_freep, dir, pos + 1)
  <2>1. pos + 1 \in Start .. MaxEnd + 1
    BY <1>1, <1>2 DEF IInv, TypeOK, Start
  <2>2. ASSUME NEW e \in dbi_freep PROVE After(e) <= pos + 1
    <3>1. After(e) <= pos /\ After(e) \in Nat
      BY <1>2 DEF Layout, Extent, After
    <3> QED
      BY <1>2, <3>1
  <2>3. ASSUME NEW m \in Names, dir[m].addr # PhonyAddr
        PROVE  dir[m].addr + dir[m].len <= pos + 1
    <3>1. dir[m].addr + dir[m].len <= pos /\ dir[m].addr \in Nat /\ dir[m].len \in Nat
      BY <1>2, <2>3 DEF Layout, Place
    <3> QED
      BY <1>2, <3>1
  <2> QED
    BY <1>2, <2>1, <2>2, <2>3 DEF Layout
<1>5. Claims' = dir /\ Limit' = pos + 1 /\ Stage' /\ ~Busy'
  BY <1>1 DEF Claims, Limit, Busy, Stage
<1> QED
  BY <1>1, <1>2, <1>3, <1>4, <1>5 DEF IInv, FreeApart

LEMMA StutterKeeps ==
    ASSUME IInv, UNCHANGED vars
    PROVE  IInv'
<1>1. /\ UNCHANGED <<file, file_end, dir, dbi_freep, dbi_eof, dbi_read_only, pc, half, op,
                     pos>>
      /\ UNCHANGED <<store, lost, crashes, torn>>
  BY DEF vars, disk, memory, history
<1>2. TypeOK' /\ FreeApart'
  BY <1>1 DEF IInv, TypeOK, FreeApart
<1>3. Busy' = Busy /\ dp' = dp /\ Length' = Length
  BY <1>1 DEF Busy, dp, Length
<1>4. OpClaim' = OpClaim
  BY <1>1, <1>3 DEF OpClaim
<1>5. Claims' = Claims /\ Limit' = Limit
  BY <1>1, <1>3, <1>4 DEF Claims, Limit
<1>6. Stage'
  BY <1>1, <1>3 DEF IInv, Stage
<1> QED
  BY <1>1, <1>2, <1>3, <1>5, <1>6 DEF IInv


THEOREM Invariance == Spec => []IInv
<1>1. Init => IInv
  BY InitHolds
<1>2. IInv /\ [Next]_vars => IInv'
  <2> SUFFICES ASSUME IInv, [Next]_vars PROVE IInv'
    OBVIOUS
  <2>1. ASSUME NEW n \in Names, Delete(n) PROVE IInv'
    BY <2>1, DeleteKeeps
  <2>2. ASSUME NEW n \in Names, NEW c \in Content, Put(n, c) PROVE IInv'
    BY <2>2, PutKeeps
  <2>3. CASE Allocate
    BY <2>3, AllocateKeeps
  <2>4. CASE WriteHeader
    BY <2>4, WriteHeaderKeeps
  <2>5. CASE Zapped
    BY <2>5, ZappedKeeps
  <2>6. CASE FrontErased
    BY <2>6, FrontErasedKeeps
  <2>7. CASE BackErased
    BY <2>7, BackErasedKeeps
  <2>8. CASE SurplusErased
    BY <2>8, SurplusErasedKeeps
  <2>9. CASE PlaceErased
    BY <2>9, PlaceErasedKeeps
  <2>10. CASE ObjectWritten
    BY <2>10, ObjectWrittenKeeps
  <2>11. CASE Deleted
    BY <2>11, DeletedKeeps
  <2>12. CASE WriteFails
    BY <2>12, WriteFailsKeeps
  <2>13. CASE Crash
    BY <2>13, CrashKeeps
  <2>14. CASE ScanObject
    BY <2>14, ScanObjectKeeps
  <2>15. CASE ScanEnd
    BY <2>15, ScanEndKeeps
  <2>16. CASE ScanFatal
    BY <2>16, ScanFatalKeeps
  <2>17. CASE ScanShort
    BY <2>17, ScanShortKeeps
  <2>18. CASE UNCHANGED vars
    BY <2>18, StutterKeeps
  <2> QED
    BY <2>1, <2>2, <2>3, <2>4, <2>5, <2>6, <2>7, <2>8, <2>9, <2>10, <2>11, <2>12, <2>13,
       <2>14, <2>15, <2>16, <2>17, <2>18 DEF Next
<1> QED
  BY <1>1, <1>2, PTL DEF Spec

-----------------------------------------------------------------------------

(* The variables have the types Db5Alloc states: in particular, the file   *)
(* and its map of free storage never reach beyond the end of the file.     *)
THEOREM TypeCorrect == Spec => []TypeOK
<1>1. IInv => TypeOK
  BY DEF IInv
<1> QED
  BY <1>1, Invariance, PTL

(* rt_memfree joins what touches: the extents of the map of free storage   *)
(* (db5_alloc.c, memalloc.c) neither overlap nor touch.                    *)
THEOREM FreeStorageApart == Spec => []FreeApart
<1>1. IInv => FreeApart
  BY DEF IInv
<1> QED
  BY <1>1, Invariance, PTL

(* When an operation begins no unit of the file belongs to two objects, or *)
(* to an object and to free storage: after any sequence of db5_realloc,    *)
(* db_delete, crashes and scans, whatever junk the scans have met.         *)
THEOREM StoredOnce == Spec => []NothingTwice
<1>1. IInv => NothingTwice
  <2> SUFFICES ASSUME IInv, Usable PROVE NothingTwice
    BY DEF NothingTwice
  <2>1. /\ Layout(dbi_freep, dir, dbi_eof)
        /\ dir \in [Names -> Place] /\ dbi_freep \subseteq Extent
    BY DEF Usable, IInv, TypeOK, Claims, Busy, Limit, Place
  <2>2. ASSUME NEW m \in Names, NEW n \in Names, m # n
        PROVE  Of(m) \cap Of(n) = {}
    <3>1. CASE dir[m].addr = PhonyAddr \/ dir[n].addr = PhonyAddr
      BY <3>1 DEF Of, Units
    <3>2. CASE dir[m].addr # PhonyAddr /\ dir[n].addr # PhonyAddr
      <4>1. Disjoint(dir[m], dir[n])
        BY <2>1, <2>2, <3>2 DEF Layout
      <4>2. /\ dir[m].addr \in Nat /\ dir[n].addr \in Nat
            /\ dir[m].len \in Nat /\ dir[n].len \in Nat
        BY <2>1, <3>2 DEF Place
      <4> QED
        BY <4>1, <4>2 DEF Disjoint, Of, Units
    <3> QED
      BY <3>1, <3>2
  <2>3. ASSUME NEW n \in Names, NEW e \in dbi_freep
        PROVE  Of(n) \cap Free(e) = {}
    <3>1. CASE dir[n].addr = PhonyAddr
      BY <3>1 DEF Of, Units
    <3>2. CASE dir[n].addr # PhonyAddr
      <4>1. Clear(e, dir[n].addr, dir[n].len)
        BY <2>1, <3>2 DEF Layout
      <4>2. /\ dir[n].addr \in Nat /\ dir[n].len \in Nat
            /\ e.addr \in Nat /\ e.size \in Nat
        BY <2>1, <3>2 DEF Place, Extent
      <4> QED
        BY <4>1, <4>2 DEF Clear, After, Of, Free, Units
    <3> QED
      BY <3>1, <3>2
  <2> QED
    BY <2>2, <2>3 DEF NothingTwice
<1> QED
  BY <1>1, Invariance, PTL

-----------------------------------------------------------------------------
(* Tilings: the addresses at which a scan may look for a header.           *)

Ends(f, s) == s + f[s].head.len

(* An object from s that ends at the end of the file or before it.         *)
Sound(f, end, s) ==
    f[s].head # None /\ Ends(f, s) <= end /\ f[Ends(f, s) - 1].tail

(* The next mark follows where the object from s ends.                     *)
Chained(f, end, S, s) ==
    /\ Sound(f, end, s)
    /\ Ends(f, s) \in S \cup {end}
    /\ \A t \in S : s < t => Ends(f, s) <= t

AllChained(f, end, S) == \A s \in S : Chained(f, end, S, s)

Marks(end, S) == S \subseteq Start .. end - 1 /\ Start \in S \cup {end}

Named(f, s, n) == f[s].head # None /\ f[s].head.name = n

(* A scan goes from mark to mark, wherever it looks, and no further than   *)
(* the next object with a name.                                            *)
Loose(f, end, S) ==
    \A s \in S : f[s].head # None =>
        /\ Ends(f, s) \in S \cup {end} \/ Ends(f, s) > end
        /\ \A t \in S, n \in Names : (s < t /\ Named(f, t, n)) => Ends(f, s) <= t

Unique(f, S) ==
    \A s, t \in S, n \in Names : (Named(f, s, n) /\ Named(f, t, n)) => s = t

Holds(f, s, c) == \A a \in s .. s + c.len - 1 : f[a] = Object(c, s)[a]

(* What was last put is there, and what was deleted is not.                *)
Kept(f, end, S, known) ==
    \A n \in known :
        IF store[n] = None
        THEN \A s \in S : ~Named(f, s, n)
        ELSE \E s \in S : s + store[n].len <= end /\ Holds(f, s, store[n])

FreeUnits == UNION {Free(e) : e \in dbi_freep}

(* The directory and the map of free storage say what the marks below lim  *)
(* say, but for the names X, whose only place is in lo .. hi - 1.          *)
Match(S, lim, X, lo, hi) ==
    /\ \A n \in Names \ X :
            \/ dir[n] = Absent
            \/ /\ dir[n].addr \in S /\ dir[n].addr < lim
               /\ file[dir[n].addr].head = [name |-> n, len |-> dir[n].len]
    /\ \A s \in S, n \in Names \ X : (s < lim /\ Named(file, s, n)) => dir[n].addr = s
    /\ \A s \in S : (s < lim /\ ~(lo <= s /\ s < hi) /\ Named(file, s, None)) =>
            s .. Ends(file, s) - 1 \subseteq FreeUnits
    /\ \A s \in S, n \in X : Named(file, s, n) => lo <= s /\ s < hi

(* The storage an operation is at work on: lo .. hi - 1.                   *)
RegionLo ==
    CASE pc \in {"zap", "write", "delete", "erase"} -> dp.addr
      [] pc \in {"front", "back"} -> op.addr
      [] pc = "surplus" -> dp.addr - Length
      [] OTHER -> Start

RegionHi ==
    CASE pc \in {"zap", "write", "delete", "surplus"} -> dp.addr + dp.len
      [] pc \in {"front", "back"} -> op.addr + op.len
      [] pc = "erase" -> Ends(file, dp.addr + dp.len)
      [] OTHER -> Start

Extending == pc = "write" /\ dp.addr = file_end

(* Free storage that is being divided: a scan may go astray in it, but not *)
(* out of it.                                                              *)
Hole(f, end, S, lo, hi) ==
    \A s \in S : (lo <= s /\ s < hi /\ f[s].head # None) =>
        Named(f, s, None) /\ Ends(f, s) <= hi /\ Ends(f, s) \in S \cup {end}

(* What the marks inside of it look like.                                  *)
Inside(S, lo, hi) ==
    /\ lo < hi
    /\ \/ Extending /\ dbi_eof = hi
       \/ lo \in S /\ hi \in S \cup {file_end} /\ dbi_eof = file_end
    /\ half => pc \in Writes \ {"write"} /\ dp.len > Large
                /\ file[dp.addr].head = [name |-> None, len |-> dp.len]
    /\ pc \in {"front", "back"} => S \cap (lo .. hi - 1) = {lo}
    /\ pc = "back" => Sound(file, file_end, lo) /\ Ends(file, lo) = dp.addr
                        /\ Named(file, lo, None)
    /\ pc \in {"front", "back", "surplus", "zap", "delete"} => file[hi - 1].tail
    /\ (pc = "surplus" /\ half) \/ pc = "erase" =>
            LET mid == lo + Length
            IN  mid \in S /\ Named(file, mid, None) /\ Ends(file, mid) = hi
    /\ pc = "erase" => /\ Sound(file, file_end, dp.addr + dp.len)
                       /\ dp.addr + dp.len .. hi - 1 \subseteq FreeUnits
    /\ pc = "zap" => lo .. hi - 1 \subseteq FreeUnits
    /\ pc \in {"surplus", "erase"} => Hole(file, file_end, S, lo, hi)
    /\ pc \in {"zap", "write", "delete"} =>
            \A s \in S : (lo <= s /\ s < hi) => Chained(file, file_end, S, s)

Working(S) ==
    LET lo == RegionLo
        hi == RegionHi
    IN  /\ torn = {}
        /\ \A s \in S : ~(lo <= s /\ s < hi) => Chained(file, file_end, S, s)
        /\ Match(S, file_end, IF Busy THEN {op.name} ELSE {}, lo, hi)
        /\ IF pc \in Writes THEN Inside(S, lo, hi) ELSE dbi_eof = file_end /\ ~half

Scanned(S) ==
    /\ pos \in S \cup {file_end}
    /\ \A s \in S : s < pos => Chained(file, file_end, S, s)
    /\ Match(S, pos, {}, Start, Start)

(* An object that is put under a name says so.                             *)
OwnName ==
    /\ \A n \in Names : store[n] # None => store[n].name = n
    /\ (Busy /\ pc # "delete") => op.content.name = op.name

Tiling(S) ==
    /\ OwnName
    /\ Marks(file_end, S)
    /\ Unique(file, S)
    /\ Kept(file, file_end, S, Names \ (lost \cup (IF Busy THEN {op.name} ELSE {})))
    /\ pc \notin {"front", "back"} => Loose(file, file_end, S)
    /\ (torn = {} /\ pc \notin {"front", "back", "surplus", "erase"}) =>
            AllChained(file, file_end, S)
    /\ (Busy \/ Usable) => Working(S)
    /\ pc = "scan" => Scanned(S)

Tiled ==
    /\ dbi_read_only => torn # {}
    /\ pc = "scan" => dbi_eof = PhonyAddr /\ ~half
    /\ ~Misread => \E S \in SUBSET (Start .. file_end - 1) : Tiling(S)
    /\ (~Misread /\ dbi_read_only) => ReadsBack

-----------------------------------------------------------------------------
(* Tilings of a file.                                                      *)

File == [Start .. MaxEnd -> Cell]

LEMMA HeadType ==
    ASSUME NEW f \in File, NEW s \in Start .. MaxEnd, f[s].head # None
    PROVE  /\ f[s].head \in Head
           /\ f[s].head.len \in Nat \ {0} /\ f[s].head.name \in Names \cup {None}
           /\ s \in Nat /\ Ends(f, s) \in Nat /\ s < Ends(f, s)
           /\ Start \in Nat /\ Start <= s /\ MaxEnd \in Nat
<1>1. f[s] \in Cell /\ MaxEnd \in Nat /\ s \in Nat
  BY ConstantsAssumption DEF File, Start
<1>2. f[s].head \in Head
  BY <1>1 DEF Cell
<1>3. f[s].head.len \in Nat \ {0} /\ f[s].head.name \in Names \cup {None}
  BY <1>2 DEF Head
<1> QED
  BY <1>1, <1>2, <1>3 DEF Ends, Start

LEMMA MarksType ==
    ASSUME NEW end \in Start .. MaxEnd + 1, NEW S, Marks(end, S)
    PROVE  /\ end \in Nat /\ end <= MaxEnd + 1 /\ Start <= end /\ MaxEnd \in Nat /\ Start \in Nat
           /\ \A s \in S : s \in Start .. MaxEnd /\ s \in Nat /\ Start <= s /\ s < end
<1>1. MaxEnd \in Nat
  BY ConstantsAssumption
<1> QED
  BY <1>1 DEF Marks, Start

LEMMA ChainedLoose ==
    ASSUME NEW f, NEW end, NEW S, AllChained(f, end, S)
    PROVE  Loose(f, end, S)
BY DEF AllChained, Chained, Loose

(* Each unit of a tiled file is part of an object.                         *)
LEMMA Cover ==
    ASSUME NEW f \in File, NEW end \in Start .. MaxEnd + 1, NEW S, Marks(end, S),
           AllChained(f, end, S), NEW a \in Start .. end - 1
    PROVE  \E s \in S : s <= a /\ a < Ends(f, s)
<1> DEFINE T == {s \in S : s <= a}
<1>1. /\ end \in Nat /\ \A s \in S : s \in Start .. MaxEnd /\ s \in Nat /\ s < end
      /\ a \in Nat /\ Start <= a /\ a < end /\ Start \in Nat
  BY MarksType DEF Start
<1>2. Start \in T
  BY <1>1 DEF Marks
<1>3. T \subseteq Nat /\ T # {} /\ \A t \in T : t <= a
  BY <1>1, <1>2
<1> HIDE DEF T
<1>4. PICK s \in T : \A t \in T : t <= s
  BY <1>1, <1>3, Greatest
<1>5. s \in S /\ s <= a
  BY <1>4 DEF T
<1>6. f[s].head # None /\ Ends(f, s) \in S \cup {end}
  BY <1>5 DEF AllChained, Chained, Sound
<1>7. Ends(f, s) \in Nat /\ s < Ends(f, s) /\ s \in Nat
  BY <1>1, <1>5, <1>6, HeadType
<1>8. ASSUME Ends(f, s) <= a PROVE FALSE
  <2>1. Ends(f, s) \in S
    BY <1>1, <1>6, <1>7, <1>8
  <2>2. Ends(f, s) \in T
    BY <1>8, <2>1 DEF T
  <2> QED
    BY <1>4, <1>7, <2>2
<1> QED
  BY <1>1, <1>5, <1>7, <1>8

Outside(S, lo, hi) == {s \in S : ~(lo <= s /\ s < hi)}

(* Part of a file is tiled again, or tiles are added at its end.           *)
Retiling(f, g, end, end2, S, lo, hi, R) ==
    /\ f \in File /\ g \in File
    /\ end \in Start .. MaxEnd + 1 /\ end2 \in Start .. MaxEnd + 1
    /\ Marks(end, S) /\ lo \in Nat /\ hi \in Nat /\ Start <= lo /\ lo < hi
    /\ \/ lo \in S /\ hi \in S \cup {end} /\ end2 = end
       \/ lo = end /\ hi = end2
    /\ \A s \in S : ~(lo <= s /\ s < hi) => Chained(f, end, S, s)
    /\ \A a \in Start .. MaxEnd : ~(lo <= a /\ a < hi) => g[a] = f[a]
    /\ R \subseteq lo .. hi - 1 /\ lo \in R
    /\ \A r \in R : /\ Sound(g, end2, r) /\ Ends(g, r) \in R \cup {hi}
                    /\ \A t \in R : r < t => Ends(g, r) <= t

LEMMA Retile ==
    ASSUME NEW f, NEW g, NEW end, NEW end2, NEW S, NEW lo, NEW hi, NEW R,
           Retiling(f, g, end, end2, S, lo, hi, R)
    PROVE  /\ Marks(end2, Outside(S, lo, hi) \cup R)
           /\ AllChained(g, end2, Outside(S, lo, hi) \cup R)
<1> USE DEF Retiling
<1> DEFINE T == Outside(S, lo, hi) \cup R
<1>a. \A t : t \in Outside(S, lo, hi) <=> t \in S /\ ~(lo <= t /\ t < hi)
  BY DEF Outside
<1>1. /\ end \in Nat /\ end <= MaxEnd + 1 /\ Start <= end /\ MaxEnd \in Nat /\ Start \in Nat
      /\ \A s \in S : s \in Start .. MaxEnd /\ s \in Nat /\ Start <= s /\ s < end
  BY MarksType
<1>2. end2 \in Nat /\ end2 <= MaxEnd + 1 /\ end <= end2 /\ lo < end2 /\ hi <= end2
  <2>1. CASE lo \in S /\ hi \in S \cup {end} /\ end2 = end
    BY <1>1, <2>1
  <2>2. CASE lo = end /\ hi = end2
    BY <1>1, <2>2
  <2> QED
    BY <2>1, <2>2
<1>3. \A r \in R : r \in Nat /\ lo <= r /\ r < hi /\ r \in Start .. MaxEnd
  BY <1>1, <1>2 DEF Start
<1>4. ASSUME NEW s \in S, s < lo PROVE Chained(g, end2, T, s)
  <2>1. Chained(f, end, S, s) /\ s \in Nat /\ s \in Start .. MaxEnd /\ Start <= s
    BY <1>1, <1>4
  <2>2. f[s].head # None /\ Ends(f, s) \in Nat /\ s < Ends(f, s)
    BY <2>1, HeadType DEF Chained, Sound
  <2>3. Ends(f, s) <= lo
    BY <1>1, <1>4, <2>1 DEF Chained, Sound
  <2>4. g[s] = f[s] /\ Ends(g, s) = Ends(f, s)
    BY <1>4, <2>1 DEF Ends
  <2>5. Ends(f, s) - 1 \in Start .. MaxEnd /\ Ends(f, s) - 1 < lo
    BY <1>1, <1>2, <2>1, <2>2, <2>3
  <2>6. g[Ends(f, s) - 1] = f[Ends(f, s) - 1]
    BY <2>5
  <2>7. Sound(g, end2, s)
    BY <1>1, <1>2, <2>1, <2>2, <2>4, <2>6 DEF Chained, Sound
  <2>8. Ends(f, s) \in T \cup {end2}
    <3>1. Ends(f, s) \in S \cup {end}
      BY <2>1 DEF Chained
    <3>2. CASE Ends(f, s) = lo
      BY <3>2
    <3>3. CASE Ends(f, s) # lo
      <4>1. Ends(f, s) < lo
        BY <2>2, <2>3, <3>3
      <4> QED
        BY <1>a, <1>1, <1>2, <2>2, <3>1, <4>1
    <3> QED
      BY <3>2, <3>3
  <2>9. ASSUME NEW t \in T, s < t PROVE Ends(f, s) <= t
    <3>1. CASE t \in S
      BY <2>1, <2>9, <3>1 DEF Chained
    <3>2. CASE t \in R
      BY <1>3, <2>2, <2>3, <3>2
    <3> QED
      BY <1>a, <3>1, <3>2
  <2> QED
    BY <2>4, <2>7, <2>8, <2>9 DEF Chained
<1>5. ASSUME NEW s \in S, hi <= s PROVE Chained(g, end2, T, s)
  <2>1. Chained(f, end, S, s) /\ s \in Nat /\ s \in Start .. MaxEnd /\ Start <= s
    BY <1>1, <1>5
  <2>2. f[s].head # None /\ Ends(f, s) \in Nat /\ s < Ends(f, s)
    BY <2>1, HeadType DEF Chained, Sound
  <2>3. end2 = end /\ Ends(f, s) <= end
    BY <1>1, <1>2, <1>5, <2>1 DEF Chained, Sound
  <2>4. g[s] = f[s] /\ Ends(g, s) = Ends(f, s)
    BY <1>5, <2>1 DEF Ends
  <2>5. Ends(f, s) - 1 \in Start .. MaxEnd /\ ~(Ends(f, s) - 1 < hi)
    BY <1>1, <1>2, <1>5, <2>1, <2>2, <2>3
  <2>6. g[Ends(f, s) - 1] = f[Ends(f, s) - 1]
    BY <2>5
  <2>7. Sound(g, end2, s)
    BY <2>1, <2>3, <2>4, <2>6 DEF Chained, Sound
  <2>8. Ends(f, s) \in T \cup {end2}
    BY <1>a, <1>5, <2>1, <2>2, <2>3 DEF Chained
  <2>9. ASSUME NEW t \in T, s < t PROVE Ends(f, s) <= t
    <3>1. CASE t \in S
      BY <2>1, <2>9, <3>1 DEF Chained
    <3>2. CASE t \in R
      BY <1>3, <1>5, <2>1, <2>9, <3>2
    <3> QED
      BY <1>a, <3>1, <3>2
  <2> QED
    BY <2>4, <2>7, <2>8, <2>9 DEF Chained
<1>6. ASSUME NEW r \in R PROVE Chained(g, end2, T, r)
  <2>1. /\ Sound(g, end2, r) /\ Ends(g, r) \in R \cup {hi}
        /\ \A t \in R : r < t => Ends(g, r) <= t
    OBVIOUS
  <2>2. Ends(g, r) \in Nat /\ Ends(g, r) <= hi
    <3>1. \A x \in R \cup {hi} : x \in Nat /\ x <= hi
      BY <1>3
    <3> HIDE DEF Ends
    <3> QED
      BY <2>1, <3>1
  <2>3. hi \in T \cup {end2}
    BY <1>a, <1>1
  <2>4. ASSUME NEW t \in T, r < t PROVE Ends(g, r) <= t
    <3>1. CASE t \in R
      BY <2>1, <2>4, <3>1
    <3>2. CASE t \in S /\ t \notin R
      <4>1. ~(lo <= t /\ t < hi) /\ t \in Nat
        BY <1>a, <1>1, <3>2
      <4> QED
        BY <1>3, <2>2, <2>4, <4>1
    <3> QED
      BY <1>a, <2>4, <3>1, <3>2
  <2> QED
    BY <2>1, <2>3, <2>4 DEF Chained
<1>7. AllChained(g, end2, T)
  <2> SUFFICES ASSUME NEW s \in T PROVE Chained(g, end2, T, s)
    BY DEF AllChained
  <2>1. CASE s \in R
    BY <1>6, <2>1
  <2>2. CASE s \in S /\ ~(lo <= s /\ s < hi)
    BY <1>1, <1>4, <1>5, <2>2
  <2> QED
    BY <1>a, <2>1, <2>2
<1>8. Marks(end2, T)
  <2>1. T \subseteq Start .. end2 - 1
    <3> SUFFICES ASSUME NEW t \in T PROVE t \in Start .. end2 - 1
      OBVIOUS
    <3>1. CASE t \in S
      BY <1>1, <1>2, <3>1
    <3>2. CASE t \in R
      <4>1. t \in Nat /\ lo <= t /\ t < hi
        BY <1>3, <3>2
      <4> QED
        BY <1>1, <1>2, <4>1
    <3> QED
      BY <1>a, <3>1, <3>2
  <2>2. CASE Start \in S
    <3>1. CASE lo = Start
      BY <2>1, <3>1 DEF Marks
    <3>2. CASE lo # Start
      <4>1. ~(lo <= Start)
        BY <1>1, <3>2
      <4>2. Start \in T
        BY <1>a, <2>2, <4>1
      <4> QED
        BY <2>1, <4>2 DEF Marks
    <3> QED
      BY <3>1, <3>2
  <2>3. CASE Start \notin S
    <3>1. Start = end
      BY <2>3 DEF Marks
    <3>2. lo = end
      BY <1>1, <3>1
    <3> QED
      BY <2>1, <3>1, <3>2 DEF Marks
  <2> QED
    BY <2>2, <2>3
<1> QED
  BY <1>7, <1>8 DEF T

-----------------------------------------------------------------------------
(* The units of free storage.                                              *)

UnitsOf(map) == UNION {Free(e) : e \in map}

LEMMA FreeUnit ==
    ASSUME NEW map, map \subseteq Extent, NEW a \in Nat
    PROVE  a \in UnitsOf(map) <=> \E e \in map : e.addr <= a /\ a < After(e)
<1>1. ASSUME NEW e \in map PROVE a \in Free(e) <=> e.addr <= a /\ a < After(e)
  <2>1. e.addr \in Nat /\ e.size \in Nat
    BY DEF Extent
  <2> QED
    BY <2>1 DEF Free, Units, After, PhonyAddr
<1> QED
  BY <1>1 DEF UnitsOf

(* What is clear of the map can be freed, and then is free.                *)
LEMMA FreedUnits ==
    ASSUME NEW map, map \subseteq Extent, Apart(map), NEW addr \in Nat,
           NEW size \in Nat \ {0}, \A e \in map : Clear(e, addr, size)
    PROVE  UnitsOf(map) \cup (addr .. addr + size - 1)
                \subseteq UnitsOf(rt_memfree(map, size, addr))
<1>1. ~Overflow(map, size, addr)
  <2>1. ASSUME NEW e \in Prev(map, addr) PROVE ~(After(e) > addr)
    <3>1. e \in map /\ e.addr <= addr /\ e.addr \in Nat /\ After(e) \in Nat
      BY DEF Prev, Extent, After
    <3> QED
      BY <3>1 DEF Clear
  <2>2. ASSUME NEW e \in Curr(map, addr) PROVE ~(addr + size > e.addr)
    <3>1. e \in map /\ addr < e.addr /\ e.addr \in Nat /\ e.size \in Nat
      BY DEF Curr, Extent
    <3> QED
      BY <3>1 DEF Clear, After
  <2> QED
    BY <2>1, <2>2 DEF Overflow
<1> DEFINE gone == {e \in map : After(e) = addr \/ addr + size = e.addr}
           new == rt_memfree(map, size, addr)
<1>2. PICK m \in Extent :
        /\ new = (map \ gone) \cup {m}
        /\ m.addr <= addr /\ addr + size <= After(m)
        /\ \A e \in gone : m.addr <= e.addr /\ After(e) <= After(m)
  BY <1>1, Merged
<1>3. m \in new /\ m.addr \in Nat /\ After(m) \in Nat /\ new \subseteq Extent
  BY <1>2, FreeKeepsApart DEF Extent, After
<1> HIDE DEF new
<1>4. ASSUME NEW a \in Nat, a \in UnitsOf(map) PROVE a \in UnitsOf(new)
  <2>1. PICK e \in map : e.addr <= a /\ a < After(e)
    BY <1>4, FreeUnit
  <2>2. e.addr \in Nat /\ After(e) \in Nat
    BY DEF Extent, After
  <2>3. CASE e \in gone
    <3>1. m.addr <= a /\ a < After(m)
      BY <1>2, <1>3, <2>1, <2>2, <2>3
    <3> QED
      BY <1>3, <3>1, FreeUnit
  <2>4. CASE e \notin gone
    <3>1. e \in new
      BY <1>2, <2>4
    <3> QED
      BY <1>3, <2>1, <3>1, FreeUnit
  <2> QED
    BY <2>3, <2>4
<1>5. ASSUME NEW a \in addr .. addr + size - 1 PROVE a \in UnitsOf(new)
  <2>1. a \in Nat /\ m.addr <= a /\ a < After(m)
    BY <1>2, <1>3
  <2> QED
    BY <1>3, <2>1, FreeUnit
<1>6. UnitsOf(map) \subseteq Nat
  <2>1. ASSUME NEW e \in map, NEW a \in Free(e) PROVE a \in Nat
    BY <2>1 DEF Free, Units, Extent
  <2> QED
    BY <2>1 DEF UnitsOf
<1> QED
  BY <1>4, <1>5, <1>6 DEF new

(* What the directory and the map say fits the layout.                     *)
Fits(X) ==
    /\ dbi_freep \subseteq Extent /\ Apart(dbi_freep) /\ dir \in [Names -> Place]
    /\ \A n \in Names \ X : dir[n].addr # PhonyAddr =>
            \A e \in dbi_freep : Clear(e, dir[n].addr, dir[n].len)

(* An object that reaches into a free extent is free, and within it.       *)
LEMMA FreeTile ==
    ASSUME NEW S, NEW X, file \in File, file_end \in Start .. MaxEnd + 1,
           Marks(file_end, S), AllChained(file, file_end, S),
           Match(S, file_end, X, Start, Start), Fits(X),
           NEW e \in dbi_freep, NEW s \in S, NEW a \in Nat,
           s <= a, a < Ends(file, s), e.addr <= a, a < After(e)
    PROVE  /\ Named(file, s, None) /\ e.addr <= s /\ Ends(file, s) <= After(e)
<1>1. /\ s \in Start .. MaxEnd /\ s \in Nat /\ s < file_end
      /\ file[s].head # None /\ file_end \in Nat
  BY MarksType DEF AllChained, Chained, Sound
<1>2. /\ file[s].head.len \in Nat \ {0} /\ file[s].head.name \in Names \cup {None}
      /\ Ends(file, s) \in Nat /\ s < Ends(file, s)
  BY <1>1, HeadType
<1>3. \A f \in dbi_freep : f.addr \in Nat /\ After(f) \in Nat /\ f.size \in Nat
  BY DEF Fits, Extent, After
<1>4. file[s].head.name = None
  <2>1. ASSUME NEW n \in Names, file[s].head.name = n PROVE FALSE
    <3>1. Named(file, s, n)
      BY <1>1, <2>1 DEF Named
    <3>2. n \notin X
      BY <1>1, <3>1 DEF Match, Start
    <3>3. dir[n].addr = s
      BY <1>1, <3>1, <3>2 DEF Match
    <3>4. dir[n] # Absent
      BY <1>1, <3>3 DEF Absent, PhonyAddr
    <3>5. file[s].head = [name |-> n, len |-> dir[n].len]
      BY <3>2, <3>3, <3>4 DEF Match
    <3>6. Ends(file, s) = dir[n].addr + dir[n].len
      BY <3>3, <3>5 DEF Ends
    <3>7. Clear(e, dir[n].addr, dir[n].len)
      BY <1>1, <3>2, <3>3 DEF Fits, PhonyAddr
    <3> QED
      BY <1>1, <1>2, <1>3, <3>3, <3>6, <3>7 DEF Clear
  <2> QED
    BY <1>2, <2>1
<1>5. Named(file, s, None)
  BY <1>1, <1>4 DEF Named
<1>6. s .. Ends(file, s) - 1 \subseteq FreeUnits
  <2>1. ~(Start <= s /\ s < Start)
    BY <1>1 DEF Start
  <2> QED
    BY <1>1, <1>5, <2>1 DEF Match
<1>7. ASSUME NEW b \in Nat, s <= b, b < Ends(file, s)
      PROVE  \E f \in dbi_freep : f.addr <= b /\ b < After(f)
  <2>1. b \in s .. Ends(file, s) - 1
    BY <1>1, <1>2, <1>7
  <2>2. b \in UnitsOf(dbi_freep) /\ dbi_freep \subseteq Extent
    BY <1>6, <2>1 DEF FreeUnits, UnitsOf, Fits
  <2> QED
    BY <2>2, FreeUnit
<1>8. e.addr <= s
  <2> SUFFICES ASSUME s < e.addr PROVE FALSE
    BY <1>1, <1>3
  <2>1. e.addr - 1 \in Nat /\ s <= e.addr - 1 /\ e.addr - 1 < Ends(file, s)
    BY <1>1, <1>2, <1>3
  <2>2. PICK f \in dbi_freep : f.addr <= e.addr - 1 /\ e.addr - 1 < After(f)
    BY <1>7, <2>1
  <2>3. e = f \/ After(e) < f.addr \/ After(f) < e.addr
    BY DEF Fits, Apart
  <2> QED
    BY <1>3, <2>2, <2>3
<1>9. Ends(file, s) <= After(e)
  <2> SUFFICES ASSUME After(e) < Ends(file, s) PROVE FALSE
    BY <1>2, <1>3
  <2>1. After(e) \in Nat /\ s <= After(e) /\ After(e) < Ends(file, s)
    BY <1>1, <1>2, <1>3
  <2>2. PICK f \in dbi_freep : f.addr <= After(e) /\ After(e) < After(f)
    BY <1>7, <2>1
  <2>3. e = f \/ After(e) < f.addr \/ After(f) < e.addr
    BY DEF Fits, Apart
  <2> QED
    BY <1>3, <2>2, <2>3
<1> QED
  BY <1>5, <1>8, <1>9

(* A free extent is a row of free objects.                                 *)
LEMMA FreeBounds ==
    ASSUME NEW S, NEW X, file \in File, file_end \in Start .. MaxEnd + 1,
           Marks(file_end, S), AllChained(file, file_end, S),
           Match(S, file_end, X, Start, Start), Fits(X),
           NEW e \in dbi_freep, Start <= e.addr, After(e) <= file_end
    PROVE  /\ e.addr \in S /\ After(e) \in S \cup {file_end}
           /\ \A s \in S : (e.addr <= s /\ s < After(e)) => Named(file, s, None)
<1>1. e.addr \in Nat /\ After(e) \in Nat /\ e.addr < After(e)
  BY DEF Fits, Extent, After
<1>2. file_end \in Nat /\ Start \in Nat /\ \A s \in S : s \in Nat /\ s \in Start .. MaxEnd
  BY MarksType
<1>3. \A s \in S : Ends(file, s) \in Nat /\ s < Ends(file, s)
  BY <1>2, HeadType DEF AllChained, Chained, Sound
<1>4. e.addr \in S
  <2>1. e.addr \in Start .. file_end - 1
    BY <1>1, <1>2
  <2>2. PICK s \in S : s <= e.addr /\ e.addr < Ends(file, s)
    BY <2>1, Cover
  <2>3. e.addr <= s
    BY <1>1, <2>2, FreeTile
  <2> QED
    BY <1>1, <1>2, <2>2, <2>3
<1>5. ASSUME After(e) # file_end PROVE After(e) \in S
  <2>1. After(e) \in Start .. file_end - 1
    BY <1>1, <1>2, <1>5
  <2>2. PICK s \in S : s <= After(e) /\ After(e) < Ends(file, s)
    BY <2>1, Cover
  <2>3. CASE s = After(e)
    BY <2>3
  <2>4. CASE s < After(e)
    <3> DEFINE a == After(e) - 1
    <3>1. a \in Nat /\ s <= a /\ a < Ends(file, s) /\ e.addr <= a /\ a < After(e)
      BY <1>1, <1>2, <1>3, <2>2, <2>4
    <3> HIDE DEF a
    <3>2. Ends(file, s) <= After(e)
      BY <3>1, FreeTile
    <3> QED
      BY <1>1, <1>3, <2>2, <3>2
  <2> QED
    BY <1>1, <1>2, <2>2, <2>3, <2>4
<1>6. ASSUME NEW s \in S, e.addr <= s, s < After(e) PROVE Named(file, s, None)
  BY <1>2, <1>3, <1>6, FreeTile
<1> QED
  BY <1>4, <1>5, <1>6

-----------------------------------------------------------------------------
(* What a write changes, when k units of it are written.                   *)

Trailing == pc # "write" /\ dp.len > Large /\ half

(* The header, and the unit the write begins with.                         *)
FirstHead ==
    [name |-> IF pc = "write" THEN op.content.name ELSE None, len |-> dp.len]

LEMMA DataShape ==
    ASSUME IInv, pc \in Writes
    PROVE  \E lo, hi \in Nat :
             /\ dp.addr <= lo /\ lo <= hi /\ hi < dp.addr + dp.len
             /\ DOMAIN Data = lo .. hi
             /\ ~Trailing => lo = dp.addr /\ Data[lo].head = FirstHead
             /\ ~Trailing => \A a \in lo .. hi : a # lo => Data[a].head = None
             /\ Trailing => lo = hi /\ hi = dp.addr + dp.len - 1
                                /\ Data[lo].head = file[lo].head
             /\ hi = dp.addr + dp.len - 1 => Data[hi].tail
             /\ pc = "write" \/ dp.len <= Large \/ half => hi = dp.addr + dp.len - 1
             /\ pc = "write" => Data = Object(op.content, dp.addr)
<1>1. /\ dp.addr \in Nat /\ Start <= dp.addr
      /\ dp.len \in Nat \ {0} /\ dp.addr + dp.len <= MaxEnd + 1
      /\ pc = "write" => op.content \in Content /\ dp.len = Length
  BY WritesInside
<1>2. MaxEnd \in Nat /\ Large \in Nat /\ 2 <= Large
  BY ConstantsAssumption
<1>3. file \in [Start .. MaxEnd -> Cell]
  BY DEF IInv, TypeOK
<1> DEFINE x == dp.addr
           y == dp.addr + dp.len - 1
<1>4. x \in Nat /\ y \in Nat /\ x <= y /\ y < dp.addr + dp.len
  BY <1>1
<1>5. CASE pc = "write"
  <2>1. op.content.len = dp.len /\ Data = Object(op.content, dp.addr) /\ ~Trailing
    BY <1>1, <1>5 DEF Length, Data, Trailing
  <2>2. DOMAIN Data = x .. y
    BY <2>1 DEF Object
  <2>3. ASSUME NEW a \in x .. y
        PROVE  /\ Data[a].head = IF a = x THEN FirstHead ELSE None
               /\ a = y => Data[a].tail
    BY <1>5, <2>1 DEF Object, FirstHead
  <2> HIDE DEF x, y
  <2>4. Data[x].head = FirstHead /\ Data[y].tail
    <3>1. x \in x .. y /\ y \in x .. y
      BY <1>4
    <3> QED
      BY <2>3, <3>1
  <2>5. \A a \in x .. y : a # x => Data[a].head = None
    BY <2>3
  <2> QED
    BY <1>4, <2>1, <2>2, <2>4, <2>5 DEF x, y
<1>6. CASE pc # "write" /\ dp.len <= Large
  <2>1. Data = FreeObject(dp.addr, dp.len) /\ ~Trailing
    BY <1>1, <1>2, <1>6 DEF Data, Trailing
  <2>2. DOMAIN Data = x .. y
    BY <2>1 DEF FreeObject
  <2>3. ASSUME NEW a \in x .. y
        PROVE  /\ Data[a].head = IF a = x THEN FirstHead ELSE None
               /\ a = y => Data[a].tail
    BY <1>6, <2>1 DEF FreeObject, FirstHead
  <2> HIDE DEF x, y
  <2>4. Data[x].head = FirstHead /\ Data[y].tail
    <3>1. x \in x .. y /\ y \in x .. y
      BY <1>4
    <3> QED
      BY <2>3, <3>1
  <2>5. \A a \in x .. y : a # x => Data[a].head = None
    BY <2>3
  <2> QED
    BY <1>4, <1>6, <2>1, <2>2, <2>4, <2>5 DEF x, y
<1>7. CASE pc # "write" /\ ~(dp.len <= Large) /\ ~half
  <2>1. Data = FreeHeader(dp.addr, dp.len) /\ ~Trailing
    BY <1>7 DEF Data, Trailing
  <2>2. DOMAIN Data = x .. x + 1
    BY <2>1 DEF FreeHeader
  <2>3. ASSUME NEW a \in x .. x + 1
        PROVE  Data[a].head = IF a = x THEN FirstHead ELSE None
    BY <1>7, <2>1 DEF FreeHeader, FirstHead
  <2>4. Data[x].head = FirstHead
    <3>1. x \in x .. x + 1
      BY <1>4
    <3> HIDE DEF x
    <3> QED
      BY <2>3, <3>1
  <2>5. \A a \in x .. x + 1 : a # x => Data[a].head = None
    BY <2>3
  <2>6. x + 1 < y /\ x + 1 \in Nat /\ x <= x + 1 /\ x + 1 < dp.addr + dp.len
    BY <1>1, <1>2, <1>7
  <2>7. x + 1 # y
    BY <1>4, <2>6
  <2> HIDE DEF x, y
  <2> QED
    BY <1>4, <1>7, <2>1, <2>2, <2>4, <2>5, <2>6, <2>7 DEF x, y
<1>8. CASE pc # "write" /\ ~(dp.len <= Large) /\ half
  <2>1. Data = [a \in {y} |-> [file[a] EXCEPT !.tail = TRUE]] /\ Trailing
    BY <1>1, <1>2, <1>8 DEF Data, FreeTrailer, Trailing
  <2>2. y .. y = {y}
    BY <1>4
  <2>3. y \in Start .. MaxEnd
    BY <1>1, <1>2 DEF Start
  <2>4. Data[y] = [file[y] EXCEPT !.tail = TRUE] /\ DOMAIN Data = {y}
    BY <2>1
  <2>5. Data[y].tail /\ Data[y].head = file[y].head
    BY <1>3, <2>3, <2>4 DEF Cell
  <2>6. DOMAIN Data = y .. y
    BY <2>2, <2>4
  <2>7. y <= y
    BY <1>4
  <2> HIDE DEF x, y
  <2> QED
    BY <1>4, <1>8, <2>1, <2>5, <2>6, <2>7 DEF x, y
<1> QED
  BY <1>5, <1>6, <1>7, <1>8

LEMMA WriteEffect ==
    ASSUME IInv, pc \in Writes, NEW k \in 0 .. Whole, Written(k),
           NEW lo, lo = dp.addr, NEW hi, hi = dp.addr + dp.len
    PROVE  /\ \A a \in Start .. MaxEnd : ~(lo <= a /\ a < hi) => file'[a] = file[a]
           /\ k = 0 => file' = file /\ file_end' = file_end
           /\ (k > 0 /\ ~Trailing) => file'[lo].head = FirstHead
           /\ Trailing => \A a \in Start .. MaxEnd : file'[a].head = file[a].head
           /\ \A a \in Start .. MaxEnd : a # lo => file'[a].head \in {None, file[a].head}
           /\ file[hi - 1].tail => file'[hi - 1].tail
           /\ (k = Whole /\ (pc = "write" \/ dp.len <= Large \/ half)) => file'[hi - 1].tail
           /\ (k = Whole /\ pc = "write") =>
                    \A a \in lo .. hi - 1 : file'[a] = Object(op.content, lo)[a]
           /\ hi <= file_end => file_end' = file_end
           /\ (pc = "write" /\ lo = file_end) =>
                    file_end' = lo + k /\ (k \in Partly => lo + k < hi)
                                       /\ (k = Whole => lo + k = hi)
           /\ file' \in File /\ file_end' \in Start .. MaxEnd + 1
           /\ k \in Nat /\ (k \in Partly /\ Trailing => k = 0)
           /\ Whole > 0
<1>1. /\ dp.addr \in Nat /\ Start <= dp.addr
      /\ dp.len \in Nat \ {0} /\ dp.addr + dp.len <= MaxEnd + 1
      /\ MaxEnd \in Nat /\ lo \in Nat /\ hi \in Nat /\ lo < hi /\ hi - 1 \in Nat
  BY WritesInside, ConstantsAssumption
<1>a. dp.addr = lo /\ dp.addr + dp.len = hi /\ dp.addr + dp.len - 1 = hi - 1
  BY <1>1
<1>2. PICK x \in Nat, y \in Nat :
             /\ lo <= x /\ x <= y /\ y < hi
             /\ DOMAIN Data = x .. y
             /\ ~Trailing => x = lo /\ Data[x].head = FirstHead
             /\ ~Trailing => \A a \in x .. y : a # x => Data[a].head = None
             /\ Trailing => x = y /\ y = hi - 1 /\ Data[x].head = file[x].head
             /\ y = hi - 1 => Data[y].tail
             /\ pc = "write" \/ dp.len <= Large \/ half => y = hi - 1
             /\ pc = "write" => Data = Object(op.content, lo)
  BY <1>a, DataShape, ZenonT(60)
<1>3. From = x
  <2>1. x \in DOMAIN Data /\ \A b \in DOMAIN Data : x <= b
    BY <1>2
  <2>2. From \in DOMAIN Data /\ \A b \in DOMAIN Data : From <= b
    BY <2>1, Zenon DEF From
  <2>3. From \in x .. y /\ From <= x
    BY <1>2, <2>1, <2>2, Zenon
  <2> QED
    BY <2>3
<1>4. Whole = y - x + 1 /\ Whole \in Nat /\ Whole > 0
  <2>1. Cardinality(x .. y) = y - x + 1
    BY <1>2, FS_Interval
  <2> QED
    BY <1>2, <2>1 DEF Whole
<1>5. k \in Nat /\ x + k <= y + 1 /\ (k \in Partly => x + k < y + 1) /\ (k = Whole => x + k = y + 1)
  BY <1>4 DEF Partly
<1>6. /\ file' \in File /\ file_end' \in Start .. MaxEnd + 1
  BY WrittenType DEF DiskOK, File
<1>7. file \in File /\ file_end \in Start .. MaxEnd + 1 /\ file_end \in Nat
  BY DEF IInv, TypeOK, File, Start
<1>8. file_end' = IF k > 0 /\ x + k > file_end THEN x + k ELSE file_end
  BY <1>3 DEF Written
<1>9. ASSUME NEW a \in Start .. MaxEnd
      PROVE  file'[a] = IF x <= a /\ a < x + k THEN Data[a] ELSE file[a]
  <2>1. file' = [c \in Start .. MaxEnd |->
                    IF c \in {b \in x .. y : b < x + k} THEN Data[c] ELSE file[c]]
    BY <1>2, <1>3, <1>7 DEF Written, File
  <2>2. a \in {b \in x .. y : b < x + k} <=> x <= a /\ a < x + k
    BY <1>5 DEF Start
  <2> QED
    BY <2>1, <2>2
<1>10. lo \in Start .. MaxEnd /\ hi - 1 \in Start .. MaxEnd /\ x \in Start .. MaxEnd
  BY <1>1, <1>2 DEF Start
<1>11. \A a \in Start .. MaxEnd : ~(lo <= a /\ a < hi) => file'[a] = file[a]
  BY <1>1, <1>2, <1>5, <1>9 DEF Start
<1>12. k = 0 => file' = file /\ file_end' = file_end
  <2> SUFFICES ASSUME k = 0 PROVE file' = file /\ file_end' = file_end
    OBVIOUS
  <2>1. \A a \in Start .. MaxEnd : file'[a] = file[a]
    BY <1>2, <1>9 DEF Start
  <2>2. file' = [a \in Start .. MaxEnd |-> file'[a]] /\ file = [a \in Start .. MaxEnd |-> file[a]]
    BY <1>6, <1>7 DEF File
  <2>3. file' = file
    BY <2>1, <2>2, Zenon
  <2> QED
    BY <1>8, <2>3
<1>13. (k > 0 /\ ~Trailing) => file'[lo].head = FirstHead
  BY <1>2, <1>5, <1>9, <1>10
<1>14. ASSUME Trailing, NEW a \in Start .. MaxEnd PROVE file'[a].head = file[a].head
  <2>1. CASE a = x
    BY <1>2, <1>9, <1>14, <2>1
  <2>2. CASE a # x
    BY <1>2, <1>5, <1>9, <1>14, <2>2 DEF Start
  <2> QED
    BY <2>1, <2>2
<1>15. ASSUME NEW a \in Start .. MaxEnd, a # lo PROVE file'[a].head \in {None, file[a].head}
  <2>1. CASE Trailing
    BY <1>14, <2>1
  <2>2. CASE ~Trailing /\ x <= a /\ a < x + k
    <3>1. a \in x .. y /\ a # x
      BY <1>2, <1>5, <1>15, <2>2 DEF Start
    <3> QED
      BY <1>2, <1>9, <2>2, <3>1
  <2>3. CASE ~(x <= a /\ a < x + k)
    BY <1>9, <2>3
  <2> QED
    BY <2>1, <2>2, <2>3
<1>16. file[hi - 1].tail => file'[hi - 1].tail
  <2>1. CASE x <= hi - 1 /\ hi - 1 < x + k
    <3>1. y = hi - 1
      BY <1>1, <1>2, <1>5, <2>1
    <3> QED
      BY <1>2, <1>9, <1>10, <2>1, <3>1
  <2>2. CASE ~(x <= hi - 1 /\ hi - 1 < x + k)
    BY <1>9, <1>10, <2>2
  <2> QED
    BY <2>1, <2>2
<1>17. ASSUME k = Whole, pc = "write" \/ dp.len <= Large \/ half PROVE file'[hi - 1].tail
  <2>1. y = hi - 1 /\ x <= hi - 1 /\ hi - 1 < x + k
    BY <1>1, <1>2, <1>5, <1>17
  <2> QED
    BY <1>2, <1>9, <1>10, <2>1
<1>18. ASSUME k = Whole, pc = "write", NEW a \in lo .. hi - 1
       PROVE  file'[a] = Object(op.content, lo)[a]
  <2>1. y = hi - 1 /\ x = lo /\ a \in Start .. MaxEnd
    BY <1>1, <1>2, <1>18 DEF Trailing, Start
  <2> QED
    BY <1>1, <1>2, <1>5, <1>9, <1>18, <2>1
<1>19. hi <= file_end => file_end' = file_end
  BY <1>1, <1>2, <1>5, <1>7, <1>8
<1>20. ASSUME pc = "write", lo = file_end
       PROVE  file_end' = lo + k /\ (k \in Partly => lo + k < hi) /\ (k = Whole => lo + k = hi)
  <2>1. x = lo /\ y = hi - 1
    BY <1>2, <1>20 DEF Trailing
  <2>2. file_end' = lo + k
    <3>1. CASE k > 0
      BY <1>1, <1>5, <1>7, <1>8, <1>20, <2>1, <3>1
    <3>2. CASE k = 0
      BY <1>1, <1>7, <1>8, <1>20, <3>2
    <3> QED
      BY <1>5, <3>1, <3>2
  <2> QED
    BY <1>1, <1>5, <2>1, <2>2
<1>21. k \in Partly /\ Trailing => k = 0
  BY <1>2, <1>5
<1> QED
  BY <1>4, <1>5, <1>6, <1>11, <1>12, <1>13, <1>14, <1>15, <1>16, <1>17, <1>18, <1>19, <1>20,
     <1>21

-----------------------------------------------------------------------------
(* The storage an operation is at work on, and the objects elsewhere.      *)

Region(lo, hi, m) == lo = RegionLo /\ hi = RegionHi /\ m = op.name

LEMMA RegionFacts ==
    ASSUME IInv, pc \in Writes, NEW S, Tiling(S),
           NEW lo, lo = RegionLo, NEW hi, hi = RegionHi
    PROVE  /\ lo \in Nat /\ hi \in Nat /\ Start <= lo /\ lo < hi /\ hi <= MaxEnd + 1
           /\ lo <= dp.addr /\ dp.addr + dp.len <= hi
           /\ torn = {} /\ Busy /\ Match(S, file_end, {op.name}, lo, hi) /\ Inside(S, lo, hi)
           /\ \A s \in S : ~(lo <= s /\ s < hi) => Chained(file, file_end, S, s)
           /\ Extending => lo = file_end /\ dbi_eof = hi
           /\ ~Extending => /\ lo \in S /\ hi \in S \cup {file_end} /\ hi <= file_end
                            /\ dbi_eof = file_end
           /\ pc \in {"zap", "write", "delete"} => lo = dp.addr /\ hi = dp.addr + dp.len
           /\ pc \in {"front", "back"} => lo = op.addr /\ hi = lo + op.len
           /\ pc = "surplus" => dp.addr = lo + Length /\ hi = dp.addr + dp.len
           /\ pc = "erase" => lo = dp.addr /\ dp.len = Length /\ hi = Ends(file, lo + Length)
           /\ op.name \in Names
<1>1. /\ dp.addr \in Nat /\ Start <= dp.addr /\ dp.len \in Nat \ {0}
      /\ dp.addr + dp.len <= MaxEnd + 1 /\ op.name \in Names /\ MaxEnd \in Nat
  BY WritesInside, ConstantsAssumption
<1>2. Busy /\ (pc # "delete" => Length \in Nat \ {0}) /\ op \in Request
  BY BusyFacts
<1>3. /\ torn = {} /\ Match(S, file_end, {op.name}, lo, hi) /\ Inside(S, lo, hi)
      /\ \A s \in S : ~(lo <= s /\ s < hi) => Chained(file, file_end, S, s)
  BY <1>2 DEF Tiling, Working
<1>4. /\ file_end \in Nat /\ file_end <= MaxEnd + 1 /\ Start \in Nat
      /\ \A s \in S : s \in Nat /\ Start <= s /\ s < file_end
  <2>1. Marks(file_end, S) /\ file_end \in Start .. MaxEnd + 1
    BY DEF Tiling, IInv, TypeOK
  <2> QED
    BY <2>1, MarksType
<1>5. lo < hi
  BY <1>3 DEF Inside
<1>6. CASE pc \in {"zap", "write", "delete"}
  <2>1. lo = dp.addr /\ hi = dp.addr + dp.len
    BY <1>6 DEF RegionLo, RegionHi
  <2>2. Extending => lo = file_end /\ dbi_eof = hi
    BY <1>3, <1>4, <2>1 DEF Inside, Extending
  <2>3. ~Extending => /\ lo \in S /\ hi \in S \cup {file_end} /\ hi <= file_end
                      /\ dbi_eof = file_end
    BY <1>1, <1>3, <1>4 DEF Inside
  <2> QED
    BY <1>1, <1>2, <1>3, <1>5, <1>6, <2>1, <2>2, <2>3
<1>7. CASE pc \in {"front", "back", "surplus", "erase"}
  <2>1. ~Extending
    BY <1>7 DEF Extending
  <2>2. lo \in S /\ hi \in S \cup {file_end} /\ hi <= file_end /\ dbi_eof = file_end
    BY <1>3, <1>4, <2>1 DEF Inside
  <2>3. lo \in Nat /\ hi \in Nat /\ Start <= lo /\ hi <= MaxEnd + 1
    <3>1. lo \in Nat /\ Start <= lo
      BY <1>4, <2>2
    <3>2. hi \in Nat
      BY <1>4, <2>2
    <3> QED
      BY <1>1, <1>4, <2>2, <3>1, <3>2
  <2>4. CASE pc \in {"front", "back"}
    <3>1. lo = op.addr /\ hi = op.addr + op.len
      BY <2>4 DEF RegionLo, RegionHi
    <3>2. /\ Length < op.len /\ op.len \in Nat
          /\ \/ dp.addr = op.addr /\ dp.len = Length
             \/ dp.addr = op.addr + Length /\ dp.len = op.len - Length
      BY <1>2, <2>4 DEF IInv, Stage, Request
    <3>3. lo <= dp.addr /\ dp.addr + dp.len <= hi
      BY <1>2, <2>3, <2>4, <3>1, <3>2
    <3> QED
      BY <1>1, <1>2, <1>3, <1>5, <2>1, <2>2, <2>3, <2>4, <3>1, <3>3
  <2>5. CASE pc = "surplus"
    <3>1. lo = dp.addr - Length /\ hi = dp.addr + dp.len
      BY <2>5 DEF RegionLo, RegionHi
    <3>2. dp.addr = lo + Length /\ lo <= dp.addr /\ dp.addr + dp.len <= hi
      BY <1>1, <1>2, <2>3, <2>5, <3>1
    <3> QED
      BY <1>1, <1>2, <1>3, <1>5, <2>1, <2>2, <2>3, <2>5, <3>1, <3>2
  <2>6. CASE pc = "erase"
    <3>1. lo = dp.addr /\ hi = Ends(file, dp.addr + dp.len) /\ dp.len = Length
      BY <2>6 DEF RegionLo, RegionHi, IInv, Stage
    <3>2. lo + Length \in S /\ Ends(file, lo + Length) = hi /\ file[lo + Length].head # None
      BY <1>3, <2>6 DEF Inside, Named
    <3>3. lo + Length \in Start .. MaxEnd
      BY <1>1, <1>4, <3>2 DEF Start
    <3>4. lo + Length < hi
      <4>1. file \in File
        BY DEF IInv, TypeOK, File
      <4> QED
        BY <3>2, <3>3, <4>1, HeadType
    <3>5. lo <= dp.addr /\ dp.addr + dp.len <= hi
      BY <1>1, <2>3, <3>1, <3>4
    <3> QED
      BY <1>1, <1>2, <1>3, <1>5, <2>1, <2>2, <2>3, <2>6, <3>1, <3>2, <3>5
  <2> QED
    BY <1>7, <2>4, <2>5, <2>6
<1> QED
  BY <1>6, <1>7 DEF Writes

LEMMA HeadNotNone ==
    ASSUME NEW n \in Names \cup {None}, NEW l \in Nat \ {0}
    PROVE  [name |-> n, len |-> l] # None
<1>1. [name |-> n, len |-> l] \in Head
  BY DEF Head
<1> QED
  BY <1>1, NoneAssumption

(* Nobody else's storage is worked on.                                     *)
LEMMA RegionClear ==
    ASSUME IInv, pc \in Writes, NEW S, Tiling(S),
           NEW lo, lo = RegionLo, NEW hi, hi = RegionHi,
           NEW n \in Names, n # op.name, dir[n].addr # PhonyAddr
    PROVE  \A a \in lo .. hi - 1 : ~(dir[n].addr <= a /\ a < dir[n].addr + dir[n].len)
<1> SUFFICES ASSUME NEW a \in lo .. hi - 1,
                    dir[n].addr <= a, a < dir[n].addr + dir[n].len
             PROVE  FALSE
  OBVIOUS
<1>1. /\ lo \in Nat /\ hi \in Nat /\ lo <= dp.addr /\ dp.addr + dp.len <= hi
      /\ Inside(S, lo, hi)
      /\ pc \in {"zap", "write", "delete"} => lo = dp.addr /\ hi = dp.addr + dp.len
      /\ pc \in {"front", "back"} => lo = op.addr /\ hi = lo + op.len
      /\ pc = "surplus" => dp.addr = lo + Length /\ hi = dp.addr + dp.len
      /\ pc = "erase" => lo = dp.addr /\ dp.len = Length
  BY RegionFacts
<1>2. /\ dir \in [Names -> Place] /\ dbi_freep \subseteq Extent
      /\ Claims = [dir EXCEPT ![op.name] = OpClaim] /\ Claims[op.name] = OpClaim
      /\ Layout(dbi_freep, Claims, dbi_eof) /\ op.name \in Names /\ op \in Request
      /\ dp \in Place /\ dp.addr # PhonyAddr
      /\ pc # "delete" => Length \in Nat \ {0}
  BY BusyFacts
<1>3. dir[n].addr \in Nat /\ dir[n].len \in Nat /\ Claims[n] = dir[n] /\ a \in Nat
      /\ dp.addr \in Nat /\ dp.len \in Nat
  BY <1>1, <1>2 DEF Place
<1>4. \A e \in dbi_freep : Clear(e, dir[n].addr, dir[n].len)
  BY <1>2, <1>3 DEF Layout
<1>5. ASSUME a \in FreeUnits PROVE FALSE
  <2>1. PICK e \in dbi_freep : e.addr <= a /\ a < After(e)
    BY <1>2, <1>3, <1>5, FreeUnit DEF FreeUnits, UnitsOf
  <2>2. e.addr \in Nat /\ After(e) \in Nat
    BY <1>2 DEF Extent, After
  <2> QED
    BY <1>3, <1>4, <2>1, <2>2 DEF Clear
<1>6. ASSUME OpClaim.addr \in Nat, OpClaim.len \in Nat,
             OpClaim.addr <= a, a < OpClaim.addr + OpClaim.len
      PROVE  FALSE
  <2>1. Disjoint(Claims[n], Claims[op.name])
    BY <1>2, <1>3, <1>6 DEF Layout, PhonyAddr
  <2> QED
    BY <1>2, <1>3, <1>6, <2>1 DEF Disjoint
<1>7. CASE pc = "zap"
  BY <1>1, <1>5, <1>7 DEF Inside
<1>8. CASE pc \in {"write", "delete"}
  <2>1. OpClaim = dp
    BY <1>8 DEF OpClaim
  <2> QED
    BY <1>1, <1>3, <1>6, <1>8, <2>1
<1>9. CASE pc \in {"front", "back"}
  <2>1. OpClaim.addr = lo /\ OpClaim.len = op.len /\ op.len \in Nat
    BY <1>1, <1>2, <1>9 DEF OpClaim, Request
  <2> QED
    BY <1>1, <1>3, <1>6, <1>9, <2>1
<1>10. CASE pc = "surplus"
  <2>1. OpClaim.addr = dp.addr - Length /\ OpClaim.len = Length + dp.len
    BY <1>10 DEF OpClaim
  <2>2. OpClaim.addr = lo /\ OpClaim.addr + OpClaim.len = hi /\ OpClaim.len \in Nat
    BY <1>1, <1>2, <1>3, <1>10, <2>1
  <2> QED
    BY <1>1, <1>3, <1>6, <2>2
<1>11. CASE pc = "erase"
  <2>1. OpClaim = dp
    BY <1>11 DEF OpClaim
  <2>2. CASE a < dp.addr + dp.len
    BY <1>1, <1>3, <1>6, <1>11, <2>1, <2>2
  <2>3. CASE ~(a < dp.addr + dp.len)
    <3>1. a \in dp.addr + dp.len .. hi - 1
      BY <1>1, <1>3, <2>3
    <3> QED
      BY <1>1, <1>5, <1>11, <3>1 DEF Inside
  <2> QED
    BY <2>2, <2>3
<1> QED
  BY <1>7, <1>8, <1>9, <1>10, <1>11 DEF Writes

Settled(m) == Names \ (lost \cup {m})

(* Whatever becomes of that storage, the objects elsewhere stay.           *)
Elsewhere(S, T, lo, hi, m) ==
    /\ Region(lo, hi, m) /\ Tiling(S)
    /\ file' \in File /\ file_end' \in Start .. MaxEnd + 1 /\ file_end <= file_end'
    /\ \A a \in Start .. MaxEnd : ~(lo <= a /\ a < hi) => file'[a] = file[a]
    /\ Outside(S, lo, hi) \subseteq T
    /\ \A t \in T : \/ t \in S /\ ~(lo <= t /\ t < hi)
                    \/ /\ lo <= t /\ t < hi
                       /\ \A n \in Names : Named(file', t, n) => n = m /\ t = lo

LEMMA Others ==
    ASSUME IInv, pc \in Writes, NEW S, NEW T, NEW lo, NEW hi, NEW m,
           Elsewhere(S, T, lo, hi, m)
    PROVE  /\ Unique(file', T)
           /\ Kept(file', file_end', T, Settled(m))
           /\ ((\A n \in Names \ {m} : dir'[n] = dir[n]) /\ FreeUnits \subseteq FreeUnits') =>
                    Match(T, file_end, {m}, lo, hi)'
<1> USE DEF Elsewhere
<1>a. lo = RegionLo /\ hi = RegionHi /\ m = op.name
  BY DEF Region
<1>1. /\ lo \in Nat /\ hi \in Nat /\ Start <= lo /\ lo < hi
      /\ Match(S, file_end, {m}, lo, hi) /\ m \in Names
  BY <1>a, RegionFacts
<1>2. /\ file_end \in Nat /\ MaxEnd \in Nat /\ Start \in Nat /\ file_end' \in Nat
      /\ \A s \in S : s \in Start .. MaxEnd /\ s \in Nat /\ Start <= s /\ s < file_end
      /\ file_end <= MaxEnd + 1
  <2>1. Marks(file_end, S) /\ file_end \in Start .. MaxEnd + 1
    BY DEF Tiling, IInv, TypeOK
  <2> QED
    BY <2>1, MarksType DEF Start
<1>3. file \in File /\ dir \in [Names -> Place]
  BY DEF IInv, TypeOK, File, Place
<1>4. Unique(file, S) /\ Kept(file, file_end, S, Settled(m))
  <2>1. Busy
    BY BusyFacts
  <2> QED
    BY <1>a, <2>1 DEF Tiling, Settled
<1>5. \A s \in S : ~(lo <= s /\ s < hi) => file'[s] = file[s] /\ s \in T
  BY <1>2 DEF Outside
<1>6. ASSUME NEW t \in T, NEW n \in Names, n # m, Named(file', t, n)
      PROVE  t \in S /\ ~(lo <= t /\ t < hi) /\ Named(file, t, n)
  BY <1>5, <1>6 DEF Named
<1>7. ASSUME NEW t \in T, Named(file', t, m)
      PROVE  t = lo
  <2>1. CASE t \in S /\ ~(lo <= t /\ t < hi)
    <3>1. Named(file, t, m)
      BY <1>5, <1>7, <2>1 DEF Named
    <3> QED
      BY <1>1, <2>1, <3>1 DEF Match
  <2>2. CASE ~(t \in S /\ ~(lo <= t /\ t < hi))
    BY <1>1, <1>7, <2>2
  <2> QED
    BY <2>1, <2>2
<1>8. Unique(file', T)
  <2> SUFFICES ASSUME NEW s \in T, NEW t \in T, NEW n \in Names,
                      Named(file', s, n), Named(file', t, n)
               PROVE  s = t
    BY DEF Unique
  <2>1. CASE n = m
    BY <1>7, <2>1
  <2>2. CASE n # m
    BY <1>4, <1>6, <2>2 DEF Unique
  <2> QED
    BY <2>1, <2>2
(* Where another object is.                                                *)
<1>9. ASSUME NEW n \in Names, n # m, NEW s \in S, Named(file, s, n)
      PROVE  /\ ~(lo <= s /\ s < hi) /\ dir[n].addr = s
             /\ file[s].head = [name |-> n, len |-> dir[n].len]
             /\ \A a \in s .. s + dir[n].len - 1 :
                    ~(lo <= a /\ a < hi)
  <2>1. dir[n].addr = s
    BY <1>1, <1>2, <1>9 DEF Match
  <2>2. dir[n].addr # PhonyAddr /\ dir[n] # Absent
    BY <1>2, <2>1 DEF Absent, PhonyAddr
  <2>3. file[s].head = [name |-> n, len |-> dir[n].len]
    BY <1>1, <1>9, <2>1, <2>2 DEF Match
  <2>4. dir[n].len \in Nat
    BY <1>3 DEF Place
  <2>5. \A a \in lo .. hi - 1 : ~(s <= a /\ a < s + dir[n].len)
    BY <1>a, <1>9, <2>1, <2>2, RegionClear
  <2>6. \A a \in s .. s + dir[n].len - 1 : ~(lo <= a /\ a < hi)
    BY <1>1, <1>2, <2>4, <2>5
  <2>7. dir[n].len # 0
    <3>1. file[s].head.len \in Nat \ {0}
      BY <1>2, <1>3, <1>9, HeadType DEF Named
    <3> QED
      BY <2>3, <3>1
  <2>8. s \in s .. s + dir[n].len - 1
    BY <1>2, <2>4, <2>7
  <2> QED
    BY <2>1, <2>3, <2>6, <2>8
<1>10. Kept(file', file_end', T, Settled(m))
  <2> SUFFICES ASSUME NEW n \in Names, n # m, n \notin lost
               PROVE  IF store[n] = None
                      THEN \A s \in T : ~Named(file', s, n)
                      ELSE \E s \in T : /\ s + store[n].len <= file_end'
                                        /\ Holds(file', s, store[n])
    BY DEF Kept, Settled
  <2>1. CASE store[n] = None
    <3>1. \A s \in S : ~Named(file, s, n)
      BY <1>4, <2>1 DEF Kept, Settled
    <3> QED
      BY <1>6, <2>1, <3>1
  <2>2. CASE store[n] # None
    <3> DEFINE c == store[n]
    <3>1. c \in Content /\ c.len \in Nat \ {0} /\ c.name = n
      <4>1. c \in Content
        BY <2>2 DEF IInv, TypeOK
      <4> QED
        BY <2>2, <4>1, ConstantsAssumption DEF Tiling, OwnName, Content
    <3>2. PICK s \in S : s + c.len <= file_end /\ Holds(file, s, c)
      BY <1>4, <2>2 DEF Kept, Settled
    <3>3. file[s].head = [name |-> n, len |-> c.len]
      <4>1. s \in s .. s + c.len - 1
        BY <1>2, <3>1
      <4>2. file[s] = Object(c, s)[s]
        BY <3>2, <4>1 DEF Holds
      <4>3. Object(c, s)[s].head = [name |-> c.name, len |-> c.len]
        BY <4>1 DEF Object
      <4> QED
        BY <3>1, <4>2, <4>3
    <3>4. Named(file, s, n)
      BY <3>1, <3>3, HeadNotNone DEF Named
    <3>5. /\ ~(lo <= s /\ s < hi) /\ dir[n].len = c.len
          /\ \A a \in s .. s + c.len - 1 : ~(lo <= a /\ a < hi)
      <4>1. n # m
        OBVIOUS
      <4>2. /\ ~(lo <= s /\ s < hi)
            /\ file[s].head = [name |-> n, len |-> dir[n].len]
            /\ \A a \in s .. s + dir[n].len - 1 : ~(lo <= a /\ a < hi)
        BY <1>9, <3>4, <4>1
      <4>3. dir[n].len = c.len
        BY <3>3, <4>2
      <4> QED
        BY <4>2, <4>3
    <3>6. s \in T /\ s + c.len <= file_end'
      BY <1>2, <1>5, <3>1, <3>2, <3>5
    <3>7. Holds(file', s, c)
      <4> SUFFICES ASSUME NEW a \in s .. s + c.len - 1 PROVE file'[a] = Object(c, s)[a]
        BY DEF Holds
      <4>1. a \in Start .. MaxEnd
        BY <1>2, <3>1, <3>2
      <4> QED
        BY <3>2, <3>5, <4>1 DEF Holds
    <3> QED
      BY <2>2, <3>6, <3>7
  <2> QED
    BY <2>1, <2>2
<1>11. ASSUME \A n \in Names \ {m} : dir'[n] = dir[n], FreeUnits \subseteq FreeUnits'
       PROVE  Match(T, file_end, {m}, lo, hi)'
  <2>1. ASSUME NEW n \in Names \ {m}, dir'[n] # Absent
        PROVE  /\ dir'[n].addr \in T /\ dir'[n].addr < file_end'
               /\ file'[dir'[n].addr].head = [name |-> n, len |-> dir'[n].len]
    <3>1. dir'[n] = dir[n]
      BY <1>11
    <3>2. /\ dir[n].addr \in S
          /\ file[dir[n].addr].head = [name |-> n, len |-> dir[n].len]
      BY <1>1, <2>1, <3>1 DEF Match
    <3>3. dir[n].addr \in Nat /\ dir[n].len \in Nat
      BY <1>2, <1>3, <3>2 DEF Place
    <3>4. Named(file, dir[n].addr, n)
      <4>1. dir[n].addr # PhonyAddr
        BY <3>3 DEF PhonyAddr
      <4>2. Claims[n] = dir[n] /\ Layout(dbi_freep, Claims, dbi_eof)
        BY <1>a, BusyFacts
      <4>3. dir[n].len \in Nat \ {0}
        BY <3>3, <4>1, <4>2 DEF Layout
      <4> QED
        BY <3>2, <4>3, HeadNotNone DEF Named
    <3>5. ~(lo <= dir[n].addr /\ dir[n].addr < hi)
      BY <1>9, <3>2, <3>4
    <3> QED
      BY <1>2, <1>5, <3>1, <3>2, <3>5
  <2>2. ASSUME NEW s \in T, NEW n \in Names \ {m}, Named(file', s, n)
        PROVE  dir'[n].addr = s
    <3>1. n \in Names /\ n # m
      OBVIOUS
    <3>2. s \in S /\ Named(file, s, n)
      BY <1>6, <2>2, <3>1
    <3>3. dir[n].addr = s
      BY <1>9, <3>1, <3>2
    <3> QED
      BY <1>11, <3>3
  <2>3. ASSUME NEW s \in T, ~(lo <= s /\ s < hi), Named(file', s, None)
        PROVE  s .. Ends(file', s) - 1 \subseteq FreeUnits'
    <3>1. s \in S /\ file'[s] = file[s] /\ s < file_end
      BY <1>2, <2>3
    <3>2. Named(file, s, None) /\ Ends(file', s) = Ends(file, s)
      BY <2>3, <3>1 DEF Named, Ends
    <3>3. s .. Ends(file, s) - 1 \subseteq FreeUnits
      BY <1>1, <2>3, <3>1, <3>2 DEF Match
    <3> QED
      BY <1>11, <3>2, <3>3
  <2>4. ASSUME NEW s \in T, Named(file', s, m) PROVE lo <= s /\ s < hi
    BY <1>1, <1>7, <2>4
  <2> QED
    BY <2>1, <2>2, <2>3, <2>4 DEF Match
<1> QED
  BY <1>8, <1>10, <1>11

-----------------------------------------------------------------------------
(* What a write, or a part of it, leaves of a tiling.                      *)

LEMMA LastTail ==
    ASSUME NEW f \in File, NEW end \in Start .. MaxEnd + 1, NEW S, Marks(end, S),
           AllChained(f, end, S), NEW lo \in S, NEW hi \in S \cup {end}, lo < hi
    PROVE  f[hi - 1].tail
<1>1. /\ end \in Nat /\ hi \in Nat /\ hi <= end /\ lo \in Nat /\ Start <= lo /\ Start \in Nat
      /\ \A s \in S : s \in Nat /\ s \in Start .. MaxEnd /\ s < end
  <2>1. /\ end \in Nat /\ lo \in Nat /\ Start <= lo /\ Start \in Nat
        /\ \A s \in S : s \in Nat /\ s \in Start .. MaxEnd /\ s < end
    BY MarksType
  <2> QED
    BY <2>1
<1>2. hi - 1 \in Start .. end - 1
  BY <1>1
<1>3. PICK s \in S : s <= hi - 1 /\ hi - 1 < Ends(f, s)
  BY <1>2, Cover
<1>4. Chained(f, end, S, s) /\ Ends(f, s) \in Nat
  BY <1>1, HeadType DEF AllChained, Chained, Sound
<1>5. Ends(f, s) <= hi
  <2>1. CASE hi \in S
    BY <1>1, <1>3, <1>4, <2>1 DEF Chained
  <2>2. CASE hi = end
    BY <1>4, <2>2 DEF Chained, Sound
  <2> QED
    BY <2>1, <2>2
<1>6. Ends(f, s) = hi
  BY <1>1, <1>3, <1>4, <1>5
<1> QED
  BY <1>4, <1>6 DEF Chained, Sound

(* Storage that is one object, in the end or to begin with.                *)
Rewriting(S, k, lo, hi, m) ==
    /\ Tiling(S) /\ Region(lo, hi, m)
    /\ pc \in {"zap", "write", "delete"}
    /\ k \in 0 .. Whole /\ Written(k)
    /\ k > 0 \/ Trailing
    /\ Extending => k = Whole

Remade(T, lo, hi, m) ==
    /\ Marks(file_end', T) /\ AllChained(file', file_end', T)
    /\ file'[lo].head = FirstHead /\ Ends(file', lo) = hi /\ lo \in T
    /\ file_end' = IF Extending THEN hi ELSE file_end
    /\ Unique(file', T)
    /\ Kept(file', file_end', T, Settled(m))
    /\ ((\A n \in Names \ {m} : dir'[n] = dir[n]) /\ FreeUnits \subseteq FreeUnits') =>
             Match(T, file_end, {m}, lo, hi)'

LEMMA Rewritten ==
    ASSUME IInv, NEW S, NEW k, NEW lo, NEW hi, NEW m, Rewriting(S, k, lo, hi, m),
           NEW T, T = Outside(S, lo, hi) \cup {lo}
    PROVE  Remade(T, lo, hi, m)
<1> USE DEF Writes, Rewriting
<1>a. lo = RegionLo /\ hi = RegionHi /\ m = op.name
  BY DEF Region
<1>1. /\ lo \in Nat /\ hi \in Nat /\ Start <= lo /\ lo < hi /\ hi <= MaxEnd + 1
      /\ lo = dp.addr /\ hi = dp.addr + dp.len
      /\ torn = {} /\ Busy /\ Inside(S, lo, hi)
      /\ \A s \in S : ~(lo <= s /\ s < hi) => Chained(file, file_end, S, s)
      /\ Extending => lo = file_end
      /\ ~Extending => lo \in S /\ hi \in S \cup {file_end} /\ hi <= file_end
      /\ m \in Names
  BY <1>a, RegionFacts
<1>2. /\ \A a \in Start .. MaxEnd : ~(lo <= a /\ a < hi) => file'[a] = file[a]
      /\ (k > 0 /\ ~Trailing) => file'[lo].head = FirstHead
      /\ Trailing => \A a \in Start .. MaxEnd : file'[a].head = file[a].head
      /\ file[hi - 1].tail => file'[hi - 1].tail
      /\ (k = Whole /\ pc = "write") => file'[hi - 1].tail
      /\ hi <= file_end => file_end' = file_end
      /\ (pc = "write" /\ lo = file_end) => (k = Whole => file_end' = hi)
      /\ file' \in File /\ file_end' \in Start .. MaxEnd + 1
  BY <1>1, WriteEffect
<1>3. /\ file \in File /\ file_end \in Start .. MaxEnd + 1 /\ file_end \in Nat
      /\ Marks(file_end, S) /\ MaxEnd \in Nat
  BY ConstantsAssumption DEF IInv, TypeOK, File, Tiling, Start
<1>4. AllChained(file, file_end, S)
  BY <1>1 DEF Tiling
<1>5. file'[lo].head = FirstHead
  <2>1. CASE Trailing
    <3>1. lo \in Start .. MaxEnd
      BY <1>1, <1>3 DEF Start
    <3>2. half /\ pc # "write"
      BY <2>1 DEF Trailing
    <3>3. file[lo].head = [name |-> None, len |-> dp.len]
      BY <1>1, <3>2 DEF Inside
    <3> QED
      BY <1>2, <2>1, <3>1, <3>2, <3>3 DEF FirstHead
  <2> QED
    BY <1>2, <2>1
<1>6. FirstHead = [name |-> IF pc = "write" THEN m ELSE None, len |-> dp.len]
  <2>1. pc = "write" => op.content.name = m
    BY <1>a, <1>1 DEF Tiling, OwnName
  <2> QED
    BY <2>1 DEF FirstHead
<1>7. dp.len \in Nat \ {0} /\ dp.addr \in Nat
  BY WritesInside
<1>8. FirstHead # None /\ Ends(file', lo) = hi
  BY <1>1, <1>5, <1>6, <1>7, HeadNotNone DEF Ends
<1>9. file_end' = IF Extending THEN hi ELSE file_end
  BY <1>1, <1>2 DEF Extending
<1>10. file'[hi - 1].tail
  <2>1. CASE Extending
    BY <1>2, <2>1 DEF Extending
  <2>2. CASE ~Extending /\ pc = "write"
    BY <1>1, <1>2, <1>3, <1>4, <2>2, LastTail
  <2>3. CASE pc \in {"zap", "delete"}
    BY <1>1, <1>2, <2>3 DEF Inside
  <2> QED
    BY <2>1, <2>2, <2>3
<1>11. Sound(file', file_end', lo)
  <2>1. hi <= file_end'
    BY <1>1, <1>9
  <2> QED
    BY <1>5, <1>8, <1>10, <2>1 DEF Sound
<1>12. Marks(file_end', T) /\ AllChained(file', file_end', T)
  <2> DEFINE R == {lo}
  <2>1. R \subseteq lo .. hi - 1 /\ lo \in R
    BY <1>1
  <2>2. \A r \in R : /\ Sound(file', file_end', r) /\ Ends(file', r) \in R \cup {hi}
                     /\ \A t \in R : r < t => Ends(file', r) <= t
    BY <1>1, <1>8, <1>11
  <2>3. \/ lo \in S /\ hi \in S \cup {file_end} /\ file_end' = file_end
        \/ lo = file_end /\ hi = file_end'
    BY <1>1, <1>9
  <2>4. T = Outside(S, lo, hi) \cup R
    OBVIOUS
  <2> HIDE DEF R
  <2>5. /\ lo \in Nat /\ hi \in Nat /\ Start <= lo /\ lo < hi
        /\ file \in File /\ file' \in File /\ Marks(file_end, S)
        /\ file_end \in Start .. MaxEnd + 1 /\ file_end' \in Start .. MaxEnd + 1
    BY <1>1, <1>2, <1>3
  <2>6. \A s \in S : ~(lo <= s /\ s < hi) => Chained(file, file_end, S, s)
    BY <1>1
  <2>7. \A a \in Start .. MaxEnd : ~(lo <= a /\ a < hi) => file'[a] = file[a]
    BY <1>2
  <2>8. Retiling(file, file', file_end, file_end', S, lo, hi, R)
    BY <2>1, <2>2, <2>3, <2>5, <2>6, <2>7 DEF Retiling
  <2> QED
    BY <2>4, <2>8, Retile
<1>13. /\ Unique(file', T)
       /\ Kept(file', file_end', T, Settled(m))
       /\ ((\A n \in Names \ {m} : dir'[n] = dir[n]) /\ FreeUnits \subseteq FreeUnits') =>
                Match(T, file_end, {m}, lo, hi)'
  <2>1. \A n \in Names : Named(file', lo, n) => n = m
    BY <1>5, <1>6, ConstantsAssumption DEF Named
  <2>2. \A t \in T : \/ t \in S /\ ~(lo <= t /\ t < hi)
                     \/ /\ lo <= t /\ t < hi
                        /\ \A n \in Names : Named(file', t, n) => n = m /\ t = lo
    BY <1>1, <2>1 DEF Outside
  <2>3. file_end <= file_end' /\ Outside(S, lo, hi) \subseteq T
    BY <1>1, <1>3, <1>9
  <2>4. \A a \in Start .. MaxEnd : ~(lo <= a /\ a < hi) => file'[a] = file[a]
    BY <1>2
  <2>5. file' \in File /\ file_end' \in Start .. MaxEnd + 1 /\ pc \in Writes
    BY <1>2
  <2> QED
    BY <2>2, <2>3, <2>4, <2>5, Others DEF Elsewhere
<1> QED
  BY <1>5, <1>8, <1>9, <1>12, <1>13 DEF Remade

(* The marks outside the storage that is worked on.                        *)
LEMMA OutsideChained ==
    ASSUME NEW f \in File, NEW g \in File, NEW end \in Start .. MaxEnd + 1,
           NEW S, Marks(end, S), NEW lo \in S, NEW hi \in S \cup {end}, lo < hi,
           \A s \in S : ~(lo <= s /\ s < hi) => Chained(f, end, S, s),
           \A a \in Start .. MaxEnd : ~(lo <= a /\ a < hi) => g[a] = f[a],
           NEW T, S \subseteq T, \A t \in T : t \in S \/ (t \in Nat /\ lo <= t /\ t < hi)
    PROVE  \A t \in T : ~(lo <= t /\ t < hi) => Chained(g, end, T, t)
<1> SUFFICES ASSUME NEW s \in T, ~(lo <= s /\ s < hi) PROVE Chained(g, end, T, s)
  OBVIOUS
<1>1. /\ end \in Nat /\ end <= MaxEnd + 1 /\ Start <= end /\ MaxEnd \in Nat /\ Start \in Nat
      /\ \A t \in S : t \in Start .. MaxEnd /\ t \in Nat /\ Start <= t /\ t < end
  BY MarksType
<1>2. lo \in Nat /\ hi \in Nat /\ hi <= end
  BY <1>1
<1>3. s \in S /\ Chained(f, end, S, s) /\ s \in Nat /\ s \in Start .. MaxEnd /\ Start <= s
  BY <1>1
<1>4. f[s].head # None /\ Ends(f, s) \in Nat /\ s < Ends(f, s) /\ Ends(f, s) <= end
  BY <1>3, HeadType DEF Chained, Sound
<1>5. s < lo => Ends(f, s) <= lo
  BY <1>3 DEF Chained
<1>6. g[s] = f[s] /\ Ends(g, s) = Ends(f, s)
  BY <1>3 DEF Ends
<1>7. Ends(f, s) - 1 \in Start .. MaxEnd /\ ~(lo <= Ends(f, s) - 1 /\ Ends(f, s) - 1 < hi)
  BY <1>1, <1>2, <1>3, <1>4, <1>5
<1>8. g[Ends(f, s) - 1] = f[Ends(f, s) - 1]
  BY <1>7
<1>9. Sound(g, end, s)
  BY <1>3, <1>6, <1>8 DEF Chained, Sound
<1>10. Ends(g, s) \in T \cup {end}
  BY <1>3, <1>6 DEF Chained
<1>11. ASSUME NEW t \in T, s < t PROVE Ends(g, s) <= t
  <2>1. CASE t \in S
    BY <1>3, <1>6, <1>11, <2>1 DEF Chained
  <2>2. CASE t \notin S
    <3>1. t \in Nat /\ lo <= t /\ t < hi
      BY <2>2
    <3> QED
      BY <1>2, <1>3, <1>4, <1>5, <1>6, <1>11, <3>1
  <2> QED
    BY <2>1, <2>2
<1> QED
  BY <1>9, <1>10, <1>11 DEF Chained

LEMMA HoleLoose ==
    ASSUME NEW f \in File, NEW end \in Start .. MaxEnd + 1, NEW S, Marks(end, S),
           NEW lo \in S, NEW hi \in S \cup {end}, lo < hi,
           \A s \in S : ~(lo <= s /\ s < hi) => Chained(f, end, S, s),
           Hole(f, end, S, lo, hi)
    PROVE  Loose(f, end, S)
<1> SUFFICES ASSUME NEW s \in S, f[s].head # None
             PROVE  /\ Ends(f, s) \in S \cup {end}
                    /\ \A t \in S, n \in Names : (s < t /\ Named(f, t, n)) => Ends(f, s) <= t
  BY DEF Loose
<1>1. CASE ~(lo <= s /\ s < hi)
  BY <1>1 DEF Chained
<1>2. CASE lo <= s /\ s < hi
  <2>1. Ends(f, s) <= hi /\ Ends(f, s) \in S \cup {end}
    BY <1>2 DEF Hole
  <2>2. ASSUME NEW t \in S, NEW n \in Names, s < t, Named(f, t, n) PROVE Ends(f, s) <= t
    <3>1. ~(lo <= t /\ t < hi)
      BY <2>2, ConstantsAssumption DEF Hole, Named
    <3>2. s \in Nat /\ t \in Nat /\ lo \in Nat /\ hi \in Nat /\ end \in Nat
          /\ \A x \in S : x \in Nat
      BY MarksType
    <3>3. Ends(f, s) \in Nat
      BY <2>1, <3>2
    <3> QED
      BY <1>2, <2>1, <2>2, <3>1, <3>2, <3>3
  <2> QED
    BY <2>1, <2>2
<1> QED
  BY <1>1, <1>2

(* Storage that is being divided.                                          *)
Dividing(S, k, lo, hi, m) ==
    /\ Tiling(S) /\ Region(lo, hi, m)
    /\ pc \in {"surplus", "erase"}
    /\ k \in 0 .. Whole /\ Written(k)
    /\ k > 0 \/ Trailing

Divided(T, lo, hi, m) ==
    /\ Marks(file_end', T) /\ file_end' = file_end
    /\ \A t \in T : ~(lo <= t /\ t < hi) => Chained(file', file_end', T, t)
    /\ Hole(file', file_end', T, lo, hi) /\ Loose(file', file_end', T)
    /\ lo \in T /\ hi \in T \cup {file_end'}
    /\ file'[dp.addr].head = [name |-> None, len |-> dp.len]
    /\ Unique(file', T)
    /\ Kept(file', file_end', T, Settled(m))
    /\ ((\A n \in Names \ {m} : dir'[n] = dir[n]) /\ FreeUnits \subseteq FreeUnits') =>
             Match(T, file_end, {m}, lo, hi)'

LEMMA HoleWritten ==
    ASSUME IInv, NEW S, NEW k, NEW lo, NEW hi, NEW m, Dividing(S, k, lo, hi, m),
           NEW T, T = S \cup {dp.addr}
    PROVE  Divided(T, lo, hi, m)
<1> USE DEF Writes, Dividing
<1>a. lo = RegionLo /\ hi = RegionHi /\ m = op.name
  BY DEF Region
<1>1. /\ lo \in Nat /\ hi \in Nat /\ Start <= lo /\ lo < hi /\ hi <= MaxEnd + 1
      /\ lo <= dp.addr /\ dp.addr + dp.len <= hi
      /\ torn = {} /\ Busy /\ Inside(S, lo, hi) /\ ~Extending
      /\ \A s \in S : ~(lo <= s /\ s < hi) => Chained(file, file_end, S, s)
      /\ lo \in S /\ hi \in S \cup {file_end} /\ hi <= file_end
      /\ pc = "surplus" => dp.addr = lo + Length /\ hi = dp.addr + dp.len
      /\ pc = "erase" => lo = dp.addr /\ dp.len = Length
      /\ m \in Names
  BY <1>a, RegionFacts DEF Extending
<1>2. /\ \A a \in Start .. MaxEnd :
            ~(dp.addr <= a /\ a < dp.addr + dp.len) => file'[a] = file[a]
      /\ (k > 0 /\ ~Trailing) => file'[dp.addr].head = FirstHead
      /\ Trailing => \A a \in Start .. MaxEnd : file'[a].head = file[a].head
      /\ \A a \in Start .. MaxEnd : a # dp.addr => file'[a].head \in {None, file[a].head}
      /\ dp.addr + dp.len <= file_end => file_end' = file_end
      /\ file' \in File /\ file_end' \in Start .. MaxEnd + 1
  BY WriteEffect
<1>3. /\ file \in File /\ file_end \in Start .. MaxEnd + 1 /\ file_end \in Nat
      /\ Marks(file_end, S) /\ MaxEnd \in Nat
  BY ConstantsAssumption DEF IInv, TypeOK, File, Tiling, Start
<1>4. dp.len \in Nat \ {0} /\ dp.addr \in Nat /\ dp.addr \in Start .. MaxEnd
      /\ dp.addr < hi
  BY <1>1, <1>3, WritesInside DEF Start
<1>5. file'[dp.addr].head = [name |-> None, len |-> dp.len]
  <2>1. CASE Trailing
    <3>1. half /\ pc # "write"
      BY <2>1 DEF Trailing
    <3>2. file[dp.addr].head = [name |-> None, len |-> dp.len]
      BY <1>1, <3>1 DEF Inside
    <3> QED
      BY <1>2, <1>4, <2>1, <3>2
  <2> QED
    BY <1>2, <2>1 DEF FirstHead
<1>6. file_end' = file_end
  BY <1>1, <1>2, <1>3, <1>4
<1>7. Marks(file_end', T)
  <2>1. dp.addr \in Start .. file_end - 1
    BY <1>1, <1>3, <1>4
  <2> QED
    BY <1>3, <1>6, <2>1 DEF Marks
<1>8. \A a \in Start .. MaxEnd : ~(lo <= a /\ a < hi) => file'[a] = file[a]
  BY <1>1, <1>2, <1>3, <1>4 DEF Start
<1>9. \A t \in T : ~(lo <= t /\ t < hi) => Chained(file', file_end', T, t)
  <2>1. S \subseteq T /\ \A t \in T : t \in S \/ (t \in Nat /\ lo <= t /\ t < hi)
    BY <1>1, <1>4
  <2>2. \A s \in S : ~(lo <= s /\ s < hi) => Chained(file, file_end, S, s)
    BY <1>1
  <2>3. lo \in S /\ hi \in S \cup {file_end} /\ lo < hi /\ file' \in File
    BY <1>1, <1>2
  <2>4. \A t \in T : ~(lo <= t /\ t < hi) => Chained(file', file_end, T, t)
    BY <1>3, <1>8, <2>1, <2>2, <2>3, OutsideChained
  <2> QED
    BY <1>6, <2>4
<1>10. Hole(file', file_end', T, lo, hi)
  <2> SUFFICES ASSUME NEW s \in T, lo <= s, s < hi, file'[s].head # None
               PROVE  /\ Named(file', s, None) /\ Ends(file', s) <= hi
                      /\ Ends(file', s) \in T \cup {file_end'}
    BY DEF Hole
  <2>1. CASE s = dp.addr
    <3>1. Named(file', s, None) /\ Ends(file', s) = dp.addr + dp.len
      BY <1>5, <2>1 DEF Named, Ends
    <3>2. CASE pc = "surplus"
      BY <1>1, <1>6, <2>1, <3>1, <3>2
    <3>3. CASE pc = "erase"
      <4>1. lo + Length \in S
        BY <1>1, <3>3 DEF Inside
      <4> QED
        BY <1>1, <2>1, <3>1, <3>3, <4>1
    <3> QED
      BY <3>2, <3>3
  <2>2. CASE s # dp.addr
    <3>1. s \in S /\ s \in Start .. MaxEnd
      BY <1>3, <2>2, MarksType
    <3>2. file'[s].head = file[s].head
      BY <1>2, <2>2, <3>1
    <3>3. /\ Named(file, s, None) /\ Ends(file, s) <= hi
          /\ Ends(file, s) \in S \cup {file_end}
      BY <1>1, <3>1, <3>2 DEF Inside, Hole
    <3> QED
      BY <1>6, <3>2, <3>3 DEF Named, Ends
  <2> QED
    BY <2>1, <2>2
<1>11. lo \in T /\ hi \in T \cup {file_end'}
  BY <1>1, <1>6
<1>12. Loose(file', file_end', T)
  BY <1>1, <1>2, <1>7, <1>9, <1>10, <1>11, HoleLoose
<1>13. /\ Unique(file', T)
       /\ Kept(file', file_end', T, Settled(m))
       /\ ((\A n \in Names \ {m} : dir'[n] = dir[n]) /\ FreeUnits \subseteq FreeUnits') =>
                Match(T, file_end, {m}, lo, hi)'
  <2>1. \A t \in T : \/ t \in S /\ ~(lo <= t /\ t < hi)
                     \/ /\ lo <= t /\ t < hi
                        /\ \A n \in Names : Named(file', t, n) => n = m /\ t = lo
    <3> SUFFICES ASSUME NEW t \in T, lo <= t, t < hi, NEW n \in Names, Named(file', t, n)
                 PROVE  FALSE
      BY <1>1, <1>4
    <3>1. Named(file', t, None)
      BY <1>10 DEF Hole, Named
    <3> QED
      BY <3>1, ConstantsAssumption DEF Named
  <2>2. file_end <= file_end' /\ Outside(S, lo, hi) \subseteq T
    BY <1>3, <1>6 DEF Outside
  <2>3. file' \in File /\ file_end' \in Start .. MaxEnd + 1 /\ pc \in Writes
    BY <1>2
  <2> QED
    BY <1>8, <2>1, <2>2, <2>3, Others DEF Elsewhere
<1> QED
  BY <1>5, <1>6, <1>7, <1>9, <1>10, <1>11, <1>12, <1>13 DEF Divided

(* When the program stops in a write, or before it, a scan can still make  *)
(* its way through the file, and meets what was last put.                  *)
LEMMA CutShort ==
    ASSUME IInv, NEW S, Tiling(S), pc \in Writes, pc \notin {"front", "back"},
           NEW k \in Partly, Written(k)
    PROVE  \E T : /\ Marks(file_end', T) /\ Unique(file', T) /\ Loose(file', file_end', T)
                  /\ Kept(file', file_end', T, Settled(op.name))
                  /\ Delicate = {} => AllChained(file', file_end', T)
<1>a. PICK lo, hi, m : Region(lo, hi, m) /\ lo = RegionLo /\ hi = RegionHi /\ m = op.name
  BY DEF Region
<1>1. /\ lo \in Nat /\ hi \in Nat /\ Start <= lo /\ lo < hi /\ hi <= MaxEnd + 1
      /\ torn = {} /\ Busy
      /\ \A s \in S : ~(lo <= s /\ s < hi) => Chained(file, file_end, S, s)
      /\ Extending => lo = file_end
      /\ pc \in {"zap", "write", "delete"} => lo = dp.addr /\ hi = dp.addr + dp.len
      /\ m \in Names
  BY <1>a, RegionFacts
<1>2. k \in 0 .. Whole /\ k \in Nat
  <2>1. Whole \in Nat
    <3>1. PICK x \in Nat, y \in Nat : x <= y /\ DOMAIN Data = x .. y
      BY DataShape
    <3> QED
      BY <3>1, FS_Interval DEF Whole
  <2> QED
    BY <2>1 DEF Partly
<1>3. /\ file \in File /\ file_end \in Start .. MaxEnd + 1 /\ file_end \in Nat
      /\ Marks(file_end, S) /\ MaxEnd \in Nat
  BY ConstantsAssumption DEF IInv, TypeOK, File, Tiling, Start
<1>4. CASE k = 0
  <2>1. file' = file /\ file_end' = file_end
    BY <1>2, <1>4, WriteEffect
  <2>2. /\ Marks(file_end, S) /\ Unique(file, S) /\ Loose(file, file_end, S)
        /\ Kept(file, file_end, S, Settled(op.name))
    BY <1>1 DEF Tiling, Settled
  <2>3. Delicate = {} => AllChained(file, file_end, S)
    BY <1>1 DEF Tiling, Delicate
  <2> QED
    BY <2>1, <2>2, <2>3
<1>5. CASE k # 0
  <2>1. k > 0 /\ ~Trailing
    BY <1>2, <1>5, WriteEffect
  <2>2. CASE pc \in {"zap", "write", "delete"} /\ ~Extending
    <3>0. PICK T : T = Outside(S, lo, hi) \cup {lo}
      OBVIOUS
    <3>1. /\ Marks(file_end', T) /\ AllChained(file', file_end', T) /\ Unique(file', T)
          /\ Kept(file', file_end', T, Settled(m))
      <4>1. Extending => k = Whole
        BY <2>2
      <4>2. Rewriting(S, k, lo, hi, m)
        BY <1>a, <1>2, <2>1, <2>2, <4>1 DEF Rewriting
      <4>3. Remade(T, lo, hi, m)
        BY <3>0, <4>2, Rewritten
      <4> QED
        BY <4>3 DEF Remade
    <3>2. Loose(file', file_end', T)
      BY <3>1, ChainedLoose
    <3> QED
      BY <1>a, <3>1, <3>2
  <2>3. CASE pc \in {"surplus", "erase"}
    <3> DEFINE T == S \cup {dp.addr}
    <3>1. /\ Marks(file_end', T) /\ Loose(file', file_end', T) /\ Unique(file', T)
          /\ Kept(file', file_end', T, Settled(m))
      <4> HIDE DEF T
      <4>1. Dividing(S, k, lo, hi, m)
        BY <1>a, <1>2, <2>1, <2>3 DEF Dividing
      <4>2. T = S \cup {dp.addr}
        BY DEF T
      <4> QED
        BY <4>1, <4>2, HoleWritten DEF Divided
    <3>2. Delicate # {}
      BY <2>3 DEF Delicate
    <3> QED
      BY <1>a, <3>1, <3>2
  <2>4. CASE Extending
    <3> DEFINE T == S \cup {lo}
    <3>1. pc = "write" /\ lo = file_end /\ lo = dp.addr /\ hi = dp.addr + dp.len
      BY <1>1, <2>4 DEF Extending
    <3>2. /\ \A a \in Start .. MaxEnd : ~(lo <= a /\ a < hi) => file'[a] = file[a]
          /\ file'[lo].head = FirstHead
          /\ file_end' = lo + k /\ lo + k < hi
          /\ file' \in File /\ file_end' \in Start .. MaxEnd + 1
      BY <1>2, <2>1, <3>1, WriteEffect
    <3>3. FirstHead = [name |-> m, len |-> dp.len] /\ dp.len \in Nat \ {0}
      <4>1. op.content.name = m
        BY <1>a, <1>1, <3>1 DEF Tiling, OwnName
      <4> QED
        BY <3>1, <4>1, WritesInside DEF FirstHead
    <3>4. Ends(file', lo) = hi
      BY <3>1, <3>2, <3>3 DEF Ends
    <3>5. \A s \in S : s \in Nat /\ s \in Start .. MaxEnd /\ Start <= s /\ s < lo
      BY <1>3, <3>1, MarksType
    <3>6. Marks(file_end', T)
      <4>1. T \subseteq Start .. file_end' - 1
        BY <1>1, <1>2, <1>3, <2>1, <3>1, <3>2, <3>5
      <4>2. Start \in T
        BY <1>3, <3>1 DEF Marks
      <4> QED
        BY <4>1, <4>2 DEF Marks
    <3>7. \A n \in Names : Named(file', lo, n) => n = m
      BY <3>2, <3>3 DEF Named
    <3>8. \A t \in T : \/ t \in S /\ ~(lo <= t /\ t < hi)
                       \/ /\ lo <= t /\ t < hi
                          /\ \A n \in Names : Named(file', t, n) => n = m /\ t = lo
      BY <1>1, <3>5, <3>7
    <3>9. file_end <= file_end' /\ Outside(S, lo, hi) \subseteq T
      BY <1>1, <1>2, <3>1, <3>2 DEF Outside
    <3>10. Unique(file', T) /\ Kept(file', file_end', T, Settled(m))
      <4> HIDE DEF T
      <4>1. Elsewhere(S, T, lo, hi, m)
        BY <1>a, <3>2, <3>8, <3>9 DEF Elsewhere
      <4> QED
        BY <4>1, Others
    <3>11. ASSUME NEW s \in S PROVE file'[s] = file[s] /\ Chained(file, file_end, S, s)
      BY <1>1, <3>2, <3>5
    <3>12. Loose(file', file_end', T)
      <4> SUFFICES ASSUME NEW s \in T, file'[s].head # None
                   PROVE  /\ Ends(file', s) \in T \cup {file_end'} \/ Ends(file', s) > file_end'
                          /\ \A t \in T, n \in Names :
                                (s < t /\ Named(file', t, n)) => Ends(file', s) <= t
        BY DEF Loose
      <4>1. CASE s = lo
        BY <1>1, <3>2, <3>4, <3>5, <4>1
      <4>2. CASE s \in S
        <5>1. Ends(file', s) = Ends(file, s) /\ Chained(file, file_end, S, s)
          BY <3>11, <4>2 DEF Ends
        <5>2. Ends(file', s) \in T /\ Ends(file', s) <= lo
          BY <3>1, <5>1 DEF Chained, Sound
        <5>3. ASSUME NEW t \in T, s < t PROVE Ends(file', s) <= t
          <6>1. CASE t = lo
            BY <5>2, <6>1
          <6>2. CASE t \in S
            BY <5>1, <5>3, <6>2 DEF Chained
          <6> QED
            BY <6>1, <6>2
        <5> QED
          BY <5>2, <5>3
      <4> QED
        BY <4>1, <4>2
    <3>13. Delicate # {}
      <4>1. dp.addr >= file_end
        BY <1>3, <3>1
      <4> QED
        BY <3>1, <4>1 DEF Delicate
    <3> QED
      BY <1>a, <3>6, <3>10, <3>12, <3>13
  <2> QED
    BY <2>2, <2>3, <2>4 DEF Writes
<1> QED
  BY <1>4, <1>5

-----------------------------------------------------------------------------
(* Each step keeps a tiling: the operations.                               *)

(* The marks after a step, when nothing was cut short.                     *)
Proceeds(T, lo, hi) ==
    /\ OwnName' /\ torn' = {} /\ (Busy' \/ Usable')
    /\ lo = RegionLo' /\ hi = RegionHi'
    /\ Marks(file_end', T) /\ Unique(file', T)
    /\ Kept(file, file_end, T, Names \ (lost \cup (IF Busy THEN {op.name} ELSE {})))'
    /\ pc' \notin {"front", "back"} => Loose(file', file_end', T)
    /\ pc' \notin {"front", "back", "surplus", "erase"} => AllChained(file', file_end', T)
    /\ \A t \in T : ~(lo <= t /\ t < hi) => Chained(file', file_end', T, t)
    /\ Match(T, file_end, IF Busy THEN {op.name} ELSE {}, lo, hi)'
    /\ pc' \in Writes => Inside(T, lo, hi)'
    /\ pc' \notin Writes => dbi_eof' = file_end' /\ ~half'

LEMMA Proceeding ==
    ASSUME NEW T, NEW lo, NEW hi, Proceeds(T, lo, hi)
    PROVE  Tiling(T)'
<1> USE DEF Proceeds
<1>1. Marks(file_end, T)' /\ Unique(file, T)'
  BY DEF Marks, Unique, Named
<1>2. pc' \notin {"front", "back"} => Loose(file, file_end, T)'
  BY DEF Loose, Named, Ends
<1>3. /\ pc' \notin {"front", "back", "surplus", "erase"} => AllChained(file, file_end, T)'
      /\ \A t \in T : ~(lo <= t /\ t < hi) => Chained(file, file_end, T, t)'
  BY DEF AllChained, Chained, Sound, Ends
<1>4. Working(T)'
  BY <1>3 DEF Working
<1>5. pc' # "scan"
  BY DEF Busy, Usable
<1> QED
  BY <1>1, <1>2, <1>3, <1>4, <1>5 DEF Tiling

LEMMA AtRest ==
    ASSUME IInv, Usable, NEW S, Tiling(S)
    PROVE  /\ torn = {} /\ ~Busy /\ ~half /\ dbi_eof = file_end /\ OwnName
           /\ Marks(file_end, S) /\ Unique(file, S) /\ AllChained(file, file_end, S)
           /\ Kept(file, file_end, S, Names \ lost)
           /\ Match(S, file_end, {}, Start, Start)
           /\ file \in File /\ file_end \in Start .. MaxEnd + 1 /\ file_end \in Nat
           /\ dir \in [Names -> Place] /\ dbi_freep \subseteq Extent /\ Apart(dbi_freep)
           /\ Layout(dbi_freep, dir, dbi_eof)
           /\ MaxEnd \in Nat
<1>1. ~Busy /\ pc = "idle" /\ pc \notin Writes
  BY DEF Busy, Usable, Writes
<1>2. RegionLo = Start /\ RegionHi = Start
  BY <1>1 DEF RegionLo, RegionHi
<1>3. torn = {} /\ Match(S, file_end, {}, Start, Start) /\ dbi_eof = file_end /\ ~half
  BY <1>1, <1>2 DEF Tiling, Working
<1>4. /\ OwnName /\ Marks(file_end, S) /\ Unique(file, S) /\ AllChained(file, file_end, S)
      /\ Kept(file, file_end, S, Names \ (lost \cup {}))
  BY <1>1, <1>3 DEF Tiling
<1>5. Names \ (lost \cup {}) = Names \ lost
  OBVIOUS
<1>6. Layout(dbi_freep, dir, dbi_eof) /\ dir \in [Names -> Place]
  BY <1>1 DEF IInv, Usable, Claims, Limit, TypeOK, Place
<1>7. /\ file \in File /\ file_end \in Start .. MaxEnd + 1 /\ file_end \in Nat
      /\ MaxEnd \in Nat /\ dbi_freep \subseteq Extent /\ Apart(dbi_freep)
  BY ConstantsAssumption DEF IInv, TypeOK, File, Start, FreeApart
<1>8. Kept(file, file_end, S, Names \ lost)
  BY <1>4, <1>5
<1> QED
  BY <1>1, <1>3, <1>4, <1>6, <1>7, <1>8

(* The object of a directory entry.                                        *)
Stored(n, lo, hi) ==
    dir[n].addr # PhonyAddr /\ lo = dir[n].addr /\ hi = lo + dir[n].len

LEMMA ObjectOf ==
    ASSUME IInv, Usable, NEW S, Tiling(S), NEW n \in Names, NEW lo, NEW hi, Stored(n, lo, hi)
    PROVE  /\ lo \in Nat /\ hi \in Nat /\ lo < hi /\ Start <= lo /\ hi <= file_end
           /\ dir[n].len \in Nat \ {0}
           /\ lo \in S /\ hi \in S \cup {file_end}
           /\ file[lo].head = [name |-> n, len |-> dir[n].len]
           /\ Ends(file, lo) = hi /\ file[hi - 1].tail
           /\ \A s \in S : lo <= s /\ s < hi => s = lo
           /\ Match(S, file_end, {n}, lo, hi)
<1> USE DEF Stored
<1>1. /\ Marks(file_end, S) /\ AllChained(file, file_end, S)
      /\ Match(S, file_end, {}, Start, Start)
      /\ file \in File /\ file_end \in Start .. MaxEnd + 1
      /\ dir \in [Names -> Place] /\ Layout(dbi_freep, dir, dbi_eof)
  BY AtRest
<1>2. /\ Start \in Nat /\ file_end \in Nat
      /\ \A s \in S : s \in Nat /\ Start <= s /\ s < file_end /\ s \in Start .. MaxEnd
  BY <1>1, MarksType
<1>3. lo \in S /\ file[lo].head = [name |-> n, len |-> dir[n].len]
  BY <1>1 DEF Match, Absent
<1>4. lo \in Nat /\ dir[n].len \in Nat \ {0}
  BY <1>1, <1>2, <1>3 DEF Layout, Place
<1>5. Ends(file, lo) = hi /\ hi \in Nat /\ lo < hi
  BY <1>3, <1>4 DEF Ends
<1>6. /\ hi <= file_end /\ hi \in S \cup {file_end} /\ file[hi - 1].tail
      /\ \A s \in S : lo < s => hi <= s
  BY <1>1, <1>3, <1>5 DEF AllChained, Chained, Sound
<1>7. \A s \in S : lo <= s /\ s < hi => s = lo
  BY <1>2, <1>4, <1>5, <1>6
<1>8. Match(S, file_end, {n}, lo, hi)
  <2>1. \A s \in S : Named(file, s, n) => s = lo
    BY <1>1, <1>2 DEF Match
  <2>2. ASSUME NEW s \in S, Named(file, s, None)
        PROVE  s .. Ends(file, s) - 1 \subseteq FreeUnits
    <3>1. ~(Start <= s /\ s < Start) /\ s < file_end
      BY <1>2
    <3> QED
      BY <1>1, <2>2, <3>1 DEF Match
  <2>3. \A s \in S : Named(file, s, n) => lo <= s /\ s < hi
    BY <1>4, <1>5, <2>1
  <2>4. \A x \in Names \ {n} :
            \/ dir[x] = Absent
            \/ /\ dir[x].addr \in S /\ dir[x].addr < file_end
               /\ file[dir[x].addr].head = [name |-> x, len |-> dir[x].len]
    BY <1>1 DEF Match
  <2>5. \A s \in S, x \in Names \ {n} :
            (s < file_end /\ Named(file, s, x)) => dir[x].addr = s
    BY <1>1 DEF Match
  <2> QED
    BY <2>2, <2>3, <2>4, <2>5 DEF Match
<1> QED
  BY <1>2, <1>3, <1>4, <1>5, <1>6, <1>7, <1>8

LEMMA InitTiles == Init => Tiling({})
<1> SUFFICES ASSUME Init PROVE Tiling({})
  OBVIOUS
<1> USE DEF Init
<1>1. OwnName /\ ~Busy /\ pc \notin Writes
  BY DEF OwnName, Busy, Writes
<1>2. Marks(file_end, {}) /\ Unique(file, {}) /\ Loose(file, file_end, {})
      /\ AllChained(file, file_end, {})
  BY DEF Marks, Unique, Loose, AllChained
<1>3. \A known : known \subseteq Names => Kept(file, file_end, {}, known)
  BY DEF Kept
<1>4. Match({}, file_end, {}, RegionLo, RegionHi)
  BY DEF Match
<1>5. Working({})
  BY <1>1, <1>4 DEF Working
<1> QED
  BY <1>1, <1>2, <1>3, <1>5 DEF Tiling

LEMMA PutTiles ==
    ASSUME IInv, NEW S, Tiling(S), NEW n \in Names, NEW c \in Content, Put(n, c)
    PROVE  Tiling(S)'
<1>0. Usable
  BY DEF Put, Usable
<1>1. /\ pc = "idle" /\ ~dbi_read_only /\ c.name = n
      /\ op' = [name |-> n, content |-> c, addr |-> dir[n].addr, len |-> dir[n].len]
      /\ UNCHANGED <<file, file_end, dbi_eof, dbi_read_only, half, pos>>
      /\ UNCHANGED <<store, lost, crashes, torn>>
  BY DEF Put, disk, history
<1>2. /\ torn = {} /\ ~half /\ dbi_eof = file_end /\ OwnName
      /\ Marks(file_end, S) /\ Unique(file, S) /\ AllChained(file, file_end, S)
      /\ Kept(file, file_end, S, Names \ lost)
      /\ Match(S, file_end, {}, Start, Start)
      /\ dir \in [Names -> Place] /\ dbi_freep \subseteq Extent /\ Apart(dbi_freep)
      /\ Layout(dbi_freep, dir, dbi_eof)
      /\ file \in File /\ file_end \in Start .. MaxEnd + 1 /\ file_end \in Nat
  BY <1>0, AtRest
<1>3. op'.name = n /\ op'.content = c /\ op'.addr = dir[n].addr /\ op'.len = dir[n].len
      /\ Length' = c.len /\ c.len \in Nat \ {0}
  BY <1>1, ConstantsAssumption DEF Length, Content
<1>4. OwnName'
  BY <1>1, <1>2, <1>3 DEF OwnName
<1>5. Kept(file, file_end, S, Names \ (lost \cup {n}))'
  BY <1>1, <1>2 DEF Kept
<1>6. Loose(file, file_end, S)
  BY <1>2, ChainedLoose
<1>7. \A t \in S : t \in Nat /\ Start <= t /\ t < file_end
  BY <1>2, MarksType
(* What the steps have in common.                                          *)
<1>8. ASSUME pc' \in {"write", "front", "zap", "allocate"},
             NEW lo, lo = RegionLo', NEW hi, hi = RegionHi',
             Match(S, file_end, {n}, lo, hi)', pc' # "allocate" => Inside(S, lo, hi)'
      PROVE  Tiling(S)'
  <2>1. Busy'
    BY <1>8 DEF Busy
  <2>2. Proceeds(S, lo, hi)
    BY <1>1, <1>2, <1>3, <1>4, <1>5, <1>6, <1>8, <2>1 DEF Proceeds, AllChained, Writes
  <2> QED
    BY <2>2, Proceeding
(* Where there is an object to replace.                                    *)
<1>9. ASSUME NEW lo, NEW hi, Stored(n, lo, hi),
             pc' \in {"write", "front", "zap"}, FreeUnits \subseteq FreeUnits',
             dir'[n].addr = dir[n].addr, pc' # "front" => dir'[n].len = dir[n].len,
             \A x \in Names : x # n => dir'[x] = dir[x],
             pc' = "zap" => lo .. hi - 1 \subseteq FreeUnits'
      PROVE  Tiling(S)'
  <2>0. lo = dir[n].addr /\ hi = lo + dir[n].len
    BY <1>9 DEF Stored
  <2>1. /\ lo \in Nat /\ hi \in Nat /\ lo < hi /\ hi <= file_end
        /\ lo \in S /\ hi \in S \cup {file_end} /\ file[hi - 1].tail
        /\ \A s \in S : lo <= s /\ s < hi => s = lo
        /\ Match(S, file_end, {n}, lo, hi)
    BY <1>0, <1>9, ObjectOf
  <2>2. lo = RegionLo' /\ hi = RegionHi'
    BY <1>3, <1>9, <2>0 DEF RegionLo, RegionHi, dp
  <2>3. Match(S, file_end, {n}, lo, hi)'
    <3>1. \A x \in Names \ {n} :
            \/ dir'[x] = Absent
            \/ /\ dir'[x].addr \in S /\ dir'[x].addr < file_end'
               /\ file'[dir'[x].addr].head = [name |-> x, len |-> dir'[x].len]
      BY <1>1, <1>9, <2>1 DEF Match
    <3>2. \A s \in S, x \in Names \ {n} :
            (s < file_end' /\ Named(file', s, x)) => dir'[x].addr = s
      BY <1>1, <1>9, <2>1 DEF Match
    <3>3. \A s \in S : (s < file_end' /\ ~(lo <= s /\ s < hi) /\ Named(file', s, None)) =>
            s .. Ends(file', s) - 1 \subseteq FreeUnits'
      BY <1>1, <1>9, <2>1 DEF Match
    <3>4. \A s \in S, x \in {n} : Named(file', s, x) => lo <= s /\ s < hi
      BY <1>1, <2>1 DEF Match
    <3> QED
      BY <3>1, <3>2, <3>3, <3>4 DEF Match
  <2>4. Inside(S, lo, hi)'
    <3>1. half' = FALSE /\ dbi_eof' = file_end' /\ file_end' = file_end
      BY <1>1, <1>2
    <3>2. pc' = "front" => S \cap (lo .. hi - 1) = {lo}
      BY <2>1
    <3>3. \A s \in S : Chained(file, file_end, S, s)'
      BY <1>1, <1>2 DEF AllChained, Chained, Sound, Ends
    <3>5. file'[hi - 1].tail
      BY <1>1, <2>1
    <3> HIDE DEF FreeUnits
    <3> QED
      BY <1>9, <2>1, <3>1, <3>2, <3>3, <3>5 DEF Inside
  <2> QED
    BY <1>8, <1>9, <2>2, <2>3, <2>4
<1>10. CASE /\ c.len = dir[n].len /\ dir[n].addr # PhonyAddr /\ pc' = "write"
            /\ UNCHANGED <<dir, dbi_freep>>
  <2>1. PICK lo, hi : Stored(n, lo, hi)
    BY <1>10 DEF Stored
  <2> QED
    BY <1>9, <1>10, <2>1 DEF FreeUnits
<1>11. CASE /\ c.len < dir[n].len /\ dir[n].addr # PhonyAddr /\ pc' = "front"
            /\ dir' = [dir EXCEPT ![n].len = c.len] /\ UNCHANGED dbi_freep
  <2>1. PICK lo, hi : Stored(n, lo, hi)
    BY <1>11 DEF Stored
  <2>2. dir'[n].addr = dir[n].addr /\ \A x \in Names : x # n => dir'[x] = dir[x]
    BY <1>2, <1>11 DEF Place
  <2> QED
    BY <1>9, <1>11, <2>1, <2>2 DEF FreeUnits
<1>12. CASE /\ c.len > dir[n].len /\ dir[n].addr # PhonyAddr /\ pc' = "zap"
            /\ dbi_freep' = rt_memfree(dbi_freep, dir[n].len, dir[n].addr)
            /\ UNCHANGED dir
  <2>1. PICK lo, hi : Stored(n, lo, hi)
    BY <1>12 DEF Stored
  <2>2. lo \in Nat /\ dir[n].len \in Nat \ {0}
    BY <1>0, <2>1, ObjectOf
  <2>3. lo = dir[n].addr /\ hi = lo + dir[n].len
    BY <2>1 DEF Stored
  <2>4. \A e \in dbi_freep : Clear(e, lo, dir[n].len)
    BY <1>2, <1>12, <2>3 DEF Layout
  <2>5. UnitsOf(dbi_freep) \cup (lo .. lo + dir[n].len - 1) \subseteq UnitsOf(dbi_freep')
    BY <1>2, <1>12, <2>2, <2>3, <2>4, FreedUnits
  <2>6. FreeUnits = UnitsOf(dbi_freep) /\ FreeUnits' = UnitsOf(dbi_freep')
    BY DEF FreeUnits, UnitsOf
  <2>7. lo .. hi - 1 = lo .. lo + dir[n].len - 1
    BY <2>2, <2>3
  <2>8. FreeUnits \subseteq FreeUnits' /\ lo .. hi - 1 \subseteq FreeUnits'
    BY <2>5, <2>6, <2>7, Zenon
  <2> QED
    BY <1>9, <1>12, <2>1, <2>8
<1>13. CASE dir[n].addr = PhonyAddr /\ pc' = "allocate" /\ UNCHANGED <<dir, dbi_freep>>
  <2>1. RegionLo' = Start /\ RegionHi' = Start
    BY <1>13 DEF RegionLo, RegionHi
  <2>2. \A s \in S : ~Named(file, s, n)
    BY <1>2, <1>7, <1>13 DEF Match, PhonyAddr
  <2>3. Match(S, file_end, {n}, Start, Start)'
    BY <1>1, <1>2, <1>13, <2>2 DEF Match, Named, Ends, FreeUnits
  <2> QED
    BY <1>8, <1>13, <2>1, <2>3
<1> QED
  BY <1>10, <1>11, <1>12, <1>13 DEF Put

LEMMA DeleteTiles ==
    ASSUME IInv, NEW S, Tiling(S), NEW n \in Names, Delete(n)
    PROVE  Tiling(S)'
<1>0. Usable
  BY DEF Delete, Usable
<1>1. /\ pc' = "delete" /\ dir[n].addr # PhonyAddr
      /\ op' = [name |-> n, content |-> None, addr |-> dir[n].addr, len |-> dir[n].len]
      /\ UNCHANGED <<file, file_end, dir, dbi_freep, dbi_eof, half>>
      /\ UNCHANGED <<store, lost, torn>>
  BY DEF Delete, disk, memory, history
<1>2. /\ torn = {} /\ ~half /\ dbi_eof = file_end /\ OwnName
      /\ Marks(file_end, S) /\ Unique(file, S) /\ AllChained(file, file_end, S)
      /\ Kept(file, file_end, S, Names \ lost)
  BY <1>0, AtRest
<1>3. PICK lo, hi : Stored(n, lo, hi)
  BY <1>1 DEF Stored
<1>4. /\ lo \in Nat /\ hi \in Nat /\ lo < hi
      /\ lo \in S /\ hi \in S \cup {file_end} /\ file[hi - 1].tail
      /\ Match(S, file_end, {n}, lo, hi)
  BY <1>0, <1>3, ObjectOf
<1>5. lo = RegionLo' /\ hi = RegionHi' /\ op'.name = n
  BY <1>1, <1>3 DEF RegionLo, RegionHi, dp, Stored
<1>6. Busy' /\ pc' \in Writes /\ OwnName'
  BY <1>1, <1>2 DEF Busy, Writes, OwnName
<1>7. Kept(file, file_end, S, Names \ (lost \cup {n}))'
  BY <1>1, <1>2 DEF Kept
<1>8. Loose(file, file_end, S)
  BY <1>2, ChainedLoose
<1>9. Match(S, file_end, {n}, lo, hi)'
  BY <1>1, <1>4 DEF Match, FreeUnits
<1>10. \A s \in S : Chained(file', file_end', S, s)
  BY <1>1, <1>2 DEF AllChained
<1>11. Inside(S, lo, hi)'
  <2>1. half' = FALSE /\ dbi_eof' = file_end' /\ file_end' = file_end /\ file'[hi - 1].tail
    BY <1>1, <1>2, <1>4
  <2>2. \A s \in S : Chained(file, file_end, S, s)'
    BY <1>10 DEF Chained, Sound, Ends
  <2> QED
    BY <1>1, <1>4, <2>1, <2>2 DEF Inside
<1>12. Proceeds(S, lo, hi)
  BY <1>1, <1>2, <1>5, <1>6, <1>7, <1>8, <1>9, <1>10, <1>11 DEF Proceeds
<1> QED
  BY <1>12, Proceeding

-----------------------------------------------------------------------------
(* Each step keeps a tiling: storage is found for an object.               *)

LEMMA Allocating ==
    ASSUME IInv, NEW S, Tiling(S), pc = "allocate"
    PROVE  /\ torn = {} /\ Busy /\ ~half /\ dbi_eof = file_end /\ OwnName
           /\ Marks(file_end, S) /\ Unique(file, S) /\ AllChained(file, file_end, S)
           /\ Kept(file, file_end, S, Settled(op.name))
           /\ Match(S, file_end, {op.name}, Start, Start)
           /\ file \in File /\ file_end \in Start .. MaxEnd + 1 /\ file_end \in Nat
           /\ op.name \in Names /\ Length \in Nat \ {0}
           /\ Fits({op.name})
           /\ \A e \in dbi_freep : Start <= e.addr /\ After(e) <= file_end
<1>1. Busy /\ pc \notin Writes /\ ~dbi_read_only
  BY DEF IInv, Busy, Writes
<1>2. op \in Request /\ op.name \in Names /\ op.content \in Content /\ Length \in Nat \ {0}
  BY <1>1, ConstantsAssumption DEF IInv, Stage, Request, Length, Content
<1>3. RegionLo = Start /\ RegionHi = Start
  BY DEF RegionLo, RegionHi
<1>4. torn = {} /\ Match(S, file_end, {op.name}, Start, Start) /\ dbi_eof = file_end /\ ~half
  BY <1>1, <1>3 DEF Tiling, Working
<1>5. /\ OwnName /\ Marks(file_end, S) /\ Unique(file, S) /\ AllChained(file, file_end, S)
      /\ Kept(file, file_end, S, Settled(op.name))
  BY <1>1, <1>4 DEF Tiling, Settled
<1>6. /\ file \in File /\ file_end \in Start .. MaxEnd + 1 /\ file_end \in Nat
      /\ dir \in [Names -> Place] /\ dbi_freep \subseteq Extent /\ Apart(dbi_freep)
  BY ConstantsAssumption DEF IInv, TypeOK, File, Start, FreeApart, Place
<1>7. Layout(dbi_freep, [dir EXCEPT ![op.name] = Absent], dbi_eof)
  BY <1>1 DEF IInv, Claims, OpClaim, Limit
<1>8. \A n \in Names \ {op.name} : dir[n].addr # PhonyAddr =>
            \A e \in dbi_freep : Clear(e, dir[n].addr, dir[n].len)
  BY <1>6, <1>7 DEF Layout
<1>9. \A e \in dbi_freep : Start <= e.addr /\ After(e) <= file_end
  BY <1>4, <1>7 DEF Layout
<1> QED
  BY <1>1, <1>2, <1>4, <1>5, <1>6, <1>8, <1>9 DEF Fits

(* A free extent is taken off the map.                                     *)
LEMMA Taken ==
    ASSUME IInv, NEW S, Tiling(S), pc = "allocate", NEW e \in dbi_freep,
           NEW lo, lo = e.addr, NEW hi, hi = After(e),
           UNCHANGED <<file, file_end, op>>, dbi_freep' = dbi_freep \ {e},
           \A n \in Names \ {op.name} : dir'[n] = dir[n]
    PROVE  /\ lo \in Nat /\ hi \in Nat /\ lo < hi /\ Start <= lo /\ hi <= file_end
           /\ lo \in S /\ hi \in S \cup {file_end} /\ file[hi - 1].tail
           /\ Hole(file, file_end, S, lo, hi)
           /\ Match(S, file_end, {op.name}, lo, hi)'
<1>1. /\ Marks(file_end, S) /\ AllChained(file, file_end, S)
      /\ Match(S, file_end, {op.name}, Start, Start)
      /\ file \in File /\ file_end \in Start .. MaxEnd + 1 /\ file_end \in Nat
      /\ Fits({op.name}) /\ Start <= lo /\ hi <= file_end
  BY Allocating
<1>2. /\ lo \in S /\ hi \in S \cup {file_end}
      /\ \A s \in S : (lo <= s /\ s < hi) => Named(file, s, None)
  BY <1>1, FreeBounds
<1>3. /\ dbi_freep \subseteq Extent /\ lo \in Nat /\ hi \in Nat /\ lo < hi
  BY <1>1 DEF Fits, Extent, After
<1>4. file[hi - 1].tail
  BY <1>1, <1>2, <1>3, LastTail
<1>5. \A s \in S : s \in Nat /\ s \in Start .. MaxEnd
  BY <1>1, MarksType
<1>6. \A s \in S : /\ Ends(file, s) \in Nat /\ s < Ends(file, s)
                   /\ s < lo => Ends(file, s) <= lo
                   /\ s < hi => Ends(file, s) <= hi
                   /\ Ends(file, s) \in S \cup {file_end}
  <2> SUFFICES ASSUME NEW s \in S
               PROVE  /\ Ends(file, s) \in Nat /\ s < Ends(file, s)
                      /\ s < lo => Ends(file, s) <= lo
                      /\ s < hi => Ends(file, s) <= hi
                      /\ Ends(file, s) \in S \cup {file_end}
    OBVIOUS
  <2>1. Chained(file, file_end, S, s)
    BY <1>1 DEF AllChained
  <2>2. Ends(file, s) \in Nat /\ s < Ends(file, s)
    BY <1>1, <1>5, <2>1, HeadType DEF Chained, Sound
  <2> QED
    BY <1>2, <2>1, <2>2 DEF Chained, Sound
<1>7. Hole(file, file_end, S, lo, hi)
  BY <1>2, <1>6 DEF Hole
<1>8. ASSUME NEW s \in S, s < file_end, ~(lo <= s /\ s < hi), Named(file, s, None)
      PROVE  s .. Ends(file, s) - 1 \subseteq FreeUnits'
  <2>1. ~(Start <= s /\ s < Start)
    BY <1>5 DEF Start
  <2>2. s .. Ends(file, s) - 1 \subseteq FreeUnits
    BY <1>1, <1>8, <2>1 DEF Match
  <2> SUFFICES ASSUME NEW a \in s .. Ends(file, s) - 1 PROVE a \in FreeUnits'
    OBVIOUS
  <2>3. a \in Nat /\ s <= a /\ a < Ends(file, s)
    BY <1>5, <1>6
  <2>4. ~(lo <= a /\ a < hi)
    BY <1>3, <1>5, <1>6, <1>8, <2>3
  <2>5. PICK f \in dbi_freep : f.addr <= a /\ a < After(f)
    BY <1>3, <2>2, <2>3, FreeUnit DEF FreeUnits, UnitsOf
  <2>6. f \in dbi_freep' /\ dbi_freep' \subseteq Extent
    BY <1>3, <2>4, <2>5
  <2>7. a \in UnitsOf(dbi_freep')
    BY <2>3, <2>5, <2>6, FreeUnit
  <2> QED
    BY <2>7 DEF FreeUnits, UnitsOf
<1>9. \A s \in S : ~Named(file, s, op.name)
  <2>1. \A s \in S : ~(Start <= s /\ s < Start)
    BY <1>5 DEF Start
  <2> QED
    BY <1>1, <2>1 DEF Match
<1>10. Match(S, file_end, {op.name}, lo, hi)'
  <2> DEFINE m == op.name
  <2>1. \A n \in Names \ {m} :
            \/ dir'[n] = Absent
            \/ /\ dir'[n].addr \in S /\ dir'[n].addr < file_end'
               /\ file'[dir'[n].addr].head = [name |-> n, len |-> dir'[n].len]
    BY <1>1 DEF Match
  <2>2. \A s \in S, n \in Names \ {m} :
            (s < file_end' /\ Named(file', s, n)) => dir'[n].addr = s
    BY <1>1 DEF Match
  <2>3. \A s \in S : (s < file_end' /\ ~(lo <= s /\ s < hi) /\ Named(file', s, None)) =>
            s .. Ends(file', s) - 1 \subseteq FreeUnits'
    BY <1>8
  <2> QED
    BY <1>9, <2>1, <2>2, <2>3 DEF Match
<1> QED
  BY <1>1, <1>2, <1>3, <1>4, <1>7, <1>10

LEMMA AllocateTiles ==
    ASSUME IInv, NEW S, Tiling(S), Allocate
    PROVE  Tiling(S)'
<1> DEFINE m == op.name
<1>1. /\ pc = "allocate"
      /\ UNCHANGED <<file, file_end, dbi_read_only, half, op, store, lost, torn>>
  BY DEF Allocate, disk, history
<1>2. /\ torn = {} /\ Busy /\ ~half /\ dbi_eof = file_end /\ OwnName
      /\ Marks(file_end, S) /\ Unique(file, S) /\ AllChained(file, file_end, S)
      /\ Kept(file, file_end, S, Settled(m))
      /\ Match(S, file_end, {m}, Start, Start)
      /\ file \in File /\ file_end \in Start .. MaxEnd + 1 /\ file_end \in Nat
      /\ m \in Names /\ Length \in Nat \ {0}
      /\ dir \in [Names -> Place]
  BY <1>1, Allocating DEF Fits
<1>3. Length' = Length
  BY <1>1 DEF Length
<1>4. Loose(file, file_end, S)
  BY <1>2, ChainedLoose
<1>5. \A s \in S : Chained(file', file_end', S, s) /\ Chained(file, file_end, S, s)'
  BY <1>1, <1>2 DEF AllChained, Chained, Sound, Ends
<1>6. Kept(file, file_end, S, Names \ (lost \cup {m}))'
  BY <1>1, <1>2 DEF Kept, Settled
<1>7. ASSUME pc' \in {"write", "surplus"}, NEW lo, lo = RegionLo', NEW hi, hi = RegionHi',
             Match(S, file_end, {m}, lo, hi)', Inside(S, lo, hi)'
      PROVE  Tiling(S)'
  <2>1. Busy' /\ pc' \in Writes /\ OwnName' /\ op'.name = m
    BY <1>1, <1>2, <1>7 DEF Busy, Writes, OwnName
  <2>2. Proceeds(S, lo, hi)
    BY <1>1, <1>2, <1>4, <1>5, <1>6, <1>7, <2>1 DEF Proceeds
  <2> QED
    BY <2>2, Proceeding
<1>8. ASSUME NEW e \in dbi_freep, dbi_freep' = dbi_freep \ {e}, dbi_eof' = dbi_eof,
             Length <= e.size,
             \/ /\ e.size = Length /\ pc' = "write"
                /\ dir' = [dir EXCEPT ![m] = [addr |-> e.addr, len |-> Length]]
             \/ /\ e.size # Length /\ pc' = "surplus"
                /\ dir' = [dir EXCEPT ![m] = [addr |-> e.addr + Length,
                                              len |-> e.size - Length]]
      PROVE  Tiling(S)'
  <2>1. PICK lo, hi : lo = e.addr /\ hi = After(e)
    OBVIOUS
  <2>2. \A n \in Names \ {m} : dir'[n] = dir[n]
    BY <1>2, <1>8
  <2>3. /\ lo \in Nat /\ hi \in Nat /\ lo < hi /\ Start <= lo /\ hi <= file_end
        /\ lo \in S /\ hi \in S \cup {file_end} /\ file[hi - 1].tail
        /\ Hole(file, file_end, S, lo, hi)
        /\ Match(S, file_end, {m}, lo, hi)'
    BY <1>1, <1>8, <2>1, <2>2, Taken
  <2>4. e.addr \in Nat /\ e.size \in Nat /\ hi = e.addr + e.size
    BY <1>2, <2>1, Allocating, <1>1 DEF Fits, Extent, After
  <2>5. half' = FALSE /\ dbi_eof' = file_end' /\ file_end' = file_end /\ file' = file
    BY <1>1, <1>2, <1>8
  <2>6. CASE /\ e.size = Length /\ pc' = "write"
             /\ dir' = [dir EXCEPT ![m] = [addr |-> e.addr, len |-> Length]]
    <3>1. dp'.addr = lo /\ dp'.addr + dp'.len = hi
      BY <1>1, <1>2, <2>1, <2>4, <2>6 DEF dp
    <3>2. lo = RegionLo' /\ hi = RegionHi'
      BY <2>6, <3>1 DEF RegionLo, RegionHi
    <3>3. Inside(S, lo, hi)'
      BY <1>5, <2>3, <2>5, <2>6 DEF Inside
    <3> QED
      BY <1>7, <2>3, <2>6, <3>2, <3>3
  <2>7. CASE /\ e.size # Length /\ pc' = "surplus"
             /\ dir' = [dir EXCEPT ![m] = [addr |-> e.addr + Length,
                                           len |-> e.size - Length]]
    <3>1. dp'.addr - Length' = lo /\ dp'.addr + dp'.len = hi
      BY <1>1, <1>2, <1>3, <1>8, <2>1, <2>4, <2>7 DEF dp
    <3>2. lo = RegionLo' /\ hi = RegionHi'
      BY <2>7, <3>1 DEF RegionLo, RegionHi
    <3>3. Hole(file, file_end, S, lo, hi)'
      BY <2>3, <2>5 DEF Hole, Named, Ends
    <3>4. Inside(S, lo, hi)'
      BY <2>3, <2>5, <2>7, <3>3 DEF Inside
    <3> QED
      BY <1>7, <2>3, <2>7, <3>2, <3>4
  <2> QED
    BY <1>8, <2>6, <2>7
<1>9. ASSUME pc' = "write", dbi_freep' = dbi_freep, dbi_eof' = dbi_eof + Length,
             dir' = [dir EXCEPT ![m] = [addr |-> dbi_eof, len |-> Length]]
      PROVE  Tiling(S)'
  <2>1. PICK lo, hi : lo = file_end /\ hi = file_end + Length
    OBVIOUS
  <2>2. dp'.addr = lo /\ dp'.len = Length
    BY <1>1, <1>2, <1>9, <2>1 DEF dp
  <2>3. lo = RegionLo' /\ hi = RegionHi'
    BY <1>9, <2>1, <2>2 DEF RegionLo, RegionHi
  <2>4. Extending' /\ dbi_eof' = hi /\ lo < hi
    BY <1>1, <1>2, <1>9, <2>1, <2>2 DEF Extending
  <2>5. half' = FALSE
    BY <1>1, <1>2
  <2>6. Inside(S, lo, hi)'
    BY <1>5, <1>9, <2>4, <2>5 DEF Inside
  <2>7. \A s \in S : s \in Nat /\ Start <= s
    BY <1>2, MarksType
  <2>8. \A s \in S : ~(Start <= s /\ s < Start) /\ ~Named(file, s, m)
    <3>1. \A s \in S : ~(Start <= s /\ s < Start)
      BY <2>7 DEF Start
    <3> QED
      BY <1>2, <3>1 DEF Match
  <2>9. Match(S, file_end, {m}, lo, hi)'
    <3>1. \A n \in Names \ {m} : dir'[n] = dir[n]
      BY <1>2, <1>9
    <3>2. \A n \in Names \ {m} :
              \/ dir'[n] = Absent
              \/ /\ dir'[n].addr \in S /\ dir'[n].addr < file_end'
                 /\ file'[dir'[n].addr].head = [name |-> n, len |-> dir'[n].len]
      BY <1>1, <1>2, <3>1 DEF Match
    <3>3. \A s \in S, n \in Names \ {m} :
              (s < file_end' /\ Named(file', s, n)) => dir'[n].addr = s
      BY <1>1, <1>2, <3>1 DEF Match
    <3>4. \A s \in S : (s < file_end' /\ ~(lo <= s /\ s < hi) /\ Named(file', s, None)) =>
              s .. Ends(file', s) - 1 \subseteq FreeUnits'
      BY <1>1, <1>2, <1>9, <2>8 DEF Match, FreeUnits
    <3>5. \A s \in S, n \in {m} : Named(file', s, n) => lo <= s /\ s < hi
      BY <1>1, <2>8
    <3> QED
      BY <1>1, <3>2, <3>3, <3>4, <3>5 DEF Match
  <2> QED
    BY <1>7, <1>9, <2>3, <2>6, <2>9
<1>10. \A e \in BestFit(dbi_freep, Length) : e \in dbi_freep /\ Length <= e.size
  BY DEF BestFit
<1> QED
  BY <1>8, <1>9, <1>10 DEF Allocate

-----------------------------------------------------------------------------
(* Each step keeps a tiling: the writes.                                   *)

LEMMA WholeType ==
    ASSUME IInv, pc \in Writes
    PROVE  Whole \in Nat /\ Whole > 0 /\ Whole \in 0 .. Whole /\ Partly \subseteq 0 .. Whole
<1>1. PICK x \in Nat, y \in Nat : x <= y /\ DOMAIN Data = x .. y
  BY DataShape
<1>2. Whole = y - x + 1
  BY <1>1, FS_Interval DEF Whole
<1> QED
  BY <1>1, <1>2 DEF Partly

(* Storage of which one half is erased.                                    *)
Halving(S, lo, hi, m) ==
    Tiling(S) /\ Region(lo, hi, m) /\ pc \in {"front", "back"} /\ Written(Whole)

Halved(S, lo, hi, m) ==
    /\ Marks(file_end', S) /\ file_end' = file_end
    /\ \A t \in S : ~(lo <= t /\ t < hi) => Chained(file', file_end', S, t)
    /\ lo \in S /\ hi \in S \cup {file_end'} /\ S \cap (lo .. hi - 1) = {lo}
    /\ file'[hi - 1].tail
    /\ pc = "back" => Sound(file', file_end', lo) /\ Ends(file', lo) = dp.addr
                         /\ Named(file', lo, None)
    /\ file'[dp.addr].head = [name |-> None, len |-> dp.len]
    /\ (dp.len <= Large \/ half) => file'[dp.addr + dp.len - 1].tail
    /\ Unique(file', S)
    /\ Kept(file', file_end', S, Settled(m))
    /\ ((\A n \in Names \ {m} : dir'[n] = dir[n]) /\ FreeUnits \subseteq FreeUnits') =>
             Match(S, file_end, {m}, lo, hi)'

LEMMA HalfWritten ==
    ASSUME IInv, NEW S, NEW lo, NEW hi, NEW m, Halving(S, lo, hi, m)
    PROVE  Halved(S, lo, hi, m)
<1> USE DEF Writes, Halving
<1>a. lo = RegionLo /\ hi = RegionHi /\ m = op.name
  BY DEF Region
<1>1. /\ lo \in Nat /\ hi \in Nat /\ Start <= lo /\ lo < hi /\ hi <= MaxEnd + 1
      /\ lo <= dp.addr /\ dp.addr + dp.len <= hi
      /\ torn = {} /\ Busy /\ Inside(S, lo, hi) /\ ~Extending
      /\ \A s \in S : ~(lo <= s /\ s < hi) => Chained(file, file_end, S, s)
      /\ lo \in S /\ hi \in S \cup {file_end} /\ hi <= file_end
      /\ lo = op.addr /\ hi = lo + op.len
      /\ m \in Names
  BY <1>a, RegionFacts DEF Extending
<1>2. PICK k \in 0 .. Whole : k = Whole /\ k > 0 /\ Written(k)
  BY WholeType
<1>b. PICK x, y : x = dp.addr /\ y = dp.addr + dp.len
  OBVIOUS
<1>3. /\ \A a \in Start .. MaxEnd :
            ~(dp.addr <= a /\ a < dp.addr + dp.len) => file'[a] = file[a]
      /\ ~Trailing => file'[dp.addr].head = FirstHead
      /\ Trailing => \A a \in Start .. MaxEnd : file'[a].head = file[a].head
      /\ file[dp.addr + dp.len - 1].tail => file'[dp.addr + dp.len - 1].tail
      /\ (dp.len <= Large \/ half) => file'[dp.addr + dp.len - 1].tail
      /\ dp.addr + dp.len <= file_end => file_end' = file_end
      /\ file' \in File /\ file_end' \in Start .. MaxEnd + 1
  <2>1. /\ \A a \in Start .. MaxEnd : ~(x <= a /\ a < y) => file'[a] = file[a]
        /\ ~Trailing => file'[x].head = FirstHead
        /\ Trailing => \A a \in Start .. MaxEnd : file'[a].head = file[a].head
        /\ file[y - 1].tail => file'[y - 1].tail
        /\ (dp.len <= Large \/ half) => file'[y - 1].tail
        /\ y <= file_end => file_end' = file_end
        /\ file' \in File /\ file_end' \in Start .. MaxEnd + 1
    BY <1>2, <1>b, WriteEffect
  <2>2. dp.addr + dp.len - 1 = y - 1
    BY <1>b, WritesInside
  <2>3. /\ file[dp.addr + dp.len - 1].tail => file'[dp.addr + dp.len - 1].tail
        /\ (dp.len <= Large \/ half) => file'[dp.addr + dp.len - 1].tail
    BY <2>1, <2>2
  <2>4. \A a \in Start .. MaxEnd :
            ~(dp.addr <= a /\ a < dp.addr + dp.len) => file'[a] = file[a]
    BY <1>b, <2>1
  <2>5. ~Trailing => file'[dp.addr].head = FirstHead
    BY <1>b, <2>1
  <2>6. dp.addr + dp.len <= file_end => file_end' = file_end
    BY <1>b, <2>1
  <2> QED
    BY <2>1, <2>3, <2>4, <2>5, <2>6
<1>4. /\ file \in File /\ file_end \in Start .. MaxEnd + 1 /\ file_end \in Nat
      /\ Marks(file_end, S) /\ MaxEnd \in Nat
  BY ConstantsAssumption DEF IInv, TypeOK, File, Tiling, Start
<1>5. /\ dp.len \in Nat \ {0} /\ dp.addr \in Nat /\ dp.addr \in Start .. MaxEnd
      /\ Length \in Nat \ {0} /\ Length < op.len /\ op.len \in Nat
      /\ pc = "front" => dp.addr = lo /\ dp.len = Length
      /\ pc = "back" => dp.addr = lo + Length /\ dp.len = op.len - Length
  BY <1>1, <1>4, WritesInside, BusyFacts DEF IInv, Stage, Start, Request
<1>6. file_end' = file_end
  BY <1>1, <1>3, <1>4, <1>5
<1>7. file'[dp.addr].head = [name |-> None, len |-> dp.len]
  <2>1. CASE Trailing
    <3>1. half /\ pc # "write"
      BY <2>1 DEF Trailing
    <3>2. file[dp.addr].head = [name |-> None, len |-> dp.len]
      BY <1>1, <3>1 DEF Inside
    <3> QED
      BY <1>3, <1>5, <2>1, <3>2
  <2> QED
    BY <1>3, <2>1 DEF FirstHead
<1>8. S \cap (lo .. hi - 1) = {lo} /\ file[hi - 1].tail
  BY <1>1 DEF Inside
<1>9. file'[hi - 1].tail
  <2>1. CASE pc = "front"
    <3>1. hi - 1 \in Start .. MaxEnd /\ ~(hi - 1 < dp.addr + dp.len)
      BY <1>1, <1>4, <1>5, <2>1 DEF Start
    <3> QED
      BY <1>3, <1>8, <3>1
  <2>2. CASE pc = "back"
    <3>1. dp.addr + dp.len - 1 = hi - 1
      BY <1>1, <1>5, <2>2
    <3> QED
      BY <1>3, <1>8, <3>1
  <2> QED
    BY <2>1, <2>2
<1>10. ASSUME pc = "back"
       PROVE  /\ Sound(file', file_end', lo) /\ Ends(file', lo) = dp.addr
              /\ Named(file', lo, None)
  <2>1. Sound(file, file_end, lo) /\ Ends(file, lo) = dp.addr /\ Named(file, lo, None)
    BY <1>1, <1>10 DEF Inside
  <2>2. /\ lo \in Start .. MaxEnd /\ lo < dp.addr
        /\ dp.addr - 1 \in Start .. MaxEnd /\ dp.addr - 1 < dp.addr
    BY <1>1, <1>4, <1>5, <1>10 DEF Start
  <2>3. file'[lo] = file[lo] /\ file'[dp.addr - 1] = file[dp.addr - 1]
    BY <1>3, <1>5, <2>2
  <2> QED
    BY <1>6, <2>1, <2>3 DEF Sound, Ends, Named
<1>11. \A a \in Start .. MaxEnd : ~(lo <= a /\ a < hi) => file'[a] = file[a]
  BY <1>1, <1>3, <1>4, <1>5 DEF Start
<1>12. \A t \in S : ~(lo <= t /\ t < hi) => Chained(file', file_end', S, t)
  <2>1. /\ lo \in S /\ hi \in S \cup {file_end} /\ lo < hi /\ file' \in File
        /\ \A s \in S : ~(lo <= s /\ s < hi) => Chained(file, file_end, S, s)
    BY <1>1, <1>3
  <2>2. S \subseteq S /\ \A t \in S : t \in S \/ (t \in Nat /\ lo <= t /\ t < hi)
    OBVIOUS
  <2>3. \A t \in S : ~(lo <= t /\ t < hi) => Chained(file', file_end, S, t)
    BY <1>4, <1>11, <2>1, <2>2, OutsideChained
  <2> QED
    BY <1>6, <2>3
<1>13. \A t \in S : (lo <= t /\ t < hi) => t = lo
  <2>1. \A t \in S : t \in Nat
    BY <1>4, MarksType
  <2> QED
    BY <1>1, <1>8, <2>1
<1>14. /\ Unique(file', S)
       /\ Kept(file', file_end', S, Settled(m))
       /\ ((\A n \in Names \ {m} : dir'[n] = dir[n]) /\ FreeUnits \subseteq FreeUnits') =>
                Match(S, file_end, {m}, lo, hi)'
  <2>1. Named(file', lo, None)
    <3>1. CASE pc = "front"
      BY <1>5, <1>7, <3>1, HeadNotNone DEF Named
    <3> QED
      BY <1>10, <3>1
  <2>2. \A n \in Names : ~Named(file', lo, n)
    BY <2>1, ConstantsAssumption DEF Named
  <2>3. \A t \in S : \/ t \in S /\ ~(lo <= t /\ t < hi)
                     \/ /\ lo <= t /\ t < hi
                        /\ \A n \in Names : Named(file', t, n) => n = m /\ t = lo
    BY <1>13, <2>2
  <2>4. file_end <= file_end' /\ Outside(S, lo, hi) \subseteq S
    BY <1>4, <1>6 DEF Outside
  <2>5. file' \in File /\ file_end' \in Start .. MaxEnd + 1 /\ pc \in Writes
    BY <1>3
  <2>6. Elsewhere(S, S, lo, hi, m)
    BY <1>11, <2>3, <2>4, <2>5 DEF Elsewhere
  <2> QED
    BY <2>5, <2>6, Others
<1>15. Marks(file_end', S) /\ lo \in S /\ hi \in S \cup {file_end'}
  BY <1>1, <1>4, <1>6
<1> QED
  BY <1>3, <1>6, <1>7, <1>8, <1>9, <1>10, <1>12, <1>14, <1>15 DEF Halved

LEMMA WriteHeaderTiles ==
    ASSUME IInv, NEW S, Tiling(S), WriteHeader
    PROVE  \E T : Tiling(T)'
<1> USE DEF Writes
<1>a. PICK lo, hi, m : Region(lo, hi, m) /\ lo = RegionLo /\ hi = RegionHi /\ m = op.name
  BY DEF Region
<1>0. /\ pc \in Writes \ {"write"} /\ ~half /\ dp.len > Large /\ Written(Whole)
      /\ half' = TRUE
      /\ UNCHANGED <<dir, dbi_freep, dbi_eof, dbi_read_only, pc, op, pos>>
      /\ UNCHANGED <<store, lost, crashes, torn>>
  BY DEF WriteHeader, memory, history
<1>1. /\ lo \in Nat /\ hi \in Nat /\ Start <= lo /\ lo < hi /\ hi <= MaxEnd + 1
      /\ lo <= dp.addr /\ dp.addr + dp.len <= hi
      /\ torn = {} /\ Busy /\ Inside(S, lo, hi) /\ ~Extending
      /\ lo \in S /\ hi \in S \cup {file_end} /\ hi <= file_end /\ dbi_eof = file_end
      /\ pc \in {"zap", "write", "delete"} => lo = dp.addr /\ hi = dp.addr + dp.len
      /\ pc = "surplus" => dp.addr = lo + Length /\ hi = dp.addr + dp.len
      /\ pc = "erase" => lo = dp.addr /\ dp.len = Length /\ hi = Ends(file, lo + Length)
      /\ m \in Names
  BY <1>a, <1>0, RegionFacts DEF Extending
<1>2. Whole \in 0 .. Whole /\ Whole > 0 /\ Whole \in Nat
  BY <1>0, WholeType
<1>3. dp' = dp /\ Length' = Length /\ Busy' /\ OwnName'
  BY <1>0, <1>1 DEF dp, Length, Busy, Tiling, OwnName
<1>4. ASSUME NEW T, Kept(file', file_end', T, Settled(m))
      PROVE  Kept(file, file_end, T, Names \ (lost \cup (IF Busy THEN {op.name} ELSE {})))'
  BY <1>a, <1>0, <1>3, <1>4 DEF Kept, Settled
<1>5. FreeUnits' = FreeUnits /\ \A n \in Names \ {m} : dir'[n] = dir[n]
  BY <1>0 DEF FreeUnits
<1>6. pc # "erase" => lo = RegionLo' /\ hi = RegionHi'
  BY <1>a, <1>0, <1>3 DEF RegionLo, RegionHi
<1>7. CASE pc \in {"zap", "delete"}
  <2>1. Rewriting(S, Whole, lo, hi, m)
    BY <1>a, <1>0, <1>1, <1>2, <1>7 DEF Rewriting
  <2>2. PICK T : T = Outside(S, lo, hi) \cup {lo}
    OBVIOUS
  <2>0. Remade(T, lo, hi, m)
    BY <2>1, <2>2, Rewritten
  <2>3. /\ Marks(file_end', T) /\ AllChained(file', file_end', T)
        /\ file'[lo].head = FirstHead
        /\ file_end' = IF Extending THEN hi ELSE file_end
        /\ Unique(file', T)
        /\ ((\A n \in Names \ {m} : dir'[n] = dir[n]) /\ FreeUnits \subseteq FreeUnits') =>
                Match(T, file_end, {m}, lo, hi)'
    BY <2>0 DEF Remade
  <2>4. Kept(file', file_end', T, Settled(m)) /\ lo \in T
    BY <2>0 DEF Remade
  <2>5. file_end' = file_end /\ Match(T, file_end, {m}, lo, hi)'
    BY <1>1, <1>5, <2>3
  <2>6. file'[hi - 1].tail
    <3>1. file[hi - 1].tail
      BY <1>1, <1>7 DEF Inside
    <3> QED
      BY <1>0, <1>1, <1>2, <1>7, <3>1, WriteEffect
  <2>7. hi \in T \cup {file_end'}
    BY <1>1, <2>2, <2>5 DEF Outside
  <2>8. \A s \in T : Chained(file, file_end, T, s)'
    BY <2>3 DEF AllChained, Chained, Sound, Ends
  <2>9. file'[dp.addr].head = [name |-> None, len |-> dp.len]
    BY <1>1, <1>7, <2>3 DEF FirstHead
  <2>10. pc = "zap" => lo .. hi - 1 \subseteq FreeUnits'
    BY <1>1, <1>5 DEF Inside
  <2>11. Inside(T, lo, hi)'
    BY <1>0, <1>1, <1>3, <1>7, <2>4, <2>5, <2>6, <2>7, <2>8, <2>9, <2>10 DEF Inside
  <2>12. Proceeds(T, lo, hi)
    BY <1>a, <1>0, <1>1, <1>3, <1>4, <1>6, <1>7, <2>3, <2>4, <2>5, <2>11, ChainedLoose
       DEF Proceeds, AllChained
  <2> QED
    BY <2>12, Proceeding
<1>8. CASE pc \in {"front", "back"}
  <2>1. Halving(S, lo, hi, m)
    BY <1>a, <1>0, <1>8 DEF Halving
  <2>0. Halved(S, lo, hi, m)
    BY <2>1, HalfWritten
  <2>2. /\ Marks(file_end', S) /\ file_end' = file_end
        /\ \A t \in S : ~(lo <= t /\ t < hi) => Chained(file', file_end', S, t)
        /\ lo \in S /\ hi \in S \cup {file_end'} /\ S \cap (lo .. hi - 1) = {lo}
        /\ file'[hi - 1].tail
        /\ pc = "back" => Sound(file', file_end', lo) /\ Ends(file', lo) = dp.addr
                             /\ Named(file', lo, None)
        /\ file'[dp.addr].head = [name |-> None, len |-> dp.len]
        /\ Unique(file', S)
        /\ ((\A n \in Names \ {m} : dir'[n] = dir[n]) /\ FreeUnits \subseteq FreeUnits') =>
                    Match(S, file_end, {m}, lo, hi)'
    BY <2>0 DEF Halved
  <2>3. Kept(file', file_end', S, Settled(m))
    BY <2>0 DEF Halved
  <2>4. Match(S, file_end, {m}, lo, hi)'
    BY <1>5, <2>2
  <2>5. pc = "back" => Sound(file, file_end, lo)' /\ (Ends(file, lo) = dp.addr)'
                         /\ Named(file, lo, None)'
    BY <1>3, <2>2 DEF Sound, Ends, Named
  <2>6. Inside(S, lo, hi)'
    BY <1>0, <1>1, <1>3, <1>8, <2>2, <2>5 DEF Inside
  <2>7. Proceeds(S, lo, hi)
    BY <1>a, <1>0, <1>1, <1>3, <1>4, <1>6, <1>8, <2>2, <2>3, <2>4, <2>6 DEF Proceeds
  <2> QED
    BY <2>7, Proceeding
<1>9. CASE pc \in {"surplus", "erase"}
  <2>1. PICK k : Dividing(S, k, lo, hi, m)
    BY <1>a, <1>0, <1>2, <1>9 DEF Dividing
  <2>2. PICK T : T = S \cup {dp.addr}
    OBVIOUS
  <2>0. Divided(T, lo, hi, m)
    BY <2>1, <2>2, HoleWritten
  <2>3. /\ Marks(file_end', T) /\ file_end' = file_end
        /\ \A t \in T : ~(lo <= t /\ t < hi) => Chained(file', file_end', T, t)
        /\ Hole(file', file_end', T, lo, hi) /\ Loose(file', file_end', T)
        /\ lo \in T /\ hi \in T \cup {file_end'}
        /\ file'[dp.addr].head = [name |-> None, len |-> dp.len]
        /\ Unique(file', T)
        /\ ((\A n \in Names \ {m} : dir'[n] = dir[n]) /\ FreeUnits \subseteq FreeUnits') =>
                Match(T, file_end, {m}, lo, hi)'
    BY <2>0 DEF Divided
  <2>4. Kept(file', file_end', T, Settled(m))
    BY <2>0 DEF Divided
  <2>5. Match(T, file_end, {m}, lo, hi)' /\ Hole(file, file_end, T, lo, hi)'
    BY <1>5, <2>3 DEF Hole, Named, Ends
  <2>6. /\ dp.addr \in Nat /\ dp.len \in Nat \ {0} /\ dp.len = dp.len
        /\ MaxEnd \in Nat
    BY <1>0, WritesInside, ConstantsAssumption
  <2>7. CASE pc = "surplus"
    <3>1. file'[hi - 1].tail
      <4>1. file[hi - 1].tail
        BY <1>1, <2>7 DEF Inside
      <4> QED
        BY <1>0, <1>1, <1>2, <2>7, <4>1, WriteEffect
    <3>2. /\ lo + Length = dp.addr /\ dp.addr \in T
          /\ Named(file', dp.addr, None) /\ Ends(file', dp.addr) = hi
      BY <1>1, <2>2, <2>3, <2>6, <2>7, HeadNotNone DEF Named, Ends
    <3>3. /\ (lo + Length)' = dp.addr /\ Named(file, dp.addr, None)'
          /\ Ends(file, dp.addr)' = hi
      BY <1>3, <3>2 DEF Named, Ends
    <3>4. Inside(T, lo, hi)'
      BY <1>0, <1>1, <1>3, <2>3, <2>5, <2>7, <3>1, <3>2, <3>3 DEF Inside
    <3>5. Proceeds(T, lo, hi)
      BY <1>a, <1>0, <1>1, <1>3, <1>4, <1>6, <2>3, <2>4, <2>5, <2>7, <3>4 DEF Proceeds
    <3> QED
      BY <3>5, Proceeding
  <2>8. CASE pc = "erase"
    <3>1. PICK mid : mid = lo + Length /\ mid = dp.addr + dp.len
      BY <1>1, <2>8
    <3>2. /\ mid \in S /\ Named(file, mid, None) /\ Ends(file, mid) = hi
          /\ Sound(file, file_end, mid) /\ mid .. hi - 1 \subseteq FreeUnits
      BY <1>1, <2>8, <3>1 DEF Inside
    <3>3. mid \in Start .. MaxEnd /\ hi - 1 \in Start .. MaxEnd /\ ~(mid < dp.addr + dp.len)
          /\ ~(hi - 1 < dp.addr + dp.len)
      <4>1. file \in File /\ mid \in Start .. MaxEnd /\ mid \in Nat
        <5>1. Marks(file_end, S) /\ file_end \in Start .. MaxEnd + 1 /\ file \in File
          BY DEF Tiling, IInv, TypeOK, File
        <5> QED
          BY <3>2, <5>1, MarksType
      <4>2. mid < hi
        BY <3>2, <4>1, HeadType DEF Named
      <4> QED
        BY <1>1, <2>6, <3>1, <4>1, <4>2 DEF Start
    <3>4. file'[mid] = file[mid] /\ file'[hi - 1] = file[hi - 1]
      BY <1>0, <1>2, <3>3, WriteEffect
    <3>5. /\ Named(file', mid, None) /\ Ends(file', mid) = hi /\ Sound(file', file_end', mid)
          /\ mid \in T
      BY <2>2, <2>3, <3>2, <3>4 DEF Named, Ends, Sound
    <3>6. /\ Named(file, mid, None)' /\ (Ends(file, mid) = hi)' /\ Sound(file, file_end, mid)'
          /\ mid = (lo + Length)' /\ mid = (dp.addr + dp.len)'
      BY <1>3, <3>1, <3>5 DEF Named, Ends, Sound
    <3>7. lo = RegionLo' /\ hi = RegionHi'
      BY <1>0, <1>1, <1>3, <2>8, <3>6 DEF RegionLo, RegionHi
    <3>8. mid .. hi - 1 \subseteq FreeUnits'
      BY <1>5, <3>2
    <3>9. Inside(T, lo, hi)'
      BY <1>0, <1>1, <1>3, <2>3, <2>5, <2>8, <3>5, <3>6, <3>8 DEF Inside
    <3>10. Proceeds(T, lo, hi)
      BY <1>a, <1>0, <1>1, <1>3, <1>4, <2>3, <2>4, <2>5, <2>8, <3>7, <3>9 DEF Proceeds
    <3> QED
      BY <3>10, Proceeding
  <2> QED
    BY <1>9, <2>7, <2>8
<1> QED
  BY <1>0, <1>7, <1>8, <1>9

-----------------------------------------------------------------------------
(* Each step keeps a tiling: db5_realloc.                                  *)

LEMMA ZappedTiles ==
    ASSUME IInv, NEW S, Tiling(S), Zapped
    PROVE  \E T : Tiling(T)'
<1> USE DEF Writes
<1>a. PICK lo, hi, m : Region(lo, hi, m) /\ lo = RegionLo /\ hi = RegionHi /\ m = op.name
  BY DEF Region
<1>0. /\ pc = "zap" /\ Written(Whole) /\ half' = FALSE /\ pc' = "allocate"
      /\ dir' = [dir EXCEPT ![op.name].addr = PhonyAddr]
      /\ UNCHANGED <<dbi_freep, dbi_eof, op, store, lost, torn>>
  BY DEF Zapped, LastWrite, history
<1>1. /\ lo \in Nat /\ hi \in Nat /\ lo < hi /\ torn = {} /\ Busy /\ Inside(S, lo, hi)
      /\ ~Extending /\ dbi_eof = file_end /\ lo = dp.addr /\ hi = dp.addr + dp.len
      /\ m \in Names
  BY <1>a, <1>0, RegionFacts DEF Extending
<1>2. Whole \in 0 .. Whole /\ Whole > 0
  BY <1>0, WholeType
<1>3. Rewriting(S, Whole, lo, hi, m)
  BY <1>a, <1>0, <1>1, <1>2 DEF Rewriting
<1>4. PICK T : T = Outside(S, lo, hi) \cup {lo}
  OBVIOUS
<1>5. Remade(T, lo, hi, m)
  BY <1>3, <1>4, Rewritten
<1>6. /\ Marks(file_end', T) /\ AllChained(file', file_end', T)
      /\ file'[lo].head = FirstHead /\ Ends(file', lo) = hi
      /\ file_end' = IF Extending THEN hi ELSE file_end
      /\ Unique(file', T)
      /\ ((\A n \in Names \ {m} : dir'[n] = dir[n]) /\ FreeUnits \subseteq FreeUnits') =>
              Match(T, file_end, {m}, lo, hi)'
      /\ Kept(file', file_end', T, Settled(m))
  BY <1>5 DEF Remade
<1>7. FreeUnits' = FreeUnits /\ \A n \in Names \ {m} : dir'[n] = dir[n]
  <2>1. dir \in [Names -> Place]
    BY <1>0, BusyFacts
  <2> QED
    BY <1>a, <1>0, <2>1 DEF FreeUnits
<1>8. Match(T, file_end, {m}, lo, hi)' /\ file_end' = file_end
  BY <1>1, <1>6, <1>7
<1>9. \A t \in T : (lo <= t /\ t < hi) => t = lo
  BY <1>4 DEF Outside
<1>10. file'[lo].head.name = None
  BY <1>0, <1>6 DEF FirstHead
<1>11. Match(T, file_end, {m}, Start, Start)'
  <2>1. ASSUME NEW s \in T, s < file_end', Named(file', s, None)
        PROVE  s .. Ends(file', s) - 1 \subseteq FreeUnits'
    <3>1. CASE lo <= s /\ s < hi
      <4>1. s = lo
        BY <1>9, <3>1
      <4>2. lo .. hi - 1 \subseteq FreeUnits
        BY <1>0, <1>1 DEF Inside
      <4> QED
        BY <1>6, <1>7, <4>1, <4>2
    <3>2. CASE ~(lo <= s /\ s < hi)
      BY <1>8, <2>1, <3>2 DEF Match
    <3> QED
      BY <3>1, <3>2
  <2>2. \A s \in T : ~Named(file', s, m)
    BY <1>1, <1>8, <1>9, <1>10, ConstantsAssumption DEF Match, Named
  <2>3. op'.name = m
    BY <1>a, <1>0
  <2>4. \A n \in Names \ {m} :
            \/ dir'[n] = Absent
            \/ /\ dir'[n].addr \in T /\ dir'[n].addr < file_end'
               /\ file'[dir'[n].addr].head = [name |-> n, len |-> dir'[n].len]
    BY <1>8 DEF Match
  <2>5. \A s \in T, n \in Names \ {m} :
            (s < file_end' /\ Named(file', s, n)) => dir'[n].addr = s
    BY <1>8 DEF Match
  <2> QED
    BY <2>1, <2>2, <2>3, <2>4, <2>5 DEF Match
<1>12. Busy' /\ OwnName'
  BY <1>0, <1>1 DEF Busy, Tiling, OwnName
<1>13. Kept(file, file_end, T, Names \ (lost \cup {m}))'
  BY <1>0, <1>6 DEF Kept, Settled
<1>14. RegionLo' = Start /\ RegionHi' = Start
  BY <1>0 DEF RegionLo, RegionHi
<1>15. Proceeds(T, Start, Start)
  BY <1>a, <1>0, <1>1, <1>6, <1>8, <1>11, <1>12, <1>13, <1>14, ChainedLoose
     DEF Proceeds, AllChained
<1> QED
  BY <1>15, Proceeding

LEMMA FrontErasedTiles ==
    ASSUME IInv, NEW S, Tiling(S), FrontErased
    PROVE  \E T : Tiling(T)'
<1> USE DEF Writes
<1>a. PICK lo, hi, m : Region(lo, hi, m) /\ lo = RegionLo /\ hi = RegionHi /\ m = op.name
  BY DEF Region
<1>0. /\ pc = "front" /\ Written(Whole) /\ half' = FALSE /\ pc' = "back"
      /\ dp.len <= Large \/ half
      /\ dir' = [dir EXCEPT ![op.name] = [addr |-> op.addr + Length, len |-> op.len - Length]]
      /\ UNCHANGED <<dbi_freep, dbi_eof, op, store, lost, torn>>
  BY DEF FrontErased, LastWrite, Moved, history
<1>1. /\ lo \in Nat /\ hi \in Nat /\ lo < hi /\ torn = {} /\ Busy /\ Inside(S, lo, hi)
      /\ dbi_eof = file_end /\ lo = op.addr /\ hi = lo + op.len /\ hi <= file_end
      /\ dp.addr + dp.len <= hi /\ m \in Names
      /\ ~Extending
  BY <1>a, <1>0, RegionFacts DEF Extending
<1>2. Halving(S, lo, hi, m)
  BY <1>a, <1>0 DEF Halving
<1>3. Halved(S, lo, hi, m)
  BY <1>2, HalfWritten
<1>4. /\ Marks(file_end', S) /\ file_end' = file_end
      /\ \A t \in S : ~(lo <= t /\ t < hi) => Chained(file', file_end', S, t)
      /\ lo \in S /\ hi \in S \cup {file_end'} /\ S \cap (lo .. hi - 1) = {lo}
      /\ file'[hi - 1].tail
      /\ file'[dp.addr].head = [name |-> None, len |-> dp.len]
      /\ file'[dp.addr + dp.len - 1].tail
      /\ Unique(file', S)
      /\ ((\A n \in Names \ {m} : dir'[n] = dir[n]) /\ FreeUnits \subseteq FreeUnits') =>
                Match(S, file_end, {m}, lo, hi)'
      /\ Kept(file', file_end', S, Settled(m))
  BY <1>0, <1>3 DEF Halved
<1>5. /\ dir \in [Names -> Place] /\ dp.addr = lo /\ dp.len = Length /\ Length \in Nat \ {0}
  BY <1>0, <1>1, BusyFacts DEF IInv, Stage
<1>6. Match(S, file_end, {m}, lo, hi)'
  <2>1. FreeUnits' = FreeUnits /\ \A n \in Names \ {m} : dir'[n] = dir[n]
    BY <1>a, <1>0, <1>5 DEF FreeUnits
  <2> QED
    BY <1>4, <2>1
<1>7. /\ dp'.addr = lo + Length /\ op'.addr = lo /\ op'.len = op.len
  BY <1>a, <1>0, <1>1, <1>5 DEF dp
<1>8. lo = RegionLo' /\ hi = RegionHi'
  BY <1>0, <1>1 DEF RegionLo, RegionHi
<1>9. Ends(file', lo) = lo + Length /\ Named(file', lo, None)
  BY <1>4, <1>5, HeadNotNone DEF Ends, Named
<1>10. Sound(file', file_end', lo)
  <2>0. PICK mid : mid = lo + Length
    OBVIOUS
  <2>1. op.len \in Nat /\ Length < op.len
    BY <1>0, BusyFacts DEF IInv, Stage, Request
  <2>2. mid <= file_end' /\ mid \in Nat
    <3>1. file_end \in Nat
      BY DEF IInv, TypeOK, Start
    <3>2. lo + Length <= lo + op.len /\ lo + Length \in Nat /\ hi = lo + op.len
      BY <1>1, <1>5, <2>1
    <3>3. lo + Length <= hi
      BY <3>2
    <3> QED
      BY <1>1, <1>4, <2>0, <3>1, <3>2, <3>3
  <2>3. dp.addr + dp.len - 1 = mid - 1
    BY <1>1, <1>5, <2>0
  <2>4. file'[mid - 1].tail
    BY <1>4, <2>3
  <2>5. file'[lo].head # None /\ Ends(file', lo) = mid
    BY <1>9, <2>0 DEF Named
  <2> QED
    BY <2>2, <2>4, <2>5 DEF Sound
<1>11. Inside(S, lo, hi)'
  <2>1. Sound(file, file_end, lo)' /\ (Ends(file, lo) = dp.addr)' /\ Named(file, lo, None)'
    BY <1>7, <1>9, <1>10 DEF Sound, Ends, Named
  <2> QED
    BY <1>0, <1>1, <1>4, <2>1 DEF Inside
<1>12. Busy' /\ OwnName'
  BY <1>0, <1>1 DEF Busy, Tiling, OwnName
<1>13. Kept(file, file_end, S, Names \ (lost \cup {m}))'
  BY <1>0, <1>4 DEF Kept, Settled
<1>14. Proceeds(S, lo, hi)
  BY <1>a, <1>0, <1>1, <1>4, <1>6, <1>8, <1>11, <1>12, <1>13 DEF Proceeds
<1> QED
  BY <1>14, Proceeding

LEMMA FreedPlace ==
    ASSUME IInv, pc \in {"back", "surplus", "delete"}, Freed
    PROVE  /\ FreeUnits \subseteq FreeUnits'
           /\ dp.addr .. dp.addr + dp.len - 1 \subseteq FreeUnits'
<1>1. pc \in Writes
  BY DEF Writes
<1>2. /\ dp.addr \in Nat /\ dp.len \in Nat \ {0} /\ dbi_freep \subseteq Extent /\ Apart(dbi_freep)
      /\ op.name \in Names /\ Claims[op.name] = OpClaim /\ Layout(dbi_freep, Claims, dbi_eof)
      /\ op \in Request
  BY <1>1, WritesInside, BusyFacts
<1>3. pc # "delete" => Length \in Nat
  BY <1>1, BusyFacts
<1>4. OpClaim.addr # PhonyAddr =>
          \A e \in dbi_freep : Clear(e, OpClaim.addr, OpClaim.len)
  BY <1>2 DEF Layout
<1>5. ASSUME NEW e \in dbi_freep PROVE Clear(e, dp.addr, dp.len)
  <2>1. e.addr \in Nat /\ After(e) \in Nat
    BY <1>2 DEF Extent, After
  <2>2. CASE pc = "back"
    <3>1. OpClaim = [addr |-> op.addr, len |-> op.len]
      BY <2>2 DEF OpClaim
    <3>2. /\ op.addr # PhonyAddr /\ dp.addr = op.addr + Length /\ dp.len = op.len - Length
          /\ op.addr \in Nat \cup {PhonyAddr} /\ op.len \in Nat
      BY <1>2, <2>2 DEF IInv, Stage, Request
    <3> QED
      BY <1>2, <1>3, <1>4, <2>1, <2>2, <3>1, <3>2 DEF Clear
  <2>3. CASE pc = "surplus"
    <3>1. OpClaim = [addr |-> dp.addr - Length, len |-> Length + dp.len]
      BY <2>3 DEF OpClaim
    <3>2. Start + Length <= dp.addr
      BY <2>3 DEF IInv, Stage
    <3> QED
      BY <1>2, <1>3, <1>4, <2>1, <2>3, <3>1, <3>2 DEF Clear, PhonyAddr, Start
  <2>4. CASE pc = "delete"
    <3>1. OpClaim = dp
      BY <2>4 DEF OpClaim
    <3> QED
      BY <1>2, <1>4, <3>1 DEF PhonyAddr
  <2> QED
    BY <2>2, <2>3, <2>4
<1>6. UnitsOf(dbi_freep) \cup (dp.addr .. dp.addr + dp.len - 1)
            \subseteq UnitsOf(rt_memfree(dbi_freep, dp.len, dp.addr))
  BY <1>2, <1>5, FreedUnits
<1> QED
  BY <1>6 DEF FreeUnits, UnitsOf, Freed

(* Two free objects where the object will be written, the first its place. *)
Splitting(S, lo, mid, hi, m) ==
    /\ Tiling(S) /\ Region(lo, hi, m) /\ pc \in {"back", "erase"}
    /\ file' \in File /\ file_end' = file_end
    /\ \A a \in Start .. MaxEnd : ~(lo <= a /\ a < hi) => file'[a] = file[a]
    /\ mid \in Nat /\ lo < mid /\ mid < hi
    /\ Sound(file', file_end', lo) /\ Ends(file', lo) = mid /\ Named(file', lo, None)
    /\ Sound(file', file_end', mid) /\ Ends(file', mid) = hi /\ Named(file', mid, None)
    /\ FreeUnits \subseteq FreeUnits' /\ mid .. hi - 1 \subseteq FreeUnits'
    /\ pc' = "write" /\ half' = FALSE
    /\ dp'.addr = lo /\ dp'.addr + dp'.len = mid
    /\ \A n \in Names \ {m} : dir'[n] = dir[n]
    /\ UNCHANGED <<op, store, lost, torn, dbi_eof>>

LEMMA SplitTiles ==
    ASSUME IInv, NEW S, NEW lo, NEW mid, NEW hi, NEW m, Splitting(S, lo, mid, hi, m)
    PROVE  \E T : Tiling(T)'
<1> USE DEF Splitting
<1>a. lo = RegionLo /\ hi = RegionHi /\ m = op.name /\ pc \in Writes
  BY DEF Region, Writes
<1>1. /\ lo \in Nat /\ hi \in Nat /\ Start <= lo /\ lo < hi
      /\ torn = {} /\ Busy
      /\ \A s \in S : ~(lo <= s /\ s < hi) => Chained(file, file_end, S, s)
      /\ lo \in S /\ hi \in S \cup {file_end} /\ dbi_eof = file_end /\ hi <= file_end
      /\ m \in Names
  BY <1>a, RegionFacts DEF Extending
<1>2. /\ file \in File /\ file_end \in Start .. MaxEnd + 1 /\ file_end \in Nat
      /\ Marks(file_end, S) /\ MaxEnd \in Nat
  BY ConstantsAssumption DEF IInv, TypeOK, File, Tiling, Start
<1>3. PICK R, T : R = {lo, mid} /\ T = Outside(S, lo, hi) \cup R
  OBVIOUS
<1>4. Retiling(file, file', file_end, file_end', S, lo, hi, R)
  <2>1. R \subseteq lo .. hi - 1 /\ lo \in R
    BY <1>1, <1>3
  <2>2. \A r \in R : /\ Sound(file', file_end', r) /\ Ends(file', r) \in R \cup {hi}
                     /\ \A t \in R : r < t => Ends(file', r) <= t
    <3>1. \A r \in R : r = lo \/ r = mid
      BY <1>3
    <3>2. mid \in R
      BY <1>3
    <3>3. ASSUME NEW t \in R, lo < t PROVE mid <= t
      BY <1>1, <3>1, <3>3
    <3>4. \A t \in R : ~(mid < t)
      BY <1>1, <3>1
    <3> HIDE DEF Splitting
    <3>5. /\ Sound(file', file_end', lo) /\ Ends(file', lo) = mid
          /\ Sound(file', file_end', mid) /\ Ends(file', mid) = hi
      BY DEF Splitting
    <3> QED
      BY <3>1, <3>2, <3>3, <3>4, <3>5
  <2>3. \A s \in S : ~(lo <= s /\ s < hi) => Chained(file, file_end, S, s)
    BY <1>1
  <2>4. \A a \in Start .. MaxEnd : ~(lo <= a /\ a < hi) => file'[a] = file[a]
    OBVIOUS
  <2>5. file \in File /\ file' \in File /\ file_end' \in Start .. MaxEnd + 1
    BY <1>2
  <2> QED
    BY <1>1, <1>2, <2>1, <2>2, <2>3, <2>4, <2>5 DEF Retiling
<1>5. Marks(file_end', T) /\ AllChained(file', file_end', T)
  BY <1>3, <1>4, Retile
<1>6. \A t \in T : (t \in S /\ ~(lo <= t /\ t < hi)) \/ t = lo \/ t = mid
  BY <1>3 DEF Outside
<1>7. \A n \in Names : ~Named(file', lo, n) /\ ~Named(file', mid, n)
  BY ConstantsAssumption DEF Named
<1>8. Elsewhere(S, T, lo, hi, m)
  <2>1. \A t \in T : \/ t \in S /\ ~(lo <= t /\ t < hi)
                     \/ /\ lo <= t /\ t < hi
                        /\ \A n \in Names : Named(file', t, n) => n = m /\ t = lo
    BY <1>1, <1>6, <1>7
  <2>2. Outside(S, lo, hi) \subseteq T
    BY <1>3
  <2> QED
    BY <1>2, <2>1, <2>2 DEF Elsewhere
<1>9. /\ Unique(file', T) /\ Kept(file', file_end', T, Settled(m))
      /\ Match(T, file_end, {m}, lo, hi)'
  <2>1. (\A n \in Names \ {m} : dir'[n] = dir[n]) /\ FreeUnits \subseteq FreeUnits'
    OBVIOUS
  <2> QED
    BY <1>a, <1>8, <2>1, Others
<1>10. Match(T, file_end, {m}, lo, mid)'
  <2>1. ASSUME NEW s \in T, s < file_end', ~(lo <= s /\ s < mid), Named(file', s, None)
        PROVE  s .. Ends(file', s) - 1 \subseteq FreeUnits'
    <3>1. CASE s = mid
      BY <3>1
    <3>2. CASE s # mid
      <4>1. ~(lo <= s /\ s < hi)
        BY <1>1, <1>6, <2>1, <3>2
      <4> QED
        BY <1>9, <2>1, <4>1 DEF Match
    <3> QED
      BY <3>1, <3>2
  <2>2. \A s \in T : ~Named(file', s, m)
    BY <1>1, <1>6, <1>7, <1>9 DEF Match
  <2>3. \A n \in Names \ {m} :
            \/ dir'[n] = Absent
            \/ /\ dir'[n].addr \in T /\ dir'[n].addr < file_end'
               /\ file'[dir'[n].addr].head = [name |-> n, len |-> dir'[n].len]
    BY <1>9 DEF Match
  <2>4. \A s \in T, n \in Names \ {m} :
            (s < file_end' /\ Named(file', s, n)) => dir'[n].addr = s
    BY <1>9 DEF Match
  <2> QED
    BY <2>1, <2>2, <2>3, <2>4 DEF Match
<1>11. lo = RegionLo' /\ mid = RegionHi'
  BY DEF RegionLo, RegionHi
<1>12. \A t \in T : Chained(file, file_end, T, t)' /\ Chained(file', file_end', T, t)
  BY <1>5 DEF AllChained, Chained, Sound, Ends
<1>13. Inside(T, lo, mid)'
  BY <1>1, <1>3, <1>12 DEF Inside
<1>14. Busy' /\ OwnName' /\ op'.name = m
  BY <1>a, <1>1 DEF Busy, Tiling, OwnName
<1>15. Kept(file, file_end, T, Names \ (lost \cup {m}))'
  BY <1>9 DEF Kept, Settled
<1>16. Loose(file', file_end', T)
  BY <1>5, ChainedLoose
<1>17. Proceeds(T, lo, mid)
  BY <1>1, <1>5, <1>9, <1>10, <1>11, <1>12, <1>13, <1>14, <1>15, <1>16 DEF Proceeds, Writes
<1> QED
  BY <1>17, Proceeding

LEMMA BackErasedTiles ==
    ASSUME IInv, NEW S, Tiling(S), BackErased
    PROVE  \E T : Tiling(T)'
<1> USE DEF Writes
<1>a. PICK lo, hi, m : Region(lo, hi, m) /\ lo = RegionLo /\ hi = RegionHi /\ m = op.name
  BY DEF Region
<1>0. /\ pc = "back" /\ Written(Whole) /\ half' = FALSE /\ pc' = "write"
      /\ dp.len <= Large \/ half
      /\ dir' = [dir EXCEPT ![op.name] = [addr |-> op.addr, len |-> Length]]
      /\ Freed
      /\ UNCHANGED <<dbi_eof, op, store, lost, torn>>
  BY DEF BackErased, LastWrite, Moved, history
<1>1. /\ lo \in Nat /\ hi \in Nat /\ lo < hi /\ Start <= lo /\ torn = {} /\ Busy
      /\ Inside(S, lo, hi)
      /\ dbi_eof = file_end /\ lo = op.addr /\ hi = lo + op.len /\ hi <= file_end
      /\ m \in Names
  BY <1>a, <1>0, RegionFacts DEF Extending
<1>2. Halving(S, lo, hi, m)
  BY <1>a, <1>0 DEF Halving
<1>3. Halved(S, lo, hi, m)
  BY <1>2, HalfWritten
<1>4. PICK mid : mid = dp.addr
  OBVIOUS
<1>5. /\ mid = lo + Length /\ dp.len = op.len - Length /\ Length < op.len
      /\ Length \in Nat \ {0} /\ op.len \in Nat /\ dir \in [Names -> Place]
      /\ mid \in Nat /\ lo < mid /\ mid < hi /\ mid + dp.len = hi /\ dp.len \in Nat \ {0}
  <2>1. /\ mid = lo + Length /\ dp.len = op.len - Length /\ Length < op.len
        /\ Length \in Nat \ {0} /\ op.len \in Nat /\ dir \in [Names -> Place]
    BY <1>0, <1>1, <1>4, BusyFacts DEF IInv, Stage, Request
  <2> QED
    BY <1>1, <2>1
<1>6. /\ file_end' = file_end
      /\ Sound(file', file_end', lo) /\ Ends(file', lo) = mid /\ Named(file', lo, None)
      /\ file'[mid].head = [name |-> None, len |-> dp.len]
      /\ file'[hi - 1].tail
  BY <1>0, <1>3, <1>4 DEF Halved
<1>7. Named(file', mid, None) /\ Ends(file', mid) = hi
  BY <1>5, <1>6, HeadNotNone DEF Ends, Named
<1>8. Sound(file', file_end', mid)
  BY <1>1, <1>6, <1>7 DEF Sound, Named
<1>9. FreeUnits \subseteq FreeUnits' /\ mid .. hi - 1 \subseteq FreeUnits'
  <2>1. FreeUnits \subseteq FreeUnits' /\ dp.addr .. dp.addr + dp.len - 1 \subseteq FreeUnits'
    BY <1>0, FreedPlace
  <2>2. dp.addr .. dp.addr + dp.len - 1 = mid .. hi - 1
    BY <1>4, <1>5
  <2> QED
    BY <2>1, <2>2
<1>10. dp'.addr = lo /\ dp'.addr + dp'.len = mid
  BY <1>a, <1>0, <1>1, <1>5 DEF dp
<1>11. \A n \in Names \ {m} : dir'[n] = dir[n]
  BY <1>a, <1>0, <1>5
<1>12. file' \in File
  BY <1>0, WholeType, WriteEffect
<1>13. \A a \in Start .. MaxEnd : ~(lo <= a /\ a < hi) => file'[a] = file[a]
  <2>1. PICK y : y = dp.addr + dp.len
    OBVIOUS
  <2>2. \A a \in Start .. MaxEnd : ~(mid <= a /\ a < y) => file'[a] = file[a]
    BY <1>0, <1>4, <2>1, WholeType, WriteEffect
  <2>3. y = hi
    BY <1>4, <1>5, <2>1
  <2> QED
    BY <1>1, <1>5, <2>2, <2>3 DEF Start
<1>14. Splitting(S, lo, mid, hi, m)
  BY <1>a, <1>0, <1>5, <1>6, <1>7, <1>8, <1>9, <1>10, <1>11, <1>12, <1>13 DEF Splitting
<1> QED
  BY <1>14, SplitTiles

LEMMA SurplusErasedTiles ==
    ASSUME IInv, NEW S, Tiling(S), SurplusErased
    PROVE  \E T : Tiling(T)'
<1> USE DEF Writes
<1>a. PICK lo, hi, m : Region(lo, hi, m) /\ lo = RegionLo /\ hi = RegionHi /\ m = op.name
  BY DEF Region
<1>0. /\ pc = "surplus" /\ Written(Whole) /\ half' = FALSE /\ pc' = "erase"
      /\ dp.len <= Large \/ half
      /\ dir' = [dir EXCEPT ![op.name] = [addr |-> dp.addr - Length, len |-> Length]]
      /\ Freed
      /\ UNCHANGED <<dbi_eof, op, store, lost, torn>>
  BY DEF SurplusErased, LastWrite, Moved, history
<1>1. PICK mid : mid = dp.addr
  OBVIOUS
<1>2. /\ lo \in Nat /\ hi \in Nat /\ lo < hi /\ Start <= lo /\ torn = {} /\ Busy
      /\ mid = lo + Length /\ hi = mid + dp.len
      /\ dbi_eof = file_end /\ hi <= file_end
      /\ m \in Names
  BY <1>a, <1>0, <1>1, RegionFacts DEF Extending
<1>3. /\ Length \in Nat \ {0} /\ dir \in [Names -> Place] /\ mid \in Nat
      /\ dp.len \in Nat \ {0} /\ mid - Length = lo
  <2>1. Length \in Nat \ {0} /\ dir \in [Names -> Place] /\ dp.len \in Nat \ {0}
    BY <1>0, BusyFacts, WritesInside
  <2> QED
    BY <1>2, <2>1
<1>4. Whole \in 0 .. Whole /\ Whole > 0
  BY <1>0, WholeType
<1>5. PICK k : Dividing(S, k, lo, hi, m)
  BY <1>a, <1>0, <1>4 DEF Dividing
<1>6. PICK T : T = S \cup {dp.addr}
  OBVIOUS
<1>7. Divided(T, lo, hi, m)
  BY <1>5, <1>6, HoleWritten
<1>8. /\ Marks(file_end', T) /\ file_end' = file_end
      /\ \A t \in T : ~(lo <= t /\ t < hi) => Chained(file', file_end', T, t)
      /\ Hole(file', file_end', T, lo, hi) /\ Loose(file', file_end', T)
      /\ lo \in T /\ hi \in T \cup {file_end'}
      /\ file'[mid].head = [name |-> None, len |-> dp.len]
      /\ Unique(file', T)
      /\ ((\A n \in Names \ {m} : dir'[n] = dir[n]) /\ FreeUnits \subseteq FreeUnits') =>
              Match(T, file_end, {m}, lo, hi)'
      /\ Kept(file', file_end', T, Settled(m))
  BY <1>1, <1>7 DEF Divided
<1>9. Named(file', mid, None) /\ Ends(file', mid) = hi
  BY <1>2, <1>3, <1>8, HeadNotNone DEF Ends, Named
<1>10. file'[hi - 1].tail
  BY <1>0, <1>1, <1>2, WholeType, WriteEffect
<1>11. Sound(file', file_end', mid)
  BY <1>2, <1>8, <1>9, <1>10 DEF Sound, Named
<1>12. FreeUnits \subseteq FreeUnits' /\ mid .. hi - 1 \subseteq FreeUnits'
  <2>1. FreeUnits \subseteq FreeUnits' /\ dp.addr .. dp.addr + dp.len - 1 \subseteq FreeUnits'
    BY <1>0, FreedPlace
  <2>2. dp.addr .. dp.addr + dp.len - 1 = mid .. hi - 1
    BY <1>1, <1>2, <1>3
  <2> QED
    BY <2>1, <2>2
<1>13. dp' = [addr |-> lo, len |-> Length] /\ Length' = Length /\ op'.name = m
  BY <1>a, <1>0, <1>1, <1>2, <1>3 DEF dp, Length
<1>14. \A n \in Names \ {m} : dir'[n] = dir[n]
  BY <1>a, <1>0, <1>3
<1>15. Match(T, file_end, {m}, lo, hi)'
  BY <1>8, <1>12, <1>14
<1>16. (dp.addr + dp.len)' = mid /\ (lo + Length)' = mid
  BY <1>2, <1>13
<1>17. lo = RegionLo' /\ hi = RegionHi'
  <2>1. Ends(file, dp.addr + dp.len)' = hi
    BY <1>9, <1>16 DEF Ends
  <2> QED
    BY <1>0, <1>13, <2>1 DEF RegionLo, RegionHi
<1>18. /\ Named(file, mid, None)' /\ (Ends(file, mid) = hi)' /\ Sound(file, file_end, mid)'
       /\ Hole(file, file_end, T, lo, hi)'
  BY <1>8, <1>9, <1>11 DEF Named, Ends, Sound, Hole
<1>19. mid \in T
  BY <1>1, <1>6
<1>20. Inside(T, lo, hi)'
  BY <1>0, <1>2, <1>8, <1>12, <1>16, <1>18, <1>19 DEF Inside
<1>21. Busy' /\ OwnName'
  BY <1>0, <1>2 DEF Busy, Tiling, OwnName
<1>22. Kept(file, file_end, T, Names \ (lost \cup {m}))'
  BY <1>0, <1>8 DEF Kept, Settled
<1>23. Proceeds(T, lo, hi)
  BY <1>0, <1>2, <1>8, <1>13, <1>15, <1>17, <1>20, <1>21, <1>22 DEF Proceeds
<1> QED
  BY <1>23, Proceeding

LEMMA PlaceErasedTiles ==
    ASSUME IInv, NEW S, Tiling(S), PlaceErased
    PROVE  \E T : Tiling(T)'
<1> USE DEF Writes
<1>a. PICK lo, hi, m : Region(lo, hi, m) /\ lo = RegionLo /\ hi = RegionHi /\ m = op.name
  BY DEF Region
<1>0. /\ pc = "erase" /\ Written(Whole) /\ half' = FALSE /\ pc' = "write"
      /\ dp.len <= Large \/ half
      /\ UNCHANGED <<dir, dbi_freep, dbi_eof, op, store, lost, torn>>
  BY DEF PlaceErased, LastWrite, history
<1>1. PICK mid : mid = dp.addr + dp.len
  OBVIOUS
<1>2. /\ lo \in Nat /\ hi \in Nat /\ lo < hi /\ Start <= lo /\ torn = {} /\ Busy
      /\ lo = dp.addr /\ dp.len = Length /\ mid = lo + Length
      /\ dbi_eof = file_end /\ hi <= file_end /\ hi <= MaxEnd + 1
      /\ Inside(S, lo, hi) /\ m \in Names
  BY <1>a, <1>0, <1>1, RegionFacts DEF Extending
<1>3. Length \in Nat \ {0} /\ mid \in Nat /\ lo < mid /\ MaxEnd \in Nat
  <2>1. Length \in Nat \ {0}
    BY <1>0, BusyFacts
  <2> QED
    BY <1>2, <2>1, ConstantsAssumption
<1>4. /\ mid \in S /\ Named(file, mid, None) /\ Ends(file, mid) = hi
      /\ Sound(file, file_end, mid) /\ mid .. hi - 1 \subseteq FreeUnits
  BY <1>0, <1>1, <1>2 DEF Inside
<1>5. mid < hi
  <2>1. mid \in Start .. MaxEnd
    BY <1>4, MarksType DEF Tiling, IInv, TypeOK
  <2>2. file \in File
    BY DEF IInv, TypeOK, File
  <2> QED
    BY <1>4, <2>1, <2>2, HeadType DEF Named
<1>6. Whole \in 0 .. Whole /\ Whole > 0
  BY <1>0, WholeType
<1>7. PICK k : Dividing(S, k, lo, hi, m)
  BY <1>a, <1>0, <1>6 DEF Dividing
<1>8. Divided(S \cup {dp.addr}, lo, hi, m)
  BY <1>7, HoleWritten
<1>9. file_end' = file_end /\ file'[lo].head = [name |-> None, len |-> Length]
  BY <1>2, <1>8 DEF Divided
<1>10. /\ \A a \in Start .. MaxEnd : ~(lo <= a /\ a < mid) => file'[a] = file[a]
       /\ file'[mid - 1].tail /\ file' \in File
  BY <1>0, <1>1, <1>2, WholeType, WriteEffect
<1>11. Ends(file', lo) = mid /\ Named(file', lo, None)
  BY <1>2, <1>3, <1>9, HeadNotNone DEF Ends, Named
<1>12. Sound(file', file_end', lo)
  <2>1. mid <= file_end'
    <3>1. file_end \in Nat
      BY DEF IInv, TypeOK, Start
    <3> QED
      BY <1>2, <1>3, <1>5, <1>9, <3>1
  <2> QED
    BY <1>10, <1>11, <2>1 DEF Sound, Named
<1>13. file'[mid] = file[mid] /\ file'[hi - 1] = file[hi - 1]
  <2>1. mid \in Start .. MaxEnd /\ hi - 1 \in Start .. MaxEnd
        /\ ~(mid < mid) /\ ~(hi - 1 < mid)
    BY <1>2, <1>3, <1>5 DEF Start
  <2> QED
    BY <1>10, <2>1
<1>14. Named(file', mid, None) /\ Ends(file', mid) = hi /\ Sound(file', file_end', mid)
  BY <1>4, <1>9, <1>13 DEF Named, Ends, Sound
<1>15. \A a \in Start .. MaxEnd : ~(lo <= a /\ a < hi) => file'[a] = file[a]
  BY <1>2, <1>3, <1>5, <1>10 DEF Start
<1>16. FreeUnits' = FreeUnits /\ dp' = dp
  BY <1>0 DEF FreeUnits, dp
<1>17. FreeUnits \subseteq FreeUnits' /\ mid .. hi - 1 \subseteq FreeUnits'
  BY <1>4, <1>16
<1>18. Splitting(S, lo, mid, hi, m)
  BY <1>a, <1>0, <1>1, <1>2, <1>3, <1>5, <1>9, <1>10, <1>11, <1>12, <1>14, <1>15, <1>16,
     <1>17 DEF Splitting
<1> QED
  BY <1>18, SplitTiles

LEMMA ObjectWrittenTiles ==
    ASSUME IInv, NEW S, Tiling(S), ObjectWritten
    PROVE  \E T : Tiling(T)'
<1> USE DEF Writes
<1>a. PICK lo, hi, m : Region(lo, hi, m) /\ lo = RegionLo /\ hi = RegionHi /\ m = op.name
  BY DEF Region
<1>0. /\ pc = "write" /\ Written(Whole) /\ half' = FALSE /\ pc' = "idle"
      /\ store' = [store EXCEPT ![op.name] = op.content] /\ lost' = lost \ {op.name}
      /\ UNCHANGED <<dir, dbi_freep, dbi_eof, dbi_read_only, torn>>
  BY DEF ObjectWritten, LastWrite
<1>1. /\ lo \in Nat /\ hi \in Nat /\ lo < hi /\ Start <= lo /\ torn = {} /\ Busy
      /\ lo = dp.addr /\ hi = dp.addr + dp.len
      /\ Extending => lo = file_end /\ dbi_eof = hi
      /\ ~Extending => hi <= file_end /\ dbi_eof = file_end
      /\ m \in Names
  BY <1>a, <1>0, RegionFacts
<1>2. /\ op.content \in Content /\ op.content.len = dp.len /\ op.content.name = m
      /\ dp.len \in Nat \ {0}
      /\ hi = lo + op.content.len
  <2>1. op.content \in Content /\ op.content.len = dp.len
    BY <1>0, BusyFacts, WritesInside DEF Length
  <2>2. op.content.name = m
    BY <1>a, <1>0, <1>1 DEF Tiling, OwnName
  <2> QED
    BY <1>0, <1>1, <2>1, <2>2, WritesInside
<1>3. Rewriting(S, Whole, lo, hi, m)
  BY <1>a, <1>0, WholeType DEF Rewriting
<1>4. PICK T : T = Outside(S, lo, hi) \cup {lo}
  OBVIOUS
<1>5. Remade(T, lo, hi, m)
  BY <1>3, <1>4, Rewritten
<1>6. /\ Marks(file_end', T) /\ AllChained(file', file_end', T)
      /\ file'[lo].head = FirstHead /\ lo \in T
      /\ file_end' = IF Extending THEN hi ELSE file_end
      /\ Unique(file', T)
      /\ ((\A n \in Names \ {m} : dir'[n] = dir[n]) /\ FreeUnits \subseteq FreeUnits') =>
              Match(T, file_end, {m}, lo, hi)'
      /\ Kept(file', file_end', T, Settled(m))
  BY <1>5 DEF Remade
<1>7. hi <= file_end' /\ dbi_eof' = file_end'
  BY <1>0, <1>1, <1>6
<1>8. file'[lo].head = [name |-> m, len |-> dp.len] /\ Named(file', lo, m)
  BY <1>0, <1>1, <1>2, <1>6, HeadNotNone DEF FirstHead, Named
<1>9. FreeUnits' = FreeUnits /\ \A n \in Names : dir'[n] = dir[n]
  BY <1>0 DEF FreeUnits
<1>10. Match(T, file_end, {m}, lo, hi)'
  BY <1>6, <1>9
<1>11. \A t \in T : (lo <= t /\ t < hi) => t = lo
  BY <1>4 DEF Outside
<1>12. dir'[m].addr = lo /\ dir'[m].len = dp.len
  BY <1>a, <1>1, <1>9 DEF dp
<1>13. Match(T, file_end, {}, Start, Start)'
  <2>1. ASSUME NEW n \in Names
        PROVE  \/ dir'[n] = Absent
               \/ /\ dir'[n].addr \in T /\ dir'[n].addr < file_end'
                  /\ file'[dir'[n].addr].head = [name |-> n, len |-> dir'[n].len]
    <3>1. CASE n = m
      <4>1. lo < file_end'
        <5>1. file_end' \in Nat
          BY <1>1, <1>6 DEF IInv, TypeOK, Start
        <5> QED
          BY <1>1, <1>7, <5>1
      <4> QED
        BY <1>6, <1>8, <1>12, <3>1, <4>1
    <3>2. CASE n # m
      BY <1>10, <3>2 DEF Match
    <3> QED
      BY <3>1, <3>2
  <2>2. ASSUME NEW s \in T, NEW n \in Names, s < file_end', Named(file', s, n)
        PROVE  dir'[n].addr = s
    <3>1. CASE n = m
      <4>1. lo <= s /\ s < hi
        BY <1>10, <2>2, <3>1 DEF Match
      <4> QED
        BY <1>11, <1>12, <3>1, <4>1
    <3>2. CASE n # m
      BY <1>10, <2>2, <3>2 DEF Match
    <3> QED
      BY <3>1, <3>2
  <2>3. ASSUME NEW s \in T, s < file_end', Named(file', s, None)
        PROVE  s .. Ends(file', s) - 1 \subseteq FreeUnits'
    <3>1. s # lo
      BY <1>1, <1>8, <2>3, ConstantsAssumption DEF Named
    <3>2. ~(lo <= s /\ s < hi)
      BY <1>11, <3>1
    <3> QED
      BY <1>10, <2>3, <3>2 DEF Match
  <2> QED
    BY <2>1, <2>2, <2>3 DEF Match
<1>14. Usable' /\ ~Busy' /\ RegionLo' = Start /\ RegionHi' = Start
  BY <1>0, <1>1 DEF IInv, Usable, Busy, RegionLo, RegionHi
<1>15. store \in [Names -> Content \cup {None}]
  BY DEF IInv, TypeOK
<1>16. OwnName'
  <2>1. ASSUME NEW n \in Names, store'[n] # None PROVE store'[n].name = n
    <3>1. CASE n = m
      BY <1>a, <1>0, <1>2, <1>15, <3>1
    <3>2. CASE n # m
      BY <1>a, <1>0, <1>15, <2>1, <3>2 DEF Tiling, OwnName
    <3> QED
      BY <3>1, <3>2
  <2> QED
    BY <1>14, <2>1 DEF OwnName
<1>17. Kept(file, file_end, T, Names \ (lost \cup {}))'
  <2> SUFFICES ASSUME NEW n \in Names, n \notin lost'
               PROVE  IF store'[n] = None
                      THEN \A s \in T : ~Named(file', s, n)
                      ELSE \E s \in T : /\ s + store'[n].len <= file_end'
                                        /\ Holds(file', s, store'[n])
    BY DEF Kept, Holds, Named
  <2>1. CASE n = m
    <3>1. store'[n] = op.content /\ op.content # None
      BY <1>a, <1>0, <1>1, <1>2, <1>15, <2>1, NoneAssumption
    <3>2. Holds(file', lo, op.content)
      <4>1. \A a \in lo .. hi - 1 : file'[a] = Object(op.content, lo)[a]
        BY <1>0, <1>1, WholeType, WriteEffect
      <4>2. lo + op.content.len - 1 = hi - 1
        BY <1>1, <1>2
      <4> QED
        BY <4>1, <4>2 DEF Holds
    <3>3. lo + op.content.len <= file_end'
      BY <1>2, <1>7
    <3> QED
      BY <1>6, <3>1, <3>2, <3>3
  <2>2. CASE n # m
    <3>1. store'[n] = store[n] /\ n \in Settled(m)
      BY <1>a, <1>0, <1>15, <2>2 DEF Settled
    <3> QED
      BY <1>6, <3>1 DEF Kept
  <2> QED
    BY <2>1, <2>2
<1>18. \A t \in T : Chained(file', file_end', T, t)
  BY <1>6 DEF AllChained
<1>19. Loose(file', file_end', T)
  BY <1>6, ChainedLoose
<1>20. Proceeds(T, Start, Start)
  BY <1>0, <1>1, <1>6, <1>7, <1>13, <1>14, <1>16, <1>17, <1>18, <1>19 DEF Proceeds
<1> QED
  BY <1>20, Proceeding

LEMMA DeletedTiles ==
    ASSUME IInv, NEW S, Tiling(S), Deleted
    PROVE  \E T : Tiling(T)'
<1> USE DEF Writes
<1>a. PICK lo, hi, m : Region(lo, hi, m) /\ lo = RegionLo /\ hi = RegionHi /\ m = op.name
  BY DEF Region
<1>0. /\ pc = "delete" /\ Written(Whole) /\ half' = FALSE /\ pc' = "idle"
      /\ Freed /\ dir' = [dir EXCEPT ![op.name] = Absent]
      /\ dp.len <= Large \/ half
      /\ store' = [store EXCEPT ![op.name] = None] /\ lost' = lost \ {op.name}
      /\ UNCHANGED <<dbi_eof, dbi_read_only, torn>>
  BY DEF Deleted, LastWrite
<1>1. /\ lo \in Nat /\ hi \in Nat /\ lo < hi /\ Start <= lo /\ torn = {} /\ Busy
      /\ lo = dp.addr /\ hi = dp.addr + dp.len
      /\ ~Extending /\ hi <= file_end /\ dbi_eof = file_end
      /\ m \in Names
  BY <1>a, <1>0, RegionFacts DEF Extending
<1>2. dir \in [Names -> Place] /\ dp.len \in Nat \ {0}
  BY <1>0, BusyFacts, WritesInside
<1>3. Rewriting(S, Whole, lo, hi, m)
  BY <1>a, <1>0, <1>1, WholeType DEF Rewriting
<1>4. PICK T : T = Outside(S, lo, hi) \cup {lo}
  OBVIOUS
<1>5. Remade(T, lo, hi, m)
  BY <1>3, <1>4, Rewritten
<1>6. /\ Marks(file_end', T) /\ AllChained(file', file_end', T)
      /\ file'[lo].head = FirstHead /\ lo \in T /\ Ends(file', lo) = hi
      /\ file_end' = file_end
      /\ Unique(file', T)
      /\ ((\A n \in Names \ {m} : dir'[n] = dir[n]) /\ FreeUnits \subseteq FreeUnits') =>
              Match(T, file_end, {m}, lo, hi)'
      /\ Kept(file', file_end', T, Settled(m))
  BY <1>1, <1>5 DEF Remade
<1>8. file'[lo].head.name = None
  BY <1>0, <1>6 DEF FirstHead
<1>9. FreeUnits \subseteq FreeUnits' /\ lo .. hi - 1 \subseteq FreeUnits'
  <2>1. FreeUnits \subseteq FreeUnits' /\ dp.addr .. dp.addr + dp.len - 1 \subseteq FreeUnits'
    BY <1>0, FreedPlace
  <2>2. dp.addr .. dp.addr + dp.len - 1 = lo .. hi - 1
    BY <1>1, <1>2
  <2> QED
    BY <2>1, <2>2
<1>10. Match(T, file_end, {m}, lo, hi)'
  <2>1. \A n \in Names \ {m} : dir'[n] = dir[n]
    BY <1>a, <1>0, <1>2
  <2> QED
    BY <1>6, <1>9, <2>1
<1>11. \A t \in T : (lo <= t /\ t < hi) => t = lo
  BY <1>4 DEF Outside
<1>12. \A t \in T : ~Named(file', t, m)
  BY <1>1, <1>8, <1>10, <1>11, ConstantsAssumption DEF Match, Named
<1>13. Match(T, file_end, {}, Start, Start)'
  <2>1. ASSUME NEW n \in Names
        PROVE  \/ dir'[n] = Absent
               \/ /\ dir'[n].addr \in T /\ dir'[n].addr < file_end'
                  /\ file'[dir'[n].addr].head = [name |-> n, len |-> dir'[n].len]
    <3>1. CASE n = m
      BY <1>a, <1>0, <1>2, <3>1
    <3>2. CASE n # m
      BY <1>10, <3>2 DEF Match
    <3> QED
      BY <3>1, <3>2
  <2>2. ASSUME NEW s \in T, NEW n \in Names, s < file_end', Named(file', s, n)
        PROVE  dir'[n].addr = s
    <3>1. n # m
      BY <1>12, <2>2
    <3> QED
      BY <1>10, <2>2, <3>1 DEF Match
  <2>3. ASSUME NEW s \in T, s < file_end', Named(file', s, None)
        PROVE  s .. Ends(file', s) - 1 \subseteq FreeUnits'
    <3>1. CASE s = lo
      BY <1>6, <1>9, <3>1
    <3>2. CASE s # lo
      <4>1. ~(lo <= s /\ s < hi)
        BY <1>11, <3>2
      <4> QED
        BY <1>10, <2>3, <4>1 DEF Match
    <3> QED
      BY <3>1, <3>2
  <2> QED
    BY <2>1, <2>2, <2>3 DEF Match
<1>14. Usable' /\ ~Busy' /\ RegionLo' = Start /\ RegionHi' = Start
  BY <1>0, <1>1 DEF IInv, Usable, Busy, RegionLo, RegionHi
<1>15. store \in [Names -> Content \cup {None}]
  BY DEF IInv, TypeOK
<1>16. OwnName'
  <2>1. \A n \in Names : store'[n] # None => store'[n] = store[n]
    BY <1>0, <1>15
  <2>2. \A n \in Names : store[n] # None => store[n].name = n
    BY DEF Tiling, OwnName
  <2>3. \A n \in Names : store'[n] # None => store'[n].name = n
    BY <2>1, <2>2
  <2> QED
    BY <1>14, <2>3 DEF OwnName
<1>17. Kept(file, file_end, T, Names \ (lost \cup {}))'
  <2> SUFFICES ASSUME NEW n \in Names, n \notin lost'
               PROVE  IF store'[n] = None
                      THEN \A s \in T : ~Named(file', s, n)
                      ELSE \E s \in T : /\ s + store'[n].len <= file_end'
                                        /\ Holds(file', s, store'[n])
    BY DEF Kept, Holds, Named
  <2>1. CASE n = m
    BY <1>a, <1>0, <1>12, <1>15, <2>1
  <2>2. CASE n # m
    <3>1. store'[n] = store[n] /\ n \in Settled(m)
      BY <1>a, <1>0, <1>15, <2>2 DEF Settled
    <3> QED
      BY <1>6, <3>1 DEF Kept
  <2> QED
    BY <2>1, <2>2
<1>18. \A t \in T : Chained(file', file_end', T, t)
  BY <1>6 DEF AllChained
<1>19. Loose(file', file_end', T)
  BY <1>6, ChainedLoose
<1>20. Proceeds(T, Start, Start)
  BY <1>0, <1>1, <1>6, <1>13, <1>14, <1>16, <1>17, <1>18, <1>19 DEF Proceeds
<1> QED
  BY <1>20, Proceeding

-----------------------------------------------------------------------------
(* Each step keeps a tiling: failures.                                     *)

(* What a tiling that fits the directory says of an object.                *)
Retrieved(n) ==
    IF store[n] = None
    THEN dir[n] = Absent
    ELSE /\ dir[n].addr # PhonyAddr /\ dir[n].len = store[n].len
         /\ \A a \in Of(n) : file[a] = Object(store[n], dir[n].addr)[a]

Retrievable(S, known, X, lo, hi) ==
    /\ Marks(file_end, S) /\ OwnName
    /\ Kept(file, file_end, S, known) /\ Match(S, file_end, X, lo, hi)

LEMMA Retrieval ==
    ASSUME IInv, NEW S, NEW known, NEW X, NEW lo, NEW hi,
           Retrievable(S, known, X, lo, hi),
           NEW n \in Names, n \in known, n \notin X,
           dir[n].addr # PhonyAddr => 0 < dir[n].len
    PROVE  Retrieved(n)
<1> USE DEF Retrievable
<1>1. /\ file \in File /\ file_end \in Start .. MaxEnd + 1 /\ file_end \in Nat
      /\ dir \in [Names -> Place] /\ store \in [Names -> Content \cup {None}]
  BY DEF IInv, TypeOK, File, Place, Start
<1>2. \A s \in S : s \in Nat /\ s < file_end /\ s \in Start .. MaxEnd
  BY <1>1, MarksType
<1>3. CASE store[n] = None
  <2>1. \A s \in S : ~Named(file, s, n)
    BY <1>3 DEF Kept
  <2>2. ASSUME dir[n] # Absent PROVE FALSE
    <3>1. /\ dir[n].addr \in S
          /\ file[dir[n].addr].head = [name |-> n, len |-> dir[n].len]
      BY <2>2 DEF Match
    <3>2. dir[n].len \in Nat \ {0}
      BY <1>1, <1>2, <3>1 DEF Place, PhonyAddr
    <3>3. Named(file, dir[n].addr, n)
      BY <3>1, <3>2, HeadNotNone DEF Named
    <3> QED
      BY <2>1, <3>1, <3>3
  <2> QED
    BY <1>3, <2>2 DEF Retrieved
<1>4. CASE store[n] # None
  <2>1. PICK c : c = store[n] /\ c \in Content
    BY <1>1, <1>4
  <2>2. c.len \in Nat \ {0} /\ c.name = n
    BY <1>4, <2>1, ConstantsAssumption DEF OwnName, Content
  <2>3. PICK s \in S : s + c.len <= file_end /\ Holds(file, s, c)
    BY <1>4, <2>1 DEF Kept
  <2>4. s \in s .. s + c.len - 1
    BY <1>2, <2>2
  <2>5. file[s].head = [name |-> n, len |-> c.len]
    <3>1. file[s] = Object(c, s)[s]
      BY <2>3, <2>4 DEF Holds
    <3>2. Object(c, s)[s].head = [name |-> c.name, len |-> c.len]
      BY <2>4 DEF Object
    <3> QED
      BY <2>2, <3>1, <3>2
  <2>6. Named(file, s, n)
    BY <2>2, <2>5, HeadNotNone DEF Named
  <2>7. dir[n].addr = s
    BY <1>2, <2>6 DEF Match
  <2>8. dir[n].addr # PhonyAddr /\ dir[n] # Absent
    BY <1>2, <2>7 DEF Absent, PhonyAddr
  <2>9. file[s].head = [name |-> n, len |-> dir[n].len]
    BY <2>7, <2>8 DEF Match
  <2>10. dir[n].len = c.len
    BY <2>5, <2>9
  <2>11. Of(n) \subseteq s .. s + c.len - 1
    BY <2>7, <2>10 DEF Of, Units
  <2>12. \A a \in Of(n) : file[a] = Object(c, s)[a]
    BY <2>3, <2>11 DEF Holds
  <2> QED
    BY <1>4, <2>1, <2>7, <2>8, <2>10, <2>12 DEF Retrieved
<1> QED
  BY <1>3, <1>4

(* The other objects while an operation is under way.                      *)
LEMMA OthersRetrieved ==
    ASSUME IInv, Busy, NEW S, Tiling(S), NEW n \in Names, n \notin lost, n # op.name
    PROVE  Retrieved(n)
<1>1. PICK m, lo, hi : m = op.name /\ lo = RegionLo /\ hi = RegionHi
  OBVIOUS
<1>2. Retrievable(S, Settled(m), {m}, lo, hi)
  BY <1>1 DEF Tiling, Working, Settled, Retrievable
<1>3. n \in Settled(m) /\ n \notin {m}
  BY <1>1 DEF Settled
<1>4. dir[n].addr # PhonyAddr => 0 < dir[n].len
  <2>1. ~dbi_read_only /\ Layout(dbi_freep, Claims, Limit) /\ op.name \in Names
    BY DEF IInv, Stage, Request
  <2>2. dir \in [Names -> Place]
    BY DEF IInv, TypeOK, Place
  <2>3. Claims[n] = dir[n]
    BY <1>1, <2>2 DEF Claims
  <2> QED
    BY <2>1, <2>3 DEF Layout
<1> QED
  BY <1>2, <1>3, <1>4, Retrieval

(* What is left when a write is cut short, in file and memory.             *)
LEMMA WriteFailsTiles ==
    ASSUME IInv, Tiled, WriteFails
    PROVE  Tiled'
<1>1. /\ pc \in Writes /\ \E k \in Partly : Written(k)
      /\ dbi_read_only' = TRUE /\ pc' = "idle" /\ half' = FALSE
      /\ dir' = [dir EXCEPT ![op.name] = Absent] \/ dir' = dir
      /\ lost' = lost \cup {op.name} /\ torn' = torn \cup {"failed"} \cup Delicate
      /\ UNCHANGED <<dbi_eof, store>>
  BY DEF WriteFails
<1>2. PICK k \in Partly : Written(k)
  BY <1>1
<1>3. torn' # {} /\ pc' # "scan"
  BY <1>1
<1> SUFFICES ASSUME ~Misread' PROVE (\E T : Tiling(T)') /\ ReadsBack'
  <2>1. ASSUME NEW T, Tiling(T)' PROVE T \in SUBSET (Start .. file_end' - 1)
    BY <2>1 DEF Tiling, Marks
  <2> QED
    BY <1>1, <1>3, <2>1 DEF Tiled
<1>4. pc \notin {"front", "back"} /\ ~Misread
  BY <1>1 DEF Misread, Delicate
<1>5. PICK S : Tiling(S)
  BY <1>4 DEF Tiled
<1>6. PICK T : /\ Marks(file_end', T) /\ Unique(file', T) /\ Loose(file', file_end', T)
               /\ Kept(file', file_end', T, Settled(op.name))
  BY <1>1, <1>2, <1>4, <1>5, CutShort
<1>7. ~Busy' /\ ~Usable'
  BY <1>1 DEF Busy, Usable
<1>8. OwnName'
  BY <1>1, <1>5, <1>7 DEF Tiling, OwnName
<1>9. Kept(file, file_end, T, Names \ (lost \cup {}))'
  BY <1>1, <1>6 DEF Kept, Settled, Holds, Named
<1>10. Tiling(T)'
  <2>1. Marks(file_end, T)' /\ Unique(file, T)' /\ Loose(file, file_end, T)'
    BY <1>6 DEF Marks, Unique, Loose, Named, Ends
  <2> QED
    BY <1>3, <1>7, <1>8, <1>9, <2>1 DEF Tiling
<1>11. ASSUME NEW n \in Names, n \notin lost, n # op.name
       PROVE  IF store'[n] = None
              THEN dir'[n] = Absent
              ELSE /\ dir'[n].len = store'[n].len
                   /\ \A a \in Of(n)' : file'[a] = Object(store'[n], dir'[n].addr)[a]
  <2>1. Busy /\ dir \in [Names -> Place]
    BY <1>1, BusyFacts
  <2>2. Retrieved(n)
    BY <1>5, <1>11, <2>1, OthersRetrieved
  <2>3. dir'[n] = dir[n] /\ store'[n] = store[n] /\ Of(n)' = Of(n)
    <3>1. dir'[n] = dir[n]
      BY <1>1, <1>11, <2>1
    <3> QED
      BY <1>1, <3>1 DEF Of
  <2>4. ASSUME dir[n].addr # PhonyAddr, NEW a \in Of(n), store[n] # None
        PROVE  file'[a] = file[a]
    <3>1. /\ dir[n].addr <= a /\ a < dir[n].addr + dir[n].len /\ a \in Nat
          /\ dir[n].addr \in Nat /\ dir[n].len \in Nat
      BY <2>1, <2>4 DEF Of, Units, Place
    <3>2. PICK lo, hi : lo = RegionLo /\ hi = RegionHi
      OBVIOUS
    <3>3. lo \in Nat /\ hi \in Nat /\ lo <= dp.addr /\ dp.addr + dp.len <= hi
      BY <1>1, <1>5, <3>2, RegionFacts
    <3>4. ~(lo <= a /\ a < hi)
      <4>1. \A b \in lo .. hi - 1 : ~(dir[n].addr <= b /\ b < dir[n].addr + dir[n].len)
        BY <1>1, <1>5, <1>11, <2>4, <3>2, RegionClear
      <4> QED
        BY <3>1, <3>3, <4>1
    <3>5. dp.addr \in Nat /\ dp.len \in Nat
      BY <1>1, WritesInside
    <3>6. PICK x, y : x = dp.addr /\ y = dp.addr + dp.len
      OBVIOUS
    <3>7. ~(x <= a /\ a < y)
      BY <3>1, <3>3, <3>4, <3>5, <3>6
    <3>8. a \in Start .. MaxEnd
      <4>1. /\ Layout(dbi_freep, Claims, dbi_eof) /\ Claims = [dir EXCEPT ![op.name] = OpClaim]
        BY <1>1, BusyFacts
      <4>2. Claims[n] = dir[n]
        BY <1>11, <2>1, <4>1
      <4>3. /\ Start <= dir[n].addr /\ dir[n].addr + dir[n].len <= dbi_eof
            /\ dbi_eof \in Start .. MaxEnd + 1
        BY <2>4, <4>1, <4>2 DEF Layout
      <4> QED
        BY <3>1, <4>3, ConstantsAssumption DEF Start
    <3>9. k \in 0 .. Whole
      BY <1>1, WholeType
    <3> QED
      BY <1>1, <1>2, <3>6, <3>7, <3>8, <3>9, WriteEffect
  <2> QED
    BY <2>2, <2>3, <2>4 DEF Retrieved
<1>12. ReadsBack'
  <2>1. \A n \in Names \ Doubtful' : n \in Names /\ n \notin lost /\ n # op.name
    BY <1>1 DEF Doubtful
  <2> QED
    BY <1>11, <2>1 DEF ReadsBack
<1> QED
  BY <1>10, <1>12

LEMMA CrashTiles ==
    ASSUME IInv, Tiled, Crash
    PROVE  Tiled'
<1>1. /\ pc # "scan"
      /\ \/ pc \in Writes /\ \E k \in Partly : Written(k)
         \/ pc \notin Writes /\ UNCHANGED <<file, file_end>>
      /\ lost' = IF pc = "idle" THEN lost ELSE lost \cup {op.name}
      /\ torn' = torn \cup Delicate
      /\ dir' = [m \in Names |-> Absent]
      /\ dbi_freep' = {} /\ dbi_eof' = PhonyAddr /\ dbi_read_only' = FALSE
      /\ pc' = "scan" /\ half' = FALSE /\ pos' = Start
      /\ UNCHANGED store
  BY DEF Crash, disk
<1> SUFFICES ASSUME ~Misread' PROVE \E T : Tiling(T)'
  <2>1. ASSUME NEW T, Tiling(T)' PROVE T \in SUBSET (Start .. file_end' - 1)
    BY <2>1 DEF Tiling, Marks
  <2> QED
    BY <1>1, <2>1 DEF Tiled
<1>2. pc \notin {"front", "back"} /\ ~Misread
  BY <1>1 DEF Misread, Delicate
<1>3. PICK S : Tiling(S)
  BY <1>2 DEF Tiled
<1>4. PICK T : /\ Marks(file_end', T) /\ Unique(file', T) /\ Loose(file', file_end', T)
               /\ Kept(file', file_end', T, Names \ lost')
               /\ torn' = {} => AllChained(file', file_end', T)
  <2>1. CASE pc \in Writes
    <3>1. PICK k \in Partly : Written(k)
      BY <1>1, <2>1
    <3>2. PICK U : /\ Marks(file_end', U) /\ Unique(file', U) /\ Loose(file', file_end', U)
                   /\ Kept(file', file_end', U, Settled(op.name))
                   /\ Delicate = {} => AllChained(file', file_end', U)
      BY <1>2, <1>3, <2>1, <3>1, CutShort
    <3>3. Names \ lost' = Settled(op.name)
      BY <1>1, <2>1 DEF Settled, Writes
    <3>4. torn' = {} => Delicate = {}
      BY <1>1
    <3> QED
      BY <3>2, <3>3, <3>4
  <2>2. CASE pc \notin Writes
    <3>1. Marks(file_end, S) /\ Unique(file, S) /\ Loose(file, file_end, S)
      BY <1>2, <1>3 DEF Tiling
    <3>2. torn' = {} => AllChained(file, file_end, S)
      <4>1. torn' = {} => torn = {}
        BY <1>1
      <4> QED
        BY <1>3, <2>2, <4>1 DEF Tiling, Writes
    <3>3. Kept(file, file_end, S, Names \ lost')
      <4>1. Busy <=> pc # "idle"
        BY <1>1 DEF Busy
      <4>2. Kept(file, file_end, S, Names \ (lost \cup (IF Busy THEN {op.name} ELSE {})))
        BY <1>3 DEF Tiling
      <4>3. lost \cup (IF Busy THEN {op.name} ELSE {}) = lost'
        BY <1>1, <4>1
      <4> QED
        BY <4>2, <4>3
    <3> QED
      BY <1>1, <2>2, <3>1, <3>2, <3>3
  <2> QED
    BY <2>1, <2>2
<1>5. ~Busy' /\ ~Usable'
  BY <1>1 DEF Busy, Usable
<1>6. OwnName'
  BY <1>1, <1>3, <1>5 DEF Tiling, OwnName
<1>7. Kept(file, file_end, T, Names \ (lost \cup {}))'
  BY <1>1, <1>4 DEF Kept, Holds, Named
<1>8. Scanned(T)'
  <2>1. file_end' \in Start .. MaxEnd + 1
    BY CrashKeeps DEF IInv, TypeOK
  <2>2. \A t \in T : ~(t < Start)
    BY <1>4, <2>1, MarksType
  <2>3. Match(T, pos, {}, Start, Start)'
    BY <1>1, <2>2 DEF Match
  <2> QED
    BY <1>1, <1>4, <2>2, <2>3 DEF Scanned, Marks
<1>9. Tiling(T)'
  <2>1. Marks(file_end, T)' /\ Unique(file, T)' /\ Loose(file, file_end, T)'
        /\ (torn = {} => AllChained(file, file_end, T))'
    BY <1>4 DEF Marks, Unique, Loose, AllChained, Chained, Sound, Named, Ends
  <2> QED
    BY <1>5, <1>6, <1>7, <1>8, <2>1 DEF Tiling
<1> QED
  BY <1>9

-----------------------------------------------------------------------------
(* Each step keeps a tiling: the scan.                                     *)

(* The scan goes from its mark to the next, and what is between them, the  *)
(* rest of an object that was overwritten, is dropped.                     *)
LEMMA ScanObjectTiles ==
    ASSUME IInv, NEW S, Tiling(S), ScanObject
    PROVE  \E T : Tiling(T)'
<1>1. /\ pc = "scan" /\ pos < file_end /\ IsObject(pos)
      /\ UNCHANGED <<file, file_end, dbi_eof, dbi_read_only, pc, half, op>>
      /\ UNCHANGED <<store, lost, crashes, torn>>
  BY DEF ScanObject, disk, history
<1>2. PICK head, end : head = file[pos].head /\ end = pos + head.len
  OBVIOUS
<1>3. /\ pos' = end
      /\ \/ /\ head.name = None /\ dbi_freep' = rt_memfree(dbi_freep, head.len, pos)
            /\ dir' = dir
         \/ /\ head.name # None /\ dbi_freep' = dbi_freep
            /\ dir' = IF dir[head.name] = Absent
                      THEN [dir EXCEPT ![head.name] = [addr |-> pos, len |-> head.len]]
                      ELSE dir
  BY <1>2 DEF ScanObject
<1>4. /\ ~dbi_read_only /\ ~Busy /\ ~Usable
      /\ dir \in [Names -> Place] /\ dbi_freep \subseteq Extent /\ Apart(dbi_freep)
      /\ Layout(dbi_freep, dir, pos)
      /\ pos \in Nat /\ pos \in Start .. MaxEnd + 1
      /\ file \in File /\ file_end \in Start .. MaxEnd + 1 /\ file_end \in Nat
      /\ store \in [Names -> Content \cup {None}]
  BY <1>1, ScanFacts DEF Usable, IInv, TypeOK, File, Start
<1>5. /\ OwnName /\ Marks(file_end, S) /\ Unique(file, S) /\ Loose(file, file_end, S)
      /\ Kept(file, file_end, S, Names \ (lost \cup {}))
      /\ torn = {} => AllChained(file, file_end, S)
      /\ pos \in S \cup {file_end}
      /\ \A s \in S : s < pos => Chained(file, file_end, S, s)
      /\ Match(S, pos, {}, Start, Start)
  BY <1>1, <1>4 DEF Tiling, Scanned
<1>6. \A s \in S : s \in Nat /\ Start <= s /\ s < file_end /\ s \in Start .. MaxEnd
  BY <1>4, <1>5, MarksType
<1>7. pos \in S
  BY <1>1, <1>4, <1>5
<1>8. /\ Sound(file, file_end, pos) /\ Ends(file, pos) = end /\ end <= file_end
      /\ end \in Nat /\ pos < end /\ head \in Head /\ head # None /\ head.len \in Nat \ {0}
  BY <1>1, <1>2, <1>4, <1>6, <1>7, HeadType DEF IsObject, Sound, Ends
<1>9. end \in S \cup {file_end}
  <2>1. ~(end > file_end)
    BY <1>4, <1>8
  <2> QED
    BY <1>2, <1>5, <1>7, <1>8, <2>1 DEF Loose
<1>10. \A s \in S, n \in Names : (pos < s /\ Named(file, s, n)) => end <= s
  BY <1>2, <1>5, <1>7, <1>8 DEF Loose
<1>11. PICK T : T = {s \in S : ~(pos < s /\ s < end)}
  OBVIOUS
<1>12. /\ T \subseteq S /\ pos \in T /\ end \in T \cup {file_end}
       /\ \A s \in S : s <= pos => s \in T
  BY <1>4, <1>6, <1>7, <1>8, <1>9, <1>11
<1>13. Marks(file_end, T)
  <2>1. Start \in S => Start \in T
    BY <1>4, <1>12 DEF Start
  <2> QED
    BY <1>5, <1>12, <2>1 DEF Marks
<1>14. Unique(file, T)
  BY <1>5, <1>12 DEF Unique
<1>15. \A s \in S, n \in Names : Named(file, s, n) => s \in T
  BY <1>4, <1>6, <1>8, <1>10, <1>11
<1>16. Kept(file, file_end, T, Names \ (lost \cup {}))
  <2> SUFFICES ASSUME NEW n \in Names, n \notin lost
               PROVE  IF store[n] = None
                      THEN \A s \in T : ~Named(file, s, n)
                      ELSE \E s \in T : /\ s + store[n].len <= file_end
                                        /\ Holds(file, s, store[n])
    BY DEF Kept
  <2>1. CASE store[n] = None
    BY <1>5, <1>12, <2>1 DEF Kept
  <2>2. CASE store[n] # None
    <3>1. PICK c : c = store[n] /\ c \in Content
      BY <1>4, <2>2
    <3>2. c.len \in Nat \ {0} /\ c.name = n
      BY <1>5, <2>2, <3>1, ConstantsAssumption DEF OwnName, Content
    <3>3. PICK s \in S : s + c.len <= file_end /\ Holds(file, s, c)
      BY <1>5, <2>2, <3>1 DEF Kept
    <3>4. s \in s .. s + c.len - 1
      BY <1>6, <3>2
    <3>5. file[s].head = [name |-> n, len |-> c.len]
      <4>1. file[s] = Object(c, s)[s]
        BY <3>3, <3>4 DEF Holds
      <4>2. Object(c, s)[s].head = [name |-> c.name, len |-> c.len]
        BY <3>4 DEF Object
      <4> QED
        BY <3>2, <4>1, <4>2
    <3>6. Named(file, s, n)
      BY <3>2, <3>5, HeadNotNone DEF Named
    <3> QED
      BY <1>15, <2>2, <3>1, <3>3, <3>6
  <2> QED
    BY <2>1, <2>2
(* From the marks that are left the scan goes to marks that are left.      *)
<1>17. ASSUME NEW s \in T, file[s].head # None, Ends(file, s) \in S
       PROVE  Ends(file, s) \in T \cup {file_end}
  <2>1. s \in S /\ s \in Nat /\ Ends(file, s) \in Nat /\ s < Ends(file, s)
    BY <1>4, <1>6, <1>12, <1>17, HeadType
  <2>2. CASE s < pos
    <3>1. Chained(file, file_end, S, s)
      BY <1>5, <2>1, <2>2
    <3>2. Ends(file, s) <= pos
      BY <1>7, <2>2, <3>1 DEF Chained
    <3> QED
      BY <1>12, <1>17, <3>2
  <2>3. CASE s = pos
    BY <1>8, <1>12, <2>3
  <2>4. CASE pos < s
    <3>1. end <= s
      BY <1>4, <1>8, <1>11, <2>1, <2>4
    <3>2. ~(Ends(file, s) < end)
      BY <1>8, <2>1, <3>1
    <3> QED
      BY <1>11, <1>17, <3>2
  <2> QED
    BY <1>4, <2>1, <2>2, <2>3, <2>4
<1>18. Loose(file, file_end, T)
  <2> SUFFICES ASSUME NEW s \in T, file[s].head # None
               PROVE  /\ Ends(file, s) \in T \cup {file_end} \/ Ends(file, s) > file_end
                      /\ \A t \in T, n \in Names :
                            (s < t /\ Named(file, t, n)) => Ends(file, s) <= t
    BY DEF Loose
  <2>1. /\ Ends(file, s) \in S \cup {file_end} \/ Ends(file, s) > file_end
        /\ \A t \in S, n \in Names : (s < t /\ Named(file, t, n)) => Ends(file, s) <= t
    BY <1>5, <1>12 DEF Loose
  <2> QED
    BY <1>12, <1>17, <2>1
<1>19. ASSUME NEW s \in T, Chained(file, file_end, S, s)
       PROVE  Chained(file, file_end, T, s)
  BY <1>12, <1>17, <1>19 DEF Chained, Sound
<1>20. torn = {} => AllChained(file, file_end, T)
  BY <1>5, <1>12, <1>19 DEF AllChained
<1>21. \A s \in T : s < end => Chained(file, file_end, T, s)
  <2> SUFFICES ASSUME NEW s \in T, s < end PROVE Chained(file, file_end, T, s)
    OBVIOUS
  <2>1. s \in S /\ s \in Nat
    BY <1>6, <1>12
  <2>2. CASE s < pos
    BY <1>5, <1>19, <2>1, <2>2
  <2>3. CASE s = pos
    <3>1. \A t \in T : pos < t => end <= t
      BY <1>6, <1>8, <1>11
    <3> QED
      BY <1>8, <1>12, <2>3, <3>1 DEF Chained
  <2>4. ~(pos < s)
    BY <1>11
  <2> QED
    BY <1>4, <2>1, <2>2, <2>3, <2>4
(* The directory and the map.                                              *)
<1>22. FreeUnits \subseteq FreeUnits' /\
            (head.name = None => pos .. end - 1 \subseteq FreeUnits')
  <2>1. CASE head.name # None
    BY <1>3, <2>1 DEF FreeUnits
  <2>2. CASE head.name = None
    <3>1. \A e \in dbi_freep : Clear(e, pos, head.len)
      BY <1>4 DEF Layout, Clear
    <3>2. UnitsOf(dbi_freep) \cup (pos .. pos + head.len - 1)
                \subseteq UnitsOf(rt_memfree(dbi_freep, head.len, pos))
      BY <1>4, <1>8, <3>1, FreedUnits
    <3>3. pos .. end - 1 = pos .. pos + head.len - 1
      BY <1>2, <1>4, <1>8
    <3>4. dbi_freep' = rt_memfree(dbi_freep, head.len, pos)
      BY <1>3, <2>2
    <3>5. UnitsOf(dbi_freep) \cup (pos .. end - 1) \subseteq UnitsOf(dbi_freep')
      BY <3>2, <3>3, <3>4
    <3>6. FreeUnits = UnitsOf(dbi_freep)
      BY DEF FreeUnits, UnitsOf
    <3>7. FreeUnits' = UnitsOf(dbi_freep')
      BY DEF FreeUnits, UnitsOf
    <3> QED
      BY <3>5, <3>6, <3>7
  <2> QED
    BY <2>1, <2>2
<1>23. head = [name |-> head.name, len |-> head.len] /\ head.name \in Names \cup {None}
  BY <1>8 DEF Head
<1>24. \A n \in Names : dir[n] # Absent =>
            /\ dir[n].addr \in S /\ dir[n].addr < pos /\ Named(file, dir[n].addr, n)
            /\ file[dir[n].addr].head = [name |-> n, len |-> dir[n].len]
  <2> SUFFICES ASSUME NEW n \in Names, dir[n] # Absent
               PROVE  /\ dir[n].addr \in S /\ dir[n].addr < pos /\ Named(file, dir[n].addr, n)
                      /\ file[dir[n].addr].head = [name |-> n, len |-> dir[n].len]
    OBVIOUS
  <2>1. /\ dir[n].addr \in S /\ dir[n].addr < pos
        /\ file[dir[n].addr].head = [name |-> n, len |-> dir[n].len]
    BY <1>5 DEF Match
  <2>2. dir[n].len \in Nat \ {0}
    <3>1. dir[n].addr # PhonyAddr /\ dir[n].len \in Nat
      BY <1>4, <1>6, <2>1 DEF PhonyAddr, Place
    <3> QED
      BY <1>4, <3>1 DEF Layout
  <2> QED
    BY <2>1, <2>2, HeadNotNone DEF Named
<1>25. ASSUME head.name # None
       PROVE  /\ dir[head.name] = Absent
              /\ dir'[head.name] = [addr |-> pos, len |-> head.len]
              /\ \A n \in Names : n # head.name => dir'[n] = dir[n]
  <2>1. head.name \in Names /\ Named(file, pos, head.name)
    BY <1>2, <1>8, <1>23, <1>25 DEF Named
  <2>2. dir[head.name] = Absent
    <3> SUFFICES ASSUME dir[head.name] # Absent PROVE FALSE
      OBVIOUS
    <3>1. /\ dir[head.name].addr \in S /\ dir[head.name].addr < pos
          /\ Named(file, dir[head.name].addr, head.name)
      BY <1>24, <2>1
    <3>2. dir[head.name].addr = pos
      BY <1>5, <1>7, <2>1, <3>1 DEF Unique
    <3> QED
      BY <1>4, <3>1, <3>2
  <2> QED
    BY <1>3, <1>4, <1>25, <2>1, <2>2
<1>26. Match(T, pos, {}, Start, Start)'
  <2>1. ASSUME NEW n \in Names, dir'[n] # Absent
        PROVE  /\ dir'[n].addr \in T /\ dir'[n].addr < pos'
               /\ file'[dir'[n].addr].head = [name |-> n, len |-> dir'[n].len]
    <3>1. CASE dir'[n] = dir[n]
      <4>1. /\ dir[n].addr \in S /\ dir[n].addr < pos
            /\ file[dir[n].addr].head = [name |-> n, len |-> dir[n].len]
        BY <1>24, <2>1, <3>1
      <4>2. dir[n].addr <= pos /\ dir[n].addr < end
        BY <1>4, <1>6, <1>8, <4>1
      <4> QED
        BY <1>1, <1>3, <1>12, <3>1, <4>1, <4>2
    <3>2. CASE dir'[n] # dir[n]
      <4>1. head.name # None /\ n = head.name
        BY <1>3, <1>25, <3>2
      <4>2. dir'[n].addr = pos /\ dir'[n].len = head.len
        BY <1>25, <4>1
      <4> QED
        BY <1>1, <1>2, <1>3, <1>8, <1>12, <1>23, <4>1, <4>2
    <3> QED
      BY <3>1, <3>2
  <2>2. ASSUME NEW s \in T, NEW n \in Names, s < pos', Named(file', s, n)
        PROVE  dir'[n].addr = s
    <3>1. s \in S /\ s \in Nat /\ Named(file, s, n) /\ s < end /\ Start <= s
      BY <1>1, <1>3, <1>6, <1>12, <2>2 DEF Named
    <3>2. CASE s < pos
      <4>1. dir[n].addr = s
        BY <1>5, <3>1, <3>2 DEF Match
      <4>2. dir[n] # Absent
        BY <3>1, <4>1 DEF Absent, PhonyAddr
      <4>3. dir'[n] = dir[n]
        BY <1>3, <1>25, <4>2
      <4> QED
        BY <4>1, <4>3
    <3>3. CASE s = pos
      <4>1. n = head.name /\ head.name # None
        BY <1>2, <3>1, <3>3, ConstantsAssumption DEF Named
      <4> QED
        BY <1>25, <3>3, <4>1
    <3>4. ~(pos < s)
      BY <1>11, <3>1
    <3> QED
      BY <1>4, <3>1, <3>2, <3>3, <3>4
  <2>3. ASSUME NEW s \in T, s < pos', Named(file', s, None)
        PROVE  s .. Ends(file', s) - 1 \subseteq FreeUnits'
    <3>1. s \in S /\ s \in Nat /\ Named(file, s, None) /\ s < end /\ Start <= s
          /\ Ends(file', s) = Ends(file, s)
      BY <1>1, <1>3, <1>6, <1>12, <2>3 DEF Named, Ends
    <3>2. CASE s < pos
      <4>1. s .. Ends(file, s) - 1 \subseteq FreeUnits
        BY <1>5, <3>1, <3>2 DEF Match, Start
      <4> QED
        BY <1>22, <3>1, <4>1
    <3>3. CASE s = pos
      <4>1. head.name = None
        BY <1>2, <3>1, <3>3 DEF Named
      <4> QED
        BY <1>8, <1>22, <3>1, <3>3, <4>1
    <3>4. ~(pos < s)
      BY <1>11, <3>1
    <3> QED
      BY <1>4, <3>1, <3>2, <3>3, <3>4
  <2> QED
    BY <2>1, <2>2, <2>3 DEF Match
<1>27. Scanned(T)'
  <2>1. \A s \in T : s < pos' => Chained(file, file_end, T, s)'
    BY <1>1, <1>3, <1>21 DEF Chained, Sound, Ends
  <2> QED
    BY <1>1, <1>3, <1>12, <1>26, <2>1 DEF Scanned
<1>28. ~Busy' /\ ~Usable' /\ OwnName'
  BY <1>1, <1>5 DEF Busy, Usable, OwnName
<1>29. /\ Marks(file_end, T)' /\ Unique(file, T)' /\ Loose(file, file_end, T)'
       /\ (torn = {} => AllChained(file, file_end, T))'
  BY <1>1, <1>13, <1>14, <1>18, <1>20
     DEF Marks, Unique, Loose, AllChained, Chained, Sound, Named, Ends
<1>30. Kept(file, file_end, T, Names \ (lost \cup {}))'
  BY <1>1, <1>16 DEF Kept, Holds, Named
<1>31. Tiling(T)'
  BY <1>1, <1>27, <1>28, <1>29, <1>30 DEF Tiling
<1> QED
  BY <1>31

(* The end of the scan: every mark has been read, and the directory and    *)
(* the map say what the file says.                                         *)
LEMMA ScanEndTiles ==
    ASSUME IInv, Tiled, ScanEnd
    PROVE  Tiled'
<1>1. /\ pc = "scan" /\ pos = file_end /\ dbi_eof' = pos /\ pc' = "idle"
      /\ torn' = torn \cap {"shrink", "short"}
      /\ UNCHANGED <<file, file_end, dir, dbi_freep, dbi_read_only, half, op, store, lost>>
  BY DEF ScanEnd, disk
<1>2. /\ ~dbi_read_only /\ ~Busy /\ ~half
      /\ file_end \in Start .. MaxEnd + 1
  BY <1>1, ScanFacts DEF Tiled, IInv, TypeOK
<1>3. Misread' <=> Misread
  BY <1>1 DEF Misread
<1> SUFFICES ASSUME ~Misread' PROVE \E T : Tiling(T)'
  <2>1. ASSUME NEW T, Tiling(T)' PROVE T \in SUBSET (Start .. file_end' - 1)
    BY <2>1 DEF Tiling, Marks
  <2> QED
    BY <1>1, <1>2, <2>1 DEF Tiled
<1>4. torn' = {}
  BY <1>1, <1>3 DEF Misread
<1>5. PICK S : Tiling(S)
  BY <1>3 DEF Tiled
<1>6. /\ OwnName /\ Marks(file_end, S) /\ Unique(file, S) /\ Loose(file, file_end, S)
      /\ Kept(file, file_end, S, Names \ (lost \cup {}))
      /\ \A s \in S : s < pos => Chained(file, file_end, S, s)
      /\ Match(S, pos, {}, Start, Start)
  BY <1>1, <1>2, <1>5 DEF Tiling, Scanned
<1>7. \A s \in S : s < pos
  BY <1>1, <1>2, <1>6, MarksType
<1>8. AllChained(file, file_end, S)
  BY <1>6, <1>7 DEF AllChained
<1>9. ~Busy' /\ Usable' /\ OwnName' /\ RegionLo' = Start /\ RegionHi' = Start
  BY <1>1, <1>2, <1>6 DEF Busy, Usable, OwnName, RegionLo, RegionHi
<1>10. Match(S, file_end, {}, Start, Start)'
  BY <1>1, <1>6 DEF Match, FreeUnits
<1>11. Kept(file, file_end, S, Names \ (lost \cup {}))'
  BY <1>1, <1>6 DEF Kept
<1>12. Proceeds(S, Start, Start)
  BY <1>1, <1>2, <1>4, <1>6, <1>8, <1>9, <1>10, <1>11 DEF Proceeds, AllChained, Writes
<1> QED
  BY <1>12, Proceeding

(* A corrupt file: the scan can meet none unless a write was cut short.    *)
LEMMA ScanFatalTiles ==
    ASSUME IInv, Tiled, ScanFatal
    PROVE  Tiled'
<1>1. /\ pc = "scan" /\ pos < file_end /\ ~IsObject(pos) /\ dbi_read_only' = TRUE
      /\ pc' = "idle" /\ dbi_eof = PhonyAddr
      /\ UNCHANGED <<file, file_end, dir, dbi_freep, dbi_eof, half, op, pos>>
      /\ UNCHANGED <<store, lost, crashes, torn>>
  BY DEF ScanFatal, disk, history, Tiled
<1>2. ~dbi_read_only /\ ~Busy /\ pos \in Nat /\ file_end \in Start .. MaxEnd + 1
  BY <1>1, ScanFacts DEF IInv, TypeOK
<1>3. torn # {}
  <2> SUFFICES ASSUME torn = {} PROVE FALSE
    OBVIOUS
  <2>1. PICK S : Tiling(S)
    BY DEF Tiled, Misread
  <2>2. AllChained(file, file_end, S) /\ pos \in S \cup {file_end}
    BY <1>1, <2>1 DEF Tiling, Scanned
  <2>3. pos \in S
    BY <1>1, <1>2, <2>2 DEF Start
  <2>4. Sound(file, file_end, pos)
    BY <2>2, <2>3 DEF AllChained, Chained
  <2>5. /\ file[pos].head # None /\ pos + file[pos].head.len <= file_end
        /\ file[pos + file[pos].head.len - 1].tail
    <3>1. PICK end : end = Ends(file, pos)
      OBVIOUS
    <3>2. file[pos].head # None /\ end <= file_end /\ file[end - 1].tail
      BY <2>4, <3>1 DEF Sound
    <3>3. end = pos + file[pos].head.len
      BY <3>1 DEF Ends
    <3>4. pos \in Nat /\ file[pos].head.len \in Nat
      BY <1>2, <2>1, <2>3, <3>2, MarksType, HeadType DEF Tiling, IInv, TypeOK, File
    <3>5. pos + file[pos].head.len - 1 = end - 1
      BY <3>3, <3>4
    <3> QED
      BY <3>2, <3>3, <3>5
  <2>6. IsObject(pos)
    BY <2>5, Zenon DEF IsObject
  <2> QED
    BY <1>1, <2>6
<1>4. Misread' = Misread /\ ReadsBack'
  BY <1>1 DEF Misread, ReadsBack
<1>5. ASSUME NEW S, Tiling(S) PROVE Tiling(S)'
  <2>1. ~Busy' /\ ~Usable' /\ torn' # {}
    BY <1>1, <1>3 DEF Busy, Usable
  <2>2. /\ OwnName /\ Marks(file_end, S) /\ Unique(file, S) /\ Loose(file, file_end, S)
        /\ Kept(file, file_end, S, Names \ (lost \cup {}))
    BY <1>1, <1>2, <1>5 DEF Tiling
  <2>3. OwnName'
    BY <1>1, <2>1, <2>2 DEF OwnName
  <2>4. /\ Marks(file_end, S)' /\ Unique(file, S)' /\ Loose(file, file_end, S)'
        /\ Kept(file, file_end, S, Names \ (lost \cup {}))'
    BY <1>1, <2>2 DEF Kept
  <2> QED
    BY <1>1, <2>1, <2>3, <2>4 DEF Tiling
<1> QED
  BY <1>1, <1>3, <1>4, <1>5 DEF Tiled

LEMMA ScanShortTiles ==
    ASSUME IInv, Tiled, ScanShort
    PROVE  Tiled'
<1>1. pc = "scan" /\ pc' = "idle" /\ torn' = torn \cup {"short"} /\ UNCHANGED dbi_read_only
  BY DEF ScanShort
<1>2. Misread' /\ ~dbi_read_only'
  BY <1>1, ScanFacts DEF Misread
<1> QED
  BY <1>1, <1>2 DEF Tiled

LEMMA StutterTiles ==
    ASSUME Tiled, UNCHANGED vars
    PROVE  Tiled'
<1>1. /\ UNCHANGED <<file, file_end, dir, dbi_freep, dbi_eof, dbi_read_only, pc, half, op,
                     pos>>
      /\ UNCHANGED <<store, lost, crashes, torn>>
  BY DEF vars, disk, memory, history
<1>2. Busy' = Busy /\ dp' = dp /\ Length' = Length /\ Usable' = Usable
      /\ FreeUnits' = FreeUnits /\ OwnName' = OwnName
  BY <1>1 DEF Busy, dp, Length, Usable, FreeUnits, OwnName
<1>3. RegionLo' = RegionLo /\ RegionHi' = RegionHi /\ Extending' = Extending
  BY <1>1, <1>2 DEF RegionLo, RegionHi, Extending, Ends
<1>4. ASSUME NEW S, Tiling(S) PROVE Tiling(S)'
  <2>1. /\ Marks(file_end, S)' = Marks(file_end, S) /\ Unique(file, S)' = Unique(file, S)
        /\ Loose(file, file_end, S)' = Loose(file, file_end, S)
        /\ AllChained(file, file_end, S)' = AllChained(file, file_end, S)
    BY <1>1
  <2>2. ASSUME NEW known, Kept(file, file_end, S, known)
        PROVE  Kept(file, file_end, S, known)'
    BY <1>1, <2>2 DEF Kept
  <2>3. ASSUME NEW lim, NEW X, NEW lo, NEW hi, Match(S, lim, X, lo, hi)
        PROVE  Match(S, lim, X, lo, hi)'
    BY <1>1, <1>2, <2>3 DEF Match
  <2>4. ASSUME NEW lo, NEW hi, Inside(S, lo, hi) PROVE Inside(S, lo, hi)'
    BY <1>1, <1>2, <1>3, <2>4 DEF Inside
  <2>5. Working(S) => Working(S)'
    BY <1>1, <1>2, <1>3, <2>3, <2>4 DEF Working
  <2>6. Scanned(S) => Scanned(S)'
    BY <1>1, <2>3 DEF Scanned
  <2> QED
    BY <1>1, <1>2, <1>4, <2>1, <2>2, <2>5, <2>6 DEF Tiling
<1>5. Misread' = Misread
  BY <1>1 DEF Misread
<1>6. ReadsBack => ReadsBack'
  BY <1>1, <1>5 DEF ReadsBack, Doubtful, Of
<1> QED
  BY <1>1, <1>4, <1>5, <1>6 DEF Tiled

(* The steps that cut nothing short.                                       *)
LEMMA Carried ==
    ASSUME Tiled, UNCHANGED <<dbi_read_only, torn>>, ~dbi_read_only,
           pc' = "scan" => pc = "scan" /\ UNCHANGED <<dbi_eof, half>>,
           \A S : Tiling(S) => \E T : Tiling(T)'
    PROVE  Tiled'
<1>1. Misread' = Misread
  BY DEF Misread
<1>2. ASSUME NEW T, Tiling(T)' PROVE T \in SUBSET (Start .. file_end' - 1)
  BY <1>2 DEF Tiling, Marks
<1>3. ~Misread' => \E T : Tiling(T)'
  BY <1>1 DEF Tiled
<1> QED
  BY <1>2, <1>3 DEF Tiled

LEMMA DeleteCarried ==
    ASSUME IInv, Tiled, NEW n \in Names, Delete(n)
    PROVE  Tiled'
<1>1. \A S : Tiling(S) => Tiling(S)'
  BY DeleteTiles
<1>2. UNCHANGED <<dbi_read_only, torn>> /\ ~dbi_read_only /\ pc' # "scan"
  BY DEF Delete, memory, history
<1> QED
  BY <1>1, <1>2, Carried

LEMMA PutCarried ==
    ASSUME IInv, Tiled, NEW n \in Names, NEW c \in Content, Put(n, c)
    PROVE  Tiled'
<1>1. \A S : Tiling(S) => Tiling(S)'
  BY PutTiles
<1>2. UNCHANGED <<dbi_read_only, torn>> /\ ~dbi_read_only /\ pc' # "scan"
  BY DEF Put, history
<1> QED
  BY <1>1, <1>2, Carried

(* A file that is written, or scanned, is not read-only.                   *)
LEMMA Writable ==
    ASSUME IInv, pc # "idle"
    PROVE  ~dbi_read_only
  BY DEF IInv, Busy

LEMMA StepCarried ==
    ASSUME IInv, Tiled,
           \/ Allocate \/ WriteHeader \/ Zapped \/ FrontErased \/ BackErased
           \/ SurplusErased \/ PlaceErased \/ ObjectWritten \/ Deleted \/ ScanObject
    PROVE  Tiled'
<1>1. CASE Allocate
  <2>1. \A S : Tiling(S) => Tiling(S)'
    BY <1>1, AllocateTiles
  <2>2. UNCHANGED <<dbi_read_only, torn>> /\ pc = "allocate" /\ pc' # "scan"
    BY <1>1 DEF Allocate, history
  <2> QED
    BY <2>1, <2>2, Writable, Carried
<1>2. CASE WriteHeader
  <2>1. \A S : Tiling(S) => \E T : Tiling(T)'
    BY <1>2, WriteHeaderTiles
  <2>2. UNCHANGED <<dbi_read_only, torn>> /\ pc # "idle" /\ pc # "scan" /\ pc' = pc
    BY <1>2 DEF WriteHeader, memory, history, Writes
  <2> QED
    BY <2>1, <2>2, Writable, Carried
<1>3. CASE Zapped
  <2>1. \A S : Tiling(S) => \E T : Tiling(T)'
    BY <1>3, ZappedTiles
  <2>2. UNCHANGED <<dbi_read_only, torn>> /\ pc = "zap" /\ pc' # "scan"
    BY <1>3 DEF Zapped, LastWrite, history
  <2> QED
    BY <2>1, <2>2, Writable, Carried
<1>4. CASE FrontErased
  <2>1. \A S : Tiling(S) => \E T : Tiling(T)'
    BY <1>4, FrontErasedTiles
  <2>2. UNCHANGED <<dbi_read_only, torn>> /\ pc = "front" /\ pc' # "scan"
    BY <1>4 DEF FrontErased, LastWrite, history
  <2> QED
    BY <2>1, <2>2, Writable, Carried
<1>5. CASE BackErased
  <2>1. \A S : Tiling(S) => \E T : Tiling(T)'
    BY <1>5, BackErasedTiles
  <2>2. UNCHANGED <<dbi_read_only, torn>> /\ pc = "back" /\ pc' # "scan"
    BY <1>5 DEF BackErased, LastWrite, history
  <2> QED
    BY <2>1, <2>2, Writable, Carried
<1>6. CASE SurplusErased
  <2>1. \A S : Tiling(S) => \E T : Tiling(T)'
    BY <1>6, SurplusErasedTiles
  <2>2. UNCHANGED <<dbi_read_only, torn>> /\ pc = "surplus" /\ pc' # "scan"
    BY <1>6 DEF SurplusErased, LastWrite, history
  <2> QED
    BY <2>1, <2>2, Writable, Carried
<1>7. CASE PlaceErased
  <2>1. \A S : Tiling(S) => \E T : Tiling(T)'
    BY <1>7, PlaceErasedTiles
  <2>2. UNCHANGED <<dbi_read_only, torn>> /\ pc = "erase" /\ pc' # "scan"
    BY <1>7 DEF PlaceErased, LastWrite, history
  <2> QED
    BY <2>1, <2>2, Writable, Carried
<1>8. CASE ObjectWritten
  <2>1. \A S : Tiling(S) => \E T : Tiling(T)'
    BY <1>8, ObjectWrittenTiles
  <2>2. UNCHANGED <<dbi_read_only, torn>> /\ pc = "write" /\ pc' # "scan"
    BY <1>8 DEF ObjectWritten, LastWrite
  <2> QED
    BY <2>1, <2>2, Writable, Carried
<1>9. CASE Deleted
  <2>1. \A S : Tiling(S) => \E T : Tiling(T)'
    BY <1>9, DeletedTiles
  <2>2. UNCHANGED <<dbi_read_only, torn>> /\ pc = "delete" /\ pc' # "scan"
    BY <1>9 DEF Deleted, LastWrite
  <2> QED
    BY <2>1, <2>2, Writable, Carried
<1>10. CASE ScanObject
  <2>1. \A S : Tiling(S) => \E T : Tiling(T)'
    BY <1>10, ScanObjectTiles
  <2>2. UNCHANGED <<dbi_read_only, torn, dbi_eof, half>> /\ pc = "scan"
    BY <1>10 DEF ScanObject, history
  <2> QED
    BY <2>1, <2>2, Writable, Carried
<1> QED
  BY <1>1, <1>2, <1>3, <1>4, <1>5, <1>6, <1>7, <1>8, <1>9, <1>10

(* Whatever operations, failed writes, crashes and scans there are, the    *)
(* file is a chain of objects that the directory and the map describe, as  *)
(* far as the operation under way and the scan under way have come.        *)
THEOREM TiledAlways == Spec => [](IInv /\ Tiled)
<1>1. Init => IInv /\ Tiled
  <2> SUFFICES ASSUME Init PROVE IInv /\ Tiled
    OBVIOUS
  <2>1. Tiling({}) /\ {} \in SUBSET (Start .. file_end - 1)
    BY InitTiles
  <2>2. ~dbi_read_only /\ pc = "idle"
    BY DEF Init
  <2> QED
    BY <2>1, <2>2, InitHolds DEF Tiled
<1>2. IInv /\ Tiled /\ [Next]_vars => Tiled'
  <2> SUFFICES ASSUME IInv, Tiled, [Next]_vars PROVE Tiled'
    OBVIOUS
  <2>1. ASSUME NEW n \in Names, Delete(n) PROVE Tiled'
    BY <2>1, DeleteCarried
  <2>2. ASSUME NEW n \in Names, NEW c \in Content, Put(n, c) PROVE Tiled'
    BY <2>2, PutCarried
  <2>3. CASE \/ Allocate \/ WriteHeader \/ Zapped \/ FrontErased \/ BackErased
             \/ SurplusErased \/ PlaceErased \/ ObjectWritten \/ Deleted \/ ScanObject
    BY <2>3, StepCarried
  <2>4. CASE WriteFails
    BY <2>4, WriteFailsTiles
  <2>5. CASE Crash
    BY <2>5, CrashTiles
  <2>6. CASE ScanEnd
    BY <2>6, ScanEndTiles
  <2>7. CASE ScanFatal
    BY <2>7, ScanFatalTiles
  <2>8. CASE ScanShort
    BY <2>8, ScanShortTiles
  <2>9. CASE UNCHANGED vars
    BY <2>9, StutterTiles
  <2> QED
    BY <2>1, <2>2, <2>3, <2>4, <2>5, <2>6, <2>7, <2>8, <2>9 DEF Next
<1> QED
  BY <1>1, <1>2, Invariance, PTL DEF Spec

(* A file is read-only, or corrupt, only if a write failed or the program  *)
(* was killed while it divided storage or extended the file: what a scan   *)
(* reads after a crash at any other point is a chain of objects.           *)
THEOREM ReadOnlyForAReason == Spec => []StaysReadable
<1>1. Tiled => StaysReadable
  BY DEF Tiled, StaysReadable
<1> QED
  BY <1>1, TiledAlways, PTL

(* Between operations each unit of the file is an object's or free in the  *)
(* map: the object of the file that the unit is in was last written for a  *)
(* directory entry, or as free storage.                                    *)
LEMMA EachUnitKnown ==
    ASSUME IInv, Usable, NEW S, Tiling(S), NEW a \in Start .. dbi_eof - 1
    PROVE  a \in (UNION {Of(n) : n \in Names}) \cup (UNION {Free(e) : e \in dbi_freep})
<1>1. /\ dbi_eof = file_end /\ Marks(file_end, S) /\ AllChained(file, file_end, S)
      /\ Match(S, file_end, {}, Start, Start)
      /\ file \in File /\ file_end \in Start .. MaxEnd + 1 /\ file_end \in Nat
      /\ dir \in [Names -> Place]
  BY AtRest
<1>2. PICK s \in S : s <= a /\ a < Ends(file, s)
  BY <1>1, Cover
<1>3. /\ s \in Nat /\ s \in Start .. MaxEnd /\ s < file_end /\ Start <= s
      /\ file[s].head # None
  BY <1>1, <1>2, MarksType DEF AllChained, Chained, Sound
<1>4. PICK n : n = file[s].head.name /\ n \in Names \cup {None}
  BY <1>1, <1>3, HeadType
<1>5. Named(file, s, n) /\ Ends(file, s) \in Nat /\ a \in Nat
  BY <1>1, <1>3, <1>4, HeadType DEF Named, Start
<1>6. CASE n = None
  <2>1. ~(Start <= s /\ s < Start)
    BY <1>3 DEF Start
  <2>2. s .. Ends(file, s) - 1 \subseteq FreeUnits
    BY <1>1, <1>3, <1>5, <1>6, <2>1 DEF Match
  <2>3. a \in FreeUnits
    BY <1>2, <1>3, <1>5, <2>2
  <2> QED
    BY <2>3 DEF FreeUnits
<1>7. CASE n \in Names
  <2>1. dir[n].addr = s
    BY <1>1, <1>3, <1>5, <1>7 DEF Match
  <2>2. dir[n].addr # PhonyAddr /\ dir[n] # Absent
    BY <1>3, <2>1 DEF Absent, PhonyAddr
  <2>3. file[s].head = [name |-> n, len |-> dir[n].len]
    BY <1>1, <1>7, <2>1, <2>2 DEF Match
  <2>4. Ends(file, s) = s + dir[n].len /\ dir[n].len \in Nat
    BY <1>1, <1>7, <2>3 DEF Ends, Place
  <2>5. a \in s .. s + dir[n].len - 1
    BY <1>2, <1>3, <1>5, <2>4
  <2>6. a \in Of(n)
    BY <2>1, <2>2, <2>5 DEF Of, Units
  <2> QED
    BY <1>7, <2>6
<1> QED
  BY <1>4, <1>6, <1>7

(* No storage is lost to both the directory and the map: what was freed    *)
(* can be used again, after any sequence of operations, crashes and scans. *)
THEOREM NoStorageLost == Spec => []NothingLeaked
<1>1. IInv /\ Tiled => NothingLeaked
  <2> SUFFICES ASSUME IInv, Tiled, Usable, ~Misread,
                      NEW a \in Start .. dbi_eof - 1
               PROVE  a \in (UNION {Of(n) : n \in Names})
                            \cup (UNION {Free(e) : e \in dbi_freep})
    BY DEF NothingLeaked
  <2>1. PICK S : Tiling(S)
    BY DEF Tiled
  <2> QED
    BY <2>1, EachUnitKnown
<1> QED
  BY <1>1, TiledAlways, PTL

LEMMA AllRetrieved ==
    ASSUME IInv, Usable, NEW S, Tiling(S), NEW n \in Names, n \notin lost
    PROVE  Retrieved(n)
<1>1. /\ OwnName /\ Marks(file_end, S) /\ Kept(file, file_end, S, Names \ lost)
      /\ Match(S, file_end, {}, Start, Start) /\ Layout(dbi_freep, dir, dbi_eof)
  BY AtRest
<1>2. Retrievable(S, Names \ lost, {}, Start, Start)
  BY <1>1 DEF Retrievable
<1>3. dir[n].addr # PhonyAddr => 0 < dir[n].len
  BY <1>1 DEF Layout
<1>4. n \in Names \ lost /\ n \notin {}
  OBVIOUS
<1> QED
  BY <1>2, <1>3, <1>4, Retrieval

(* Every object but the one being changed reads as it was last put, and a  *)
(* deleted one does not come back, whatever an operation on another object *)
(* does, whichever write fails, and when a file is scanned after a crash.  *)
THEOREM ObjectsReadBack == Spec => []ReadsBack
<1>1. IInv /\ Tiled => ReadsBack
  <2> SUFFICES ASSUME IInv, Tiled, pc # "scan", ~Misread PROVE ReadsBack
    BY DEF ReadsBack
  <2>1. PICK S : Tiling(S)
    BY DEF Tiled
  <2>2. CASE dbi_read_only
    BY <2>2 DEF Tiled
  <2>3. CASE ~dbi_read_only
    <3>1. Busy \/ Usable
      BY <2>3 DEF Busy, Usable
    <3>2. ASSUME NEW n \in Names \ Doubtful PROVE Retrieved(n)
      <4>1. CASE Busy
        <5>1. n \notin lost /\ n # op.name
          BY <4>1 DEF Doubtful, Busy
        <5> QED
          BY <2>1, <4>1, <5>1, OthersRetrieved
      <4>2. CASE Usable
        <5>1. n \notin lost
          BY DEF Doubtful
        <5> QED
          BY <2>1, <4>2, <5>1, AllRetrieved
      <4> QED
        BY <3>1, <4>1, <4>2
    <3> QED
      BY <3>2 DEF ReadsBack, Retrieved
  <2> QED
    BY <2>2, <2>3
<1> QED
  BY <1>1, TiledAlways, PTL
=============================================================================
