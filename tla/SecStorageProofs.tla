-------------------------- MODULE SecStorageProofs --------------------------
(***************************************************************************)
(* Proofs about SecStorage, for every set of names and values, every size  *)
(* of the map, and any number of power cuts and failing writes.            *)
(***************************************************************************)
EXTENDS SecStorage, WellFoundedInduction, TLAPS

Entries == Names \cup {Dummy}
States == Values \cup {None, Void, Gone}
Contents == [type : {"blank", "torn"}]
            \cup [type : {"object"}, name : Names, val : Values]
            \cup [type : {"map"}, names : Seq(Entries)]

(* A name has one entry of the map, and an entry has an item. *)
MapOK(m) == /\ m \in Seq(Entries) /\ Len(m) <= MaxKeys
            /\ \A i, j \in DOMAIN m : m[i] = m[j] /\ m[i] # Dummy => i = j

(* The map that is read from the copies c. *)
Medium(c) == IF IsMap(c[0][1]) THEN c[0][1].names ELSE <<>>

Types == /\ copy \in [Items -> [1 .. 2 -> Contents]]
         /\ MapOK(map) /\ MapOK(Medium(copy))
         /\ inited \in {0, 1} /\ dirty \in {0, 1} /\ cp \in {1, 2}
         /\ cur \in [Names -> States] /\ saved \in [Names -> States]
         /\ cuts \in Nat /\ fails \in Nat

(* The keys whose state s is a value have it under the map m and the copies  *)
(* c; those without a value have no entry.                                   *)
Has(m, c, n, v) == \E i \in DOMAIN m : m[i] = n /\ c[i][1] = Object(n, v)
Absent(m, n) == \A i \in DOMAIN m : m[i] # n
Settled(s, m, c) == \A n \in Names : /\ s[n] \in Values => Has(m, c, n, s[n])
                                     /\ s[n] = None => Absent(m, n)

(* The item of a key that is not erased holds no other key. *)
Own(x, n) == \A k \in 1 .. 2 : IsKey(x[k]) => x[k].name = n
OwnItems(s, m, c, except) ==
  \A n \in Names \ except : s[n] # Gone =>
    \A i \in DOMAIN m : m[i] = n => Own(c[i], n)

(* How far the call has come: its item, what it has still to write and what  *)
(* it has written.                                                           *)
Writing(i) ==
  LET o == Object(op.name, op.val)
  IN  /\ map[i] = op.name
      /\ todo \in {<<Write(i, Blank), Write(i, o)>>, <<Write(i, o)>>, <<>>}
      /\ todo = <<Write(i, o)>> /\ cp = 2 => copy[i][1] = o
      /\ todo = <<>> => cp = 1 /\ dirty = 1 /\ copy[i][1] = o /\ copy[i][2] = o
Erasing(i) ==
  /\ map[i] = Dummy
  /\ todo \in {<<Write(i, Blank)>>, <<>>}
  /\ todo = <<>> => cp = 1 /\ dirty = 1
Replacing(c) ==
  /\ todo \in {<<Write(0, c)>>, <<>>}
  /\ todo = <<>> => cp = 1
  /\ todo = <<>> \/ cp = 2 => copy[0][1] = c

WriteRuns == op.kind = "write" => /\ op.name \in Names /\ op.val \in Values
                                  /\ cur[op.name] = Void /\ saved[op.name] \in {Void, Gone}
                                  /\ \E i \in DOMAIN map : Writing(i)
EraseRuns == op.kind = "erase" => /\ op.name \in Names
                                  /\ cur[op.name] = Gone /\ saved[op.name] = Gone
                                  /\ Absent(map, op.name)
                                  /\ \E i \in DOMAIN map : Erasing(i)
EraseAllRuns == op.kind = "erase_all" => /\ map = <<>> /\ cur = saved
                                         /\ \A n \in Names : saved[n] \in {Void, Gone}
                                         /\ Replacing(Blank)
ExitRuns == op.kind = "exit" => dirty = 1 /\ Replacing(Map(map))

Control == /\ op.kind \in {"none", "write", "erase", "erase_all", "exit"}
           /\ op.kind = "none" => todo = <<>> /\ cp = 1
           /\ op.kind # "none" => inited = 1
           /\ WriteRuns /\ EraseRuns /\ EraseAllRuns /\ ExitRuns

(* What has been done since the storage was opened: a key that was not       *)
(* touched is as it was, and one that was is no longer in saved.  Only when  *)
(* something was written is the map in memory to be written too.             *)
Changes ==
  /\ \A n \in Names : /\ saved[n] \in {Void, Gone} \/ saved[n] = cur[n]
                      /\ cur[n] = Gone => saved[n] = Gone
                      /\ inited = 1 /\ dirty = 0 /\ cur[n] \in Values \cup {None}
                           => saved[n] = cur[n]
  /\ inited = 1 /\ dirty = 0 /\ fails = 0 /\ op.kind # "write" => cur = saved

(* The map m in memory gives no item of a key in the set k on the medium,    *)
(* whose map is d, to another key.                                           *)
Agreeing(m, d, k) ==
  \A n \in k : \A i \in DOMAIN d : d[i] = n => i \in DOMAIN m /\ m[i] = n

(* The keys that this holds for: not the erased ones, nor those a failing    *)
(* call has left unsettled.                                                  *)
Kept(s, f, k) == {n \in Names : \/ s[n] \in Values
                                \/ s[n] # Gone /\ f = 0 /\ k # "erase_all"}
Agree == inited = 1 => Agreeing(map, Medium(copy), Kept(saved, fails, op.kind))

InMemory == inited = 1 => Settled(cur, map, copy)
OnMedium == copy[0][1] # Torn => Settled(saved, Medium(copy), copy)

(* The key that is being written: its item may still hold another one. *)
Unwritten(o) == IF o.kind = "write" THEN {o.name} ELSE {}
OwnInMemory == inited = 1 /\ fails = 0 => OwnItems(cur, map, copy, Unwritten(op))
OwnOnMedium == fails = 0 => OwnItems(saved, Medium(copy), copy, {})

StorageInv == /\ Types /\ Control /\ Changes /\ Agree
              /\ InMemory /\ OnMedium /\ OwnInMemory /\ OwnOnMedium
-----------------------------------------------------------------------------
(* Contents and items *)

LEMMA KindsOfContent ==
  /\ Blank \in Contents /\ Torn \in Contents /\ Blank # Torn
  /\ ~IsKey(Blank) /\ ~IsKey(Torn) /\ ~IsMap(Blank) /\ ~IsMap(Torn)
BY Zenon DEF Blank, Torn, Contents, IsKey, IsMap

LEMMA ObjectIs ==
  ASSUME NEW n, NEW v
  PROVE  /\ IsKey(Object(n, v)) /\ Object(n, v).name = n
         /\ n \in Names /\ v \in Values => Object(n, v) \in Contents
BY Zenon DEF Object, Contents, IsKey

LEMMA MapIs ==
  ASSUME NEW m
  PROVE  /\ IsMap(Map(m)) /\ Map(m).names = m /\ Map(m) # Torn /\ ~IsKey(Map(m))
         /\ m \in Seq(Entries) => Map(m) \in Contents
BY Zenon DEF Map, Torn, Contents, IsMap, IsKey

LEMMA ReadMapIs == mmc_secure_storage_read_map = Medium(copy)
BY Zenon DEF mmc_secure_storage_read_map, Medium

LEMMA EmptyMap ==
  /\ MapOK(<<>>)
  /\ \A n : Absent(<<>>, n)
  /\ \A s, c, e : OwnItems(s, <<>>, c, e)
  /\ \A m, k : Agreeing(m, <<>>, k)
<1>1. DOMAIN <<>> = {}
  OBVIOUS
<1>2. MapOK(<<>>)
  BY SecStorageAssumption DEF MapOK
<1> QED
  BY <1>1, <1>2, Zenon DEF Absent, OwnItems, Agreeing

LEMMA EntryIsItem ==
  ASSUME NEW m, MapOK(m), NEW i \in DOMAIN m
  PROVE  i \in Items /\ i # 0 /\ m[i] \in Names \cup {Dummy}
<1>1. m \in Seq(Entries) /\ Len(m) <= MaxKeys
  BY Zenon DEF MapOK
<1> QED
  BY <1>1, SecStorageAssumption DEF Items, Entries

LEMMA ListFacts ==
  ASSUME NEW a, NEW b
  PROVE  /\ <<a>>[1] = a /\ Tail(<<a>>) = <<>> /\ <<a>> # <<>>
         /\ <<a, b>>[1] = a /\ Tail(<<a, b>>) = <<b>> /\ <<a, b>> # <<>>
         /\ <<a, b>> # <<b>> /\ <<a, b>> # <<a>>
OBVIOUS

LEMMA WriteIs ==
  ASSUME NEW i, NEW c
  PROVE  Write(i, c).item = i /\ Write(i, c).content = c
BY Zenon DEF Write

LEMMA OneWrite ==
  ASSUME NEW i, NEW c, NEW t, t = <<Write(i, c)>>
  PROVE  t[1].item = i /\ t[1].content = c
BY Zenon DEF Write

LEMMA TwoWrites ==
  ASSUME NEW i, NEW c, NEW w, NEW t, t = <<Write(i, c), w>>
  PROVE  t[1].item = i /\ t[1].content = c
BY Zenon DEF Write

(* d is c with x in copy k of item i, and no other change. *)
PutAt(c, d, i, k, x) ==
  /\ d \in [Items -> [1 .. 2 -> Contents]]
  /\ d[i][k] = x
  /\ \A j \in Items, h \in 1 .. 2 : j # i \/ h # k => d[j][h] = c[j][h]

LEMMA PutIs ==
  ASSUME NEW c \in [Items -> [1 .. 2 -> Contents]], NEW i \in Items, NEW k \in {1, 2},
         NEW x \in Contents, NEW d, d = [c EXCEPT ![i][k] = x]
  PROVE  PutAt(c, d, i, k, x)
BY DEF PutAt

-----------------------------------------------------------------------------
(* The map of names *)

(* Every non-empty set of natural numbers has a least element. *)
LEMMA NatMin ==
  ASSUME NEW T \in SUBSET Nat, T # {}
  PROVE  \E x \in T : \A y \in T : x <= y
<1> DEFINE R == {ss \in Nat \X Nat : ss[1] < ss[2]}
<1>1. IsWellFoundedOn(R, Nat)
  BY NatLessThanWellFounded, Zenon DEF OpToRel
<1> HIDE DEF R
<1>2. PICK x \in T : \A y \in T : ~ (<<y, x>> \in R)
  BY <1>1, WFMin, Zenon
<1>3. ASSUME NEW y \in T PROVE x <= y
  <2>1. ~ (<<y, x>> \in R)
    BY <1>2, Zenon
  <2> QED
    BY <2>1 DEF R
<1> QED
  BY <1>3, Zenon

LEMMA ProbeIs ==
  ASSUME NEW m \in Seq(Entries), NEW n
  PROVE  /\ Probe(m, n) = 0 <=> Absent(m, n)
         /\ Probe(m, n) # 0 => Probe(m, n) \in DOMAIN m /\ m[Probe(m, n)] = n
<1> DEFINE I == {i \in DOMAIN m : m[i] = n}
           least == CHOOSE i \in I : \A j \in I : i <= j
<1>1. Probe(m, n) = IF I = {} THEN 0 ELSE least
  BY Zenon DEF Probe
<1>2. CASE I = {}
  BY <1>1, <1>2, Zenon DEF Absent
<1>3. CASE I # {}
  <2>1. I \in SUBSET Nat /\ 0 \notin I
    OBVIOUS
  <2>2. \E x \in I : \A y \in I : x <= y
    BY <1>3, <2>1, NatMin, Zenon
  <2>3. least \in I
    BY <2>2, Zenon
  <2>4. least # 0 /\ least \in DOMAIN m /\ m[least] = n
    BY <2>1, <2>3, Zenon
  <2> QED
    BY <1>1, <1>3, <2>4, Zenon DEF Absent
<1> QED
  BY <1>2, <1>3, Zenon

(* __fill_name_in_map gives the name an entry that no key has. *)
Filled(m, f, n) ==
  /\ MapOK(f.map) /\ f.index \in DOMAIN f.map /\ f.map[f.index] = n
  /\ \A i \in DOMAIN m : /\ i \in DOMAIN f.map
                         /\ i = f.index => m[i] = Dummy
                         /\ i # f.index => f.map[i] = m[i]
  /\ \A i \in DOMAIN f.map : i # f.index => i \in DOMAIN m

LEMMA FillIs ==
  ASSUME NEW m, MapOK(m), NEW n \in Names, Absent(m, n),
         __fill_name_in_map(m, n).index # 0
  PROVE  Filled(m, __fill_name_in_map(m, n), n)
<1>f. PICK f : f = __fill_name_in_map(m, n)
  OBVIOUS
<1>i. f.index # 0
  BY <1>f, Zenon
<1>s. SUFFICES Filled(m, f, n)
  BY <1>f, Zenon
<1>0. m \in Seq(Entries) /\ Len(m) <= MaxKeys /\ n \in Entries /\ n # Dummy
  BY SecStorageAssumption, Zenon DEF MapOK, Entries
<1>1. DOMAIN m = 1 .. Len(m) /\ Len(m) \in Nat /\ MaxKeys \in Nat
  BY <1>0, SecStorageAssumption
<1>2. CASE Probe(m, Dummy) # 0
  <2>1. PICK j \in DOMAIN m : j = Probe(m, Dummy) /\ m[j] = Dummy
    BY <1>0, <1>2, ProbeIs, Zenon
  <2>2. f.map = [m EXCEPT ![j] = n] /\ f.index = j
    BY <1>f, <1>2, <2>1, Zenon DEF __fill_name_in_map
  <2>3. f.map \in Seq(Entries) /\ Len(f.map) = Len(m) /\ DOMAIN f.map = DOMAIN m
    BY <1>0, <1>1, <2>1, <2>2
  <2>4. f.map[j] = n /\ \A i \in DOMAIN m : i # j => f.map[i] = m[i]
    BY <1>0, <2>2, Zenon
  <2>5. ASSUME NEW a \in DOMAIN f.map, NEW b \in DOMAIN f.map,
               f.map[a] = f.map[b], f.map[a] # Dummy
        PROVE  a = b
    <3>1. a \in DOMAIN m /\ b \in DOMAIN m
      BY <2>3, Zenon
    <3>2. m[a] # n /\ m[b] # n
      BY <3>1, Zenon DEF Absent
    <3>3. a # j /\ b # j => f.map[a] = m[a] /\ f.map[b] = m[b]
      BY <2>4, <3>1, Zenon
    <3>4. a = j <=> b = j
      BY <2>4, <2>5, <3>1, <3>2, Zenon
    <3> QED
      BY <2>5, <3>1, <3>3, <3>4, Zenon DEF MapOK
  <2>6. MapOK(f.map)
    BY <1>0, <2>3, <2>5, Zenon DEF MapOK
  <2>7. f.index = j
    BY <2>2, Zenon
  <2>8. /\ f.index \in DOMAIN f.map /\ f.map[f.index] = n
        /\ \A i \in DOMAIN f.map : i # f.index => i \in DOMAIN m
    BY <2>3, <2>4, <2>7, Zenon
  <2>9. ASSUME NEW i \in DOMAIN m
        PROVE  /\ i \in DOMAIN f.map
               /\ i = f.index => m[i] = Dummy
               /\ i # f.index => f.map[i] = m[i]
    BY <2>1, <2>3, <2>4, <2>7, Zenon
  <2> QED
    BY <2>6, <2>8, <2>9, Zenon DEF Filled
<1>3. CASE Probe(m, Dummy) = 0
  <2>1. f.map = Append(m, n) /\ f.index = Len(m) + 1 /\ Len(m) < MaxKeys
    <3>1. f = IF Len(m) >= MaxKeys THEN [map |-> m, index |-> 0]
              ELSE [map |-> Append(m, n), index |-> Len(m) + 1]
      BY <1>f, <1>3, Zenon DEF __fill_name_in_map
    <3>2. ~ (Len(m) >= MaxKeys)
      BY <1>i, <3>1, Zenon
    <3>3. f = [map |-> Append(m, n), index |-> Len(m) + 1]
      BY <3>1, <3>2, Zenon
    <3> QED
      BY <1>1, <3>2, <3>3
  <2>2. f.map \in Seq(Entries) /\ Len(f.map) = Len(m) + 1
    BY <1>0, <2>1
  <2>3. DOMAIN f.map = 1 .. (Len(m) + 1) /\ Len(f.map) <= MaxKeys
    BY <1>1, <2>1, <2>2
  <2>4. f.map[f.index] = n /\ \A i \in DOMAIN m : f.map[i] = m[i]
    BY <1>0, <1>1, <2>1
  <2>5. /\ f.index \in DOMAIN f.map
        /\ \A i \in DOMAIN f.map : i # f.index => i \in DOMAIN m
        /\ \A i \in DOMAIN m : i \in DOMAIN f.map /\ i # f.index
    BY <1>1, <2>1, <2>3
  <2>6. ASSUME NEW a \in DOMAIN f.map, NEW b \in DOMAIN f.map,
               f.map[a] = f.map[b], f.map[a] # Dummy
        PROVE  a = b
    <3>1. ASSUME NEW i \in DOMAIN f.map, i # f.index
          PROVE  i \in DOMAIN m /\ f.map[i] = m[i] /\ m[i] # n
      BY <2>4, <2>5, <3>1, Zenon DEF Absent
    <3>2. a = f.index <=> b = f.index
      BY <2>4, <2>6, <3>1, Zenon
    <3> QED
      BY <2>6, <3>1, <3>2, Zenon DEF MapOK
  <2>7. MapOK(f.map)
    BY <2>2, <2>3, <2>6, Zenon DEF MapOK
  <2> QED
    BY <2>4, <2>5, <2>7, Zenon DEF Filled
<1> QED
  BY <1>2, <1>3, Zenon

(* __discard_name_in_map takes the name off its entry, which stays. *)
Discarded(m, r, n, j) ==
  /\ MapOK(r) /\ Absent(r, n)
  /\ DOMAIN r = DOMAIN m /\ r[j] = Dummy
  /\ \A i \in DOMAIN m : i # j => r[i] = m[i]

LEMMA DiscardIs ==
  ASSUME NEW m, MapOK(m), NEW n \in Names, NEW j \in DOMAIN m, j = Probe(m, n), m[j] = n
  PROVE  Discarded(m, __discard_name_in_map(m, n), n, j)
<1>r. PICK r : r = __discard_name_in_map(m, n)
  OBVIOUS
<1>s. SUFFICES Discarded(m, r, n, j)
  BY <1>r, Zenon
<1>0. m \in Seq(Entries) /\ Len(m) <= MaxKeys /\ Dummy \in Entries /\ n # Dummy
  BY SecStorageAssumption, Zenon DEF MapOK, Entries
<1>1. r = [m EXCEPT ![j] = Dummy]
  BY <1>r, Zenon DEF __discard_name_in_map
<1>2. r \in Seq(Entries) /\ Len(r) = Len(m) /\ DOMAIN r = DOMAIN m
  BY <1>0, <1>1
<1>3. r[j] = Dummy /\ \A i \in DOMAIN m : i # j => r[i] = m[i]
  BY <1>0, <1>1, Zenon
<1>4. Absent(r, n)
  BY <1>0, <1>2, <1>3, Zenon DEF Absent, MapOK
<1>5. ASSUME NEW a \in DOMAIN r, NEW b \in DOMAIN r, r[a] = r[b], r[a] # Dummy
      PROVE  a = b
  BY <1>2, <1>3, <1>5, Zenon DEF MapOK
<1> QED
  BY <1>0, <1>2, <1>3, <1>4, <1>5, Zenon DEF MapOK, Discarded

-----------------------------------------------------------------------------
(* What keeps the keys settled and the items their own *)

(* Only the first copies of the items in the map matter. *)
LEMMA SettledKeeps ==
  ASSUME NEW s, NEW m, NEW c, NEW d, Settled(s, m, c),
         \A i \in DOMAIN m : d[i][1] = c[i][1] \/ s[m[i]] \notin Values \/ m[i] \notin Names
  PROVE  Settled(s, m, d)
<1>1. ASSUME NEW n \in Names, s[n] \in Values PROVE Has(m, d, n, s[n])
  <2>1. PICK i \in DOMAIN m : m[i] = n /\ c[i][1] = Object(n, s[n])
    BY <1>1, Zenon DEF Settled, Has
  <2>2. d[i][1] = c[i][1]
    BY <1>1, <2>1, Zenon
  <2> QED
    BY <2>1, <2>2, Zenon DEF Has
<1> QED
  BY <1>1, Zenon DEF Settled

(* A map with other entries does as well, if the keys that are settled have  *)
(* theirs.                                                                   *)
LEMMA SettledMoves ==
  ASSUME NEW s, NEW t, NEW m, NEW r, NEW c, Settled(s, m, c),
         \A n \in Names : t[n] \in Values \cup {None} => t[n] = s[n],
         \A n \in Names : t[n] = None => Absent(r, n) \/ ~ Absent(m, n),
         \A i \in DOMAIN m : m[i] \in Names /\ t[m[i]] \in Values
                               => i \in DOMAIN r /\ r[i] = m[i]
  PROVE  Settled(t, r, c)
<1> SUFFICES ASSUME NEW n \in Names
             PROVE  /\ t[n] \in Values => Has(r, c, n, t[n])
                    /\ t[n] = None => Absent(r, n)
  BY Zenon DEF Settled
<1>1. ASSUME t[n] \in Values PROVE Has(r, c, n, t[n])
  <2>1. t[n] = s[n] /\ Has(m, c, n, s[n])
    BY <1>1, Zenon DEF Settled
  <2> QED
    BY <1>1, <2>1, Zenon DEF Has
<1>2. ASSUME t[n] = None PROVE Absent(r, n)
  BY <1>2, Zenon DEF Settled
<1> QED
  BY <1>1, <1>2, Zenon

LEMMA OwnKeeps ==
  ASSUME NEW s, NEW m, NEW c, NEW d, NEW e, OwnItems(s, m, c, e),
         \A n \in Names \ e : s[n] # Gone =>
           \A i \in DOMAIN m : m[i] = n =>
             \A k \in 1 .. 2 : d[i][k] = c[i][k] \/ (IsKey(d[i][k]) => d[i][k].name = n)
  PROVE  OwnItems(s, m, d, e)
<1> SUFFICES ASSUME NEW n \in Names \ e, s[n] # Gone, NEW i \in DOMAIN m, m[i] = n,
                    NEW k \in 1 .. 2, IsKey(d[i][k])
             PROVE  d[i][k].name = n
  BY Zenon DEF OwnItems, Own
<1>1. IsKey(c[i][k]) => c[i][k].name = n
  BY ZenonT(60) DEF OwnItems, Own
<1>2. d[i][k] = c[i][k] \/ d[i][k].name = n
  BY Zenon
<1> QED
  BY <1>1, <1>2, Zenon

LEMMA OwnMoves ==
  ASSUME NEW s, NEW t, NEW m, NEW r, NEW c, NEW e, NEW g, OwnItems(s, m, c, e),
         \A n \in Names \ g : t[n] # Gone => s[n] # Gone /\ n \notin e,
         \A n \in Names \ g : \A i \in DOMAIN r : r[i] = n => i \in DOMAIN m /\ m[i] = n
  PROVE  OwnItems(t, r, c, g)
BY Zenon DEF OwnItems

-----------------------------------------------------------------------------
(* Writing a copy *)

(* The part of the invariant that is about the copies, with d for them. *)
Holds(d) ==
  /\ d \in [Items -> [1 .. 2 -> Contents]] /\ MapOK(Medium(d))
  /\ inited = 1 => Settled(cur, map, d)
  /\ d[0][1] # Torn => Settled(saved, Medium(d), d)
  /\ inited = 1 => Agreeing(map, Medium(d), Kept(saved, fails, op.kind))
  /\ inited = 1 /\ fails = 0 => OwnItems(cur, map, d, Unwritten(op))
  /\ fails = 0 => OwnItems(saved, Medium(d), d, {})

LEMMA InvHolds == StorageInv => Holds(copy)
BY Zenon DEF StorageInv, Types, InMemory, OnMedium, Agree, OwnInMemory, OwnOnMedium, Holds

(* The item of a key that is being written or erased is no concern of the    *)
(* other keys, neither in the map in memory nor in the one on the medium.    *)
LEMMA ItemPut ==
  ASSUME StorageInv, op.kind \in {"write", "erase"}, op.name \in Names,
         cur[op.name] \in {Void, Gone}, saved[op.name] \in {Void, Gone},
         NEW i \in DOMAIN map, map[i] \in {op.name, Dummy}, NEW k \in {1, 2},
         NEW x \in Contents,
         IsKey(x) => op.kind = "write" /\ x.name = op.name /\ map[i] = op.name,
         op.kind = "erase" => map[i] = Dummy,
         NEW d, PutAt(copy, d, i, k, x)
  PROVE  Holds(d)
<1>0. /\ copy \in [Items -> [1 .. 2 -> Contents]] /\ MapOK(map) /\ MapOK(Medium(copy))
      /\ inited = 1
  BY Zenon DEF StorageInv, Types, Control
<1>1. i \in Items /\ i # 0
  BY <1>0, EntryIsItem, Zenon
<1>2. /\ d \in [Items -> [1 .. 2 -> Contents]] /\ d[i][k] = x
      /\ \A j \in Items, h \in 1 .. 2 : j # i \/ h # k => d[j][h] = copy[j][h]
  BY Zenon DEF PutAt
<1>3. 0 \in Items /\ 1 \in 1 .. 2
  BY SecStorageAssumption DEF Items
<1>4. d[0][1] = copy[0][1]
  BY <1>1, <1>2, <1>3, Zenon
<1>5. Medium(d) = Medium(copy)
  BY <1>4, Zenon DEF Medium
<1>6. Void \notin Values /\ Gone \notin Values /\ Dummy \notin Names
  BY SecStorageAssumption, Zenon
<1>7. ASSUME NEW m, MapOK(m), NEW j \in DOMAIN m, j # i, NEW h \in 1 .. 2
      PROVE  d[j][h] = copy[j][h]
  BY <1>2, <1>7, EntryIsItem, ZenonT(60)
<1>8. Agreeing(map, Medium(copy), Kept(saved, fails, op.kind))
  BY <1>0, Zenon DEF StorageInv, Agree
<1>9. ASSUME i \in DOMAIN Medium(copy), Medium(copy)[i] \in Kept(saved, fails, op.kind)
      PROVE  Medium(copy)[i] = op.name
  <2>1. map[i] = Medium(copy)[i] /\ Medium(copy)[i] \in Names
    BY <1>8, <1>9, Zenon DEF Agreeing, Kept
  <2> QED
    BY <1>6, <2>1, Zenon
<1>10. Settled(cur, map, d)
  <2>1. ASSUME NEW j \in DOMAIN map
        PROVE  d[j][1] = copy[j][1] \/ cur[map[j]] \notin Values \/ map[j] \notin Names
    <3>1. j # i => d[j][1] = copy[j][1]
      BY <1>0, <1>3, <1>7, Zenon
    <3>2. j = i => cur[map[j]] \notin Values \/ map[j] \notin Names
      BY <1>6, Zenon
    <3> QED
      BY <3>1, <3>2, Zenon
  <2>2. Settled(cur, map, copy)
    BY <1>0, Zenon DEF StorageInv, InMemory
  <2> QED
    BY <2>1, <2>2, SettledKeeps, Zenon
<1>11. ASSUME copy[0][1] # Torn PROVE Settled(saved, Medium(copy), d)
  <2>1. ASSUME NEW j \in DOMAIN Medium(copy)
        PROVE  d[j][1] = copy[j][1] \/ saved[Medium(copy)[j]] \notin Values \/ Medium(copy)[j] \notin Names
    <3>1. CASE j # i
      BY <1>0, <1>3, <1>7, <3>1, Zenon
    <3>2. ASSUME j = i, Medium(copy)[i] \in Names, saved[Medium(copy)[i]] \in Values PROVE FALSE
      <4>1. Medium(copy)[i] \in Kept(saved, fails, op.kind)
        BY <3>2, Zenon DEF Kept
      <4>2. Medium(copy)[i] = op.name
        BY <1>9, <2>1, <3>2, <4>1, Zenon
      <4> QED
        BY <1>6, <3>2, <4>2, Zenon
    <3> QED
      BY <3>1, <3>2, Zenon
  <2>2. Settled(saved, Medium(copy), copy)
    BY <1>11, Zenon DEF StorageInv, OnMedium
  <2> QED
    BY <2>1, <2>2, SettledKeeps, Zenon
<1>12. ASSUME fails = 0 PROVE OwnItems(cur, map, d, Unwritten(op))
  <2>1. OwnItems(cur, map, copy, Unwritten(op))
    BY <1>0, <1>12, Zenon DEF StorageInv, OwnInMemory
  <2>2. ASSUME NEW n \in Names \ Unwritten(op), cur[n] # Gone,
               NEW j \in DOMAIN map, map[j] = n, NEW h \in 1 .. 2
        PROVE  d[j][h] = copy[j][h] \/ (IsKey(d[j][h]) => d[j][h].name = n)
    <3>1. j # i
      BY <1>6, <2>2, Zenon DEF Unwritten
    <3> QED
      BY <1>0, <1>7, <3>1, Zenon
  <2> QED
    BY <2>1, <2>2, OwnKeeps, Zenon
<1>13. ASSUME fails = 0 PROVE OwnItems(saved, Medium(copy), d, {})
  <2>1. OwnItems(saved, Medium(copy), copy, {})
    BY <1>13, Zenon DEF StorageInv, OwnOnMedium
  <2>2. ASSUME NEW n \in Names \ {}, saved[n] # Gone, NEW j \in DOMAIN Medium(copy),
               Medium(copy)[j] = n, NEW h \in 1 .. 2
        PROVE  d[j][h] = copy[j][h] \/ (IsKey(d[j][h]) => d[j][h].name = n)
    <3>1. CASE j # i \/ h # k
      BY <1>0, <1>1, <1>2, <1>7, <3>1, ZenonT(60)
    <3>2. CASE j = i /\ h = k
      <4>1. n \in Kept(saved, fails, op.kind)
        BY <1>13, <2>2, Zenon DEF Kept
      <4>2. n = op.name
        BY <1>9, <2>2, <3>2, <4>1, Zenon
      <4> QED
        BY <1>2, <3>2, <4>2, Zenon
    <3> QED
      BY <3>1, <3>2, Zenon
  <2> QED
    BY <2>1, <2>2, OwnKeeps, Zenon
<1> QED
  BY <1>0, <1>2, <1>4, <1>5, <1>8, <1>10, <1>11, <1>12, <1>13, Zenon DEF Holds

(* Writing the map changes no item of a key; the new map is one that all     *)
(* keys are settled in.                                                      *)
LEMMA MapPut ==
  ASSUME StorageInv, op.kind \in {"erase_all", "exit"}, NEW k \in {1, 2},
         NEW x \in {Torn, IF op.kind = "exit" THEN Map(map) ELSE Blank},
         NEW d, PutAt(copy, d, 0, k, x)
  PROVE  Holds(d)
<1>0. /\ copy \in [Items -> [1 .. 2 -> Contents]] /\ MapOK(map) /\ MapOK(Medium(copy))
      /\ inited = 1
  BY Zenon DEF StorageInv, Types, Control
<1>1. /\ d \in [Items -> [1 .. 2 -> Contents]] /\ d[0][k] = x
      /\ \A j \in Items, h \in 1 .. 2 : j # 0 \/ h # k => d[j][h] = copy[j][h]
  BY Zenon DEF PutAt
<1>2. 0 \in Items /\ 1 \in 1 .. 2
  BY SecStorageAssumption DEF Items
<1>3. ASSUME NEW m, MapOK(m), NEW j \in DOMAIN m, NEW h \in 1 .. 2
      PROVE  d[j][h] = copy[j][h]
  BY <1>1, <1>3, EntryIsItem, Zenon
<1>4. ASSUME NEW s, NEW m, MapOK(m), Settled(s, m, copy) PROVE Settled(s, m, d)
  <2>1. \A j \in DOMAIN m : d[j][1] = copy[j][1] \/ s[m[j]] \notin Values \/ m[j] \notin Names
    BY <1>2, <1>3, <1>4, Zenon
  <2> QED
    BY <1>4, <2>1, SettledKeeps, Zenon
<1>5. ASSUME NEW s, NEW m, NEW e, MapOK(m), OwnItems(s, m, copy, e) PROVE OwnItems(s, m, d, e)
  <2>1. ASSUME NEW n \in Names \ e, s[n] # Gone, NEW j \in DOMAIN m, m[j] = n, NEW h \in 1 .. 2
        PROVE  d[j][h] = copy[j][h] \/ (IsKey(d[j][h]) => d[j][h].name = n)
    BY <1>3, <1>5, Zenon
  <2> QED
    BY <1>5, <2>1, OwnKeeps, Zenon
<1>6. Settled(cur, map, d) /\ (fails = 0 => OwnItems(cur, map, d, Unwritten(op)))
  BY <1>0, <1>4, <1>5, Zenon DEF StorageInv, InMemory, OwnInMemory
<1>7. CASE k # 1
  <2>1. d[0][1] = copy[0][1]
    BY <1>1, <1>2, <1>7, Zenon
  <2>2. Medium(d) = Medium(copy)
    BY <2>1, Zenon DEF Medium
  <2>3. d[0][1] # Torn => Settled(saved, Medium(d), d)
    BY <1>0, <1>4, <2>1, <2>2, Zenon DEF StorageInv, OnMedium
  <2>4. fails = 0 => OwnItems(saved, Medium(d), d, {})
    BY <1>0, <1>5, <2>2, Zenon DEF StorageInv, OwnOnMedium
  <2>5. Agreeing(map, Medium(d), Kept(saved, fails, op.kind))
    BY <1>0, <2>2, Zenon DEF StorageInv, Agree
  <2> QED
    BY <1>0, <1>1, <1>6, <2>2, <2>3, <2>4, <2>5, Zenon DEF Holds
<1>8. CASE k = 1 /\ (x = Torn \/ op.kind = "erase_all")
  <2>1. d[0][1] = x
    BY <1>1, <1>8, Zenon
  <2>2. ~ IsMap(d[0][1])
    BY <1>8, <2>1, KindsOfContent, Zenon
  <2>3. Medium(d) = <<>>
    BY <2>2, Zenon DEF Medium
  <2>4. op.kind = "erase_all" => Settled(saved, Medium(d), d)
    <3>1. SUFFICES ASSUME op.kind = "erase_all", NEW n \in Names
                   PROVE  saved[n] \notin Values /\ Absent(Medium(d), n)
      BY <3>1, Zenon DEF Settled
    <3>2. saved[n] \in {Void, Gone}
      BY <3>1, Zenon DEF StorageInv, Control, EraseAllRuns
    <3> QED
      BY <2>3, <3>2, EmptyMap, SecStorageAssumption, Zenon
  <2>5. d[0][1] # Torn => Settled(saved, Medium(d), d)
    BY <1>8, <2>1, <2>4, Zenon
  <2> QED
    BY <1>1, <1>6, <2>3, <2>5, EmptyMap, Zenon DEF Holds
<1>9. CASE k = 1 /\ x # Torn /\ op.kind = "exit"
  <2>1. d[0][1] = Map(map)
    BY <1>1, <1>9, Zenon
  <2>2. Medium(d) = map
    BY <2>1, MapIs, Zenon DEF Medium
  <2>3. Changes
    BY Zenon DEF StorageInv
  <2>4. \A n \in Names : saved[n] \in Values \cup {None} => saved[n] = cur[n]
    <3>1. Void \notin Values \cup {None} /\ Gone \notin Values \cup {None}
      BY SecStorageAssumption, Zenon DEF Void, Gone, None
    <3> QED
      BY <2>3, <3>1, Zenon DEF Changes
  <2>5. Settled(saved, map, d)
    <3>1. \A n \in Names : saved[n] = None => Absent(map, n) \/ ~ Absent(map, n)
      OBVIOUS
    <3> QED
      BY <1>6, <2>4, <3>1, SettledMoves, Zenon
  <2>6. fails = 0 => OwnItems(saved, map, d, {})
    <3>1. Unwritten(op) = {}
      BY <1>9, Zenon DEF Unwritten
    <3>2. \A n \in Names \ {} : saved[n] # Gone => cur[n] # Gone /\ n \notin Unwritten(op)
      BY <2>3, <3>1, Zenon DEF Changes
    <3> QED
      BY <1>6, <3>2, OwnMoves, Zenon
  <2>7. Agreeing(map, map, Kept(saved, fails, op.kind))
    BY Zenon DEF Agreeing
  <2> QED
    BY <1>0, <1>1, <1>6, <2>2, <2>5, <2>6, <2>7, Zenon DEF Holds
<1> QED
  BY <1>7, <1>8, <1>9, Zenon

(* Whatever the running call writes next, and whatever is left of it when it *)
(* is interrupted.                                                           *)
LEMMA PutKeeps ==
  ASSUME StorageInv, todo # <<>>, NEW x \in {todo[1].content, Torn}, NEW d,
         d = [copy EXCEPT ![todo[1].item][cp] = x]
  PROVE  Holds(d) /\ x \in Contents /\ PutAt(copy, d, todo[1].item, cp, x)
<1>0. copy \in [Items -> [1 .. 2 -> Contents]] /\ MapOK(map) /\ cp \in {1, 2}
  BY Zenon DEF StorageInv, Types
<1>1. Torn \in Contents /\ ~ IsKey(Torn)
  BY KindsOfContent, Zenon
<1>2. CASE op.kind = "write"
  <2>1. /\ op.name \in Names /\ op.val \in Values
        /\ cur[op.name] \in {Void, Gone} /\ saved[op.name] \in {Void, Gone}
        /\ \E i \in DOMAIN map : Writing(i)
    BY <1>2, Zenon DEF StorageInv, Control, WriteRuns
  <2>2. PICK i \in DOMAIN map : Writing(i)
    BY <2>1, Zenon
  <2> DEFINE o == Object(op.name, op.val)
  <2>3. o \in Contents /\ o.name = op.name /\ Blank \in Contents /\ ~ IsKey(Blank)
    BY <2>1, ObjectIs, KindsOfContent, Zenon
  <2>4. map[i] = op.name /\ todo \in {<<Write(i, Blank), Write(i, o)>>, <<Write(i, o)>>}
    BY <2>2, Zenon DEF Writing
  <2> HIDE DEF o
  <2>5. todo[1].item = i /\ todo[1].content \in {Blank, o}
    <3>1. CASE todo = <<Write(i, Blank), Write(i, o)>>
      BY <3>1, TwoWrites
    <3>2. CASE todo = <<Write(i, o)>>
      BY <3>2, OneWrite
    <3> QED
      BY <2>4, <3>1, <3>2, Zenon
  <2>6. x \in Contents /\ (IsKey(x) => x.name = op.name)
    BY <1>1, <2>3, <2>5, Zenon
  <2>7. PutAt(copy, d, todo[1].item, cp, x)
    <3>1. todo[1].item \in Items
      BY <1>0, <2>5, EntryIsItem, Zenon
    <3> QED
      BY <1>0, <2>6, <3>1, PutIs, Zenon
  <2> QED
    BY <1>0, <1>2, <2>1, <2>4, <2>5, <2>6, <2>7, ItemPut, Zenon
<1>3. CASE op.kind = "erase"
  <2>1. /\ op.name \in Names
        /\ cur[op.name] \in {Void, Gone} /\ saved[op.name] \in {Void, Gone}
        /\ \E i \in DOMAIN map : Erasing(i)
    BY <1>3, Zenon DEF StorageInv, Control, EraseRuns
  <2>2. PICK i \in DOMAIN map : Erasing(i)
    BY <2>1, Zenon
  <2>4. map[i] = Dummy /\ todo = <<Write(i, Blank)>>
    BY <2>2, Zenon DEF Erasing
  <2>5. todo[1].item = i /\ todo[1].content = Blank
    BY <2>4, OneWrite
  <2>6. x \in Contents /\ ~ IsKey(x)
    BY <1>1, <2>5, KindsOfContent, Zenon
  <2>7. PutAt(copy, d, todo[1].item, cp, x)
    <3>1. todo[1].item \in Items
      BY <1>0, <2>5, EntryIsItem, Zenon
    <3> QED
      BY <1>0, <2>6, <3>1, PutIs, Zenon
  <2> QED
    BY <1>0, <1>3, <2>1, <2>4, <2>5, <2>6, <2>7, ItemPut, Zenon
<1>4. CASE op.kind \in {"erase_all", "exit"}
  <2> DEFINE c == IF op.kind = "exit" THEN Map(map) ELSE Blank
  <2>1. Replacing(c)
    BY <1>4, Zenon DEF StorageInv, Control, EraseAllRuns, ExitRuns
  <2>2. c \in Contents
    BY <1>0, MapIs, KindsOfContent, Zenon DEF MapOK
  <2> HIDE DEF c
  <2>3. todo = <<Write(0, c)>>
    BY <2>1, Zenon DEF Replacing
  <2>5. todo[1].item = 0 /\ todo[1].content = c /\ 0 \in Items
    BY <2>3, OneWrite, SecStorageAssumption DEF Items
  <2>6. x \in Contents /\ x \in {Torn, c}
    BY <1>1, <2>2, <2>5, Zenon
  <2>7. PutAt(copy, d, todo[1].item, cp, x)
    BY <1>0, <2>5, <2>6, PutIs, Zenon
  <2>8. PutAt(copy, d, 0, cp, x)
    BY <2>5, <2>7, Zenon
  <2> QED
    BY <1>0, <1>4, <2>6, <2>7, <2>8, MapPut, Zenon DEF c
<1> QED
  BY <1>2, <1>3, <1>4, Zenon DEF StorageInv, Control

-----------------------------------------------------------------------------
(* Every step keeps the invariant *)

LEMMA ExceptIs ==
  ASSUME NEW c \in [Names -> States], NEW n \in Names, NEW v \in States,
         NEW d, d = [c EXCEPT ![n] = v]
  PROVE  d \in [Names -> States] /\ d[n] = v /\ \A a \in Names : a # n => d[a] = c[a]
OBVIOUS

(* The copies and nothing else that the invariant says of them. *)
LEMMA HoldsKeeps ==
  ASSUME StorageInv, Holds(copy'), UNCHANGED <<map, inited, op, cur, saved, fails>>
  PROVE  /\ copy' \in [Items -> [1 .. 2 -> Contents]] /\ MapOK(Medium(copy'))
         /\ Agree' /\ InMemory' /\ OnMedium' /\ OwnInMemory' /\ OwnOnMedium'
BY Zenon DEF Holds, Agree, InMemory, OnMedium, OwnInMemory, OwnOnMedium

LEMMA WriteFirstKeeps == StorageInv /\ WriteFirst => StorageInv'
<1> SUFFICES ASSUME StorageInv, WriteFirst PROVE StorageInv'
  OBVIOUS
<1>0. /\ todo # <<>> /\ cp = 1 /\ cp' = 2 /\ todo' = todo /\ dirty' = dirty
      /\ copy' = [copy EXCEPT ![todo[1].item][cp] = todo[1].content]
      /\ UNCHANGED <<map, inited, op, cur, saved, fails>> /\ cuts' = cuts
  BY Zenon DEF WriteFirst, Put, ghosts
<1>1. Holds(copy') /\ PutAt(copy, copy', todo[1].item, cp, todo[1].content)
  BY <1>0, PutKeeps, Zenon
<1>2. copy'[todo[1].item][1] = todo[1].content
  BY <1>0, <1>1, Zenon DEF PutAt
<1>3. /\ copy' \in [Items -> [1 .. 2 -> Contents]] /\ MapOK(Medium(copy'))
      /\ Agree' /\ InMemory' /\ OnMedium' /\ OwnInMemory' /\ OwnOnMedium'
  BY <1>0, <1>1, HoldsKeeps, Zenon
<1>4. Types'
  BY <1>0, <1>3, Zenon DEF StorageInv, Types
<1>5. Changes'
  BY <1>0, Zenon DEF StorageInv, Changes
<1>6. WriteRuns'
  <2> SUFFICES ASSUME op.kind = "write" PROVE \E i \in DOMAIN map : Writing(i)'
    BY <1>0, Zenon DEF StorageInv, Control, WriteRuns
  <2>1. PICK i \in DOMAIN map : Writing(i)
    BY Zenon DEF StorageInv, Control, WriteRuns
  <2>2. ASSUME todo = <<Write(i, Object(op.name, op.val))>>
        PROVE  copy'[i][1] = Object(op.name, op.val)
    <3>1. todo[1].item = i /\ todo[1].content = Object(op.name, op.val)
      BY <2>2, OneWrite
    <3> QED
      BY <1>2, <3>1, Zenon
  <2>3. Writing(i)'
    BY <1>0, <2>1, <2>2, Zenon DEF Writing
  <2> QED
    BY <2>3, Zenon
<1>7. EraseRuns'
  BY <1>0, Zenon DEF StorageInv, Control, EraseRuns, Erasing, Absent
<1>8. ASSUME NEW c, Replacing(c)
      PROVE  /\ todo' \in {<<Write(0, c)>>, <<>>} /\ (todo' = <<>> => cp' = 1)
             /\ copy'[0][1] = c
  <2>1. todo = <<Write(0, c)>>
    BY <1>0, <1>8, Zenon DEF Replacing
  <2>2. todo[1].item = 0 /\ todo[1].content = c
    BY <2>1, OneWrite
  <2>3. copy'[0][1] = c
    BY <1>2, <2>2, Zenon
  <2> QED
    BY <1>0, <2>1, <2>3, Zenon
<1>9. EraseAllRuns'
  <2>1. op.kind = "erase_all" => Replacing(Blank)'
    BY <1>8, Zenon DEF StorageInv, Control, EraseAllRuns, Replacing
  <2> QED
    BY <1>0, <2>1, Zenon DEF StorageInv, Control, EraseAllRuns
<1>10. ExitRuns'
  <2>1. op.kind = "exit" => Replacing(Map(map))
    BY Zenon DEF StorageInv, Control, ExitRuns
  <2>2. op.kind = "exit" => Replacing(Map(map))'
    BY <1>0, <1>8, <2>1, Zenon DEF Replacing
  <2> QED
    BY <1>0, <2>2, Zenon DEF StorageInv, Control, ExitRuns
<1>11. Control'
  BY <1>0, <1>6, <1>7, <1>9, <1>10, Zenon DEF StorageInv, Control
<1> QED
  BY <1>3, <1>4, <1>5, <1>11, Zenon DEF StorageInv

LEMMA WriteSecondKeeps == StorageInv /\ WriteSecond => StorageInv'
<1> SUFFICES ASSUME StorageInv, WriteSecond PROVE StorageInv'
  OBVIOUS
<1>0. /\ todo # <<>> /\ cp = 2 /\ cp' = 1 /\ todo' = Tail(todo)
      /\ dirty' = (IF op.kind \in {"write", "erase"} THEN 1 ELSE dirty)
      /\ copy' = [copy EXCEPT ![todo[1].item][cp] = todo[1].content]
      /\ UNCHANGED <<map, inited, op, cur, saved, fails>> /\ cuts' = cuts
  BY Zenon DEF WriteSecond, Put, ghosts
<1>1. Holds(copy') /\ PutAt(copy, copy', todo[1].item, cp, todo[1].content)
  BY <1>0, PutKeeps, Zenon
<1>2. 1 # 2 /\ 1 \in 1 .. 2 /\ 0 \in Items
  BY SecStorageAssumption DEF Items
<1>3. /\ copy'[todo[1].item][2] = todo[1].content
      /\ \A j \in Items : copy'[j][1] = copy[j][1]
  BY <1>0, <1>1, <1>2, Zenon DEF PutAt
<1>4. /\ copy' \in [Items -> [1 .. 2 -> Contents]] /\ MapOK(Medium(copy'))
      /\ Agree' /\ InMemory' /\ OnMedium' /\ OwnInMemory' /\ OwnOnMedium'
  BY <1>0, <1>1, HoldsKeeps, Zenon
<1>5. dirty' \in {0, 1} /\ (dirty' = 0 => dirty = 0) /\ MapOK(map)
  BY <1>0, Zenon DEF StorageInv, Types
<1>6. Types'
  BY <1>0, <1>4, <1>5, Zenon DEF StorageInv, Types
<1>7. Changes'
  BY <1>0, <1>5, Zenon DEF StorageInv, Changes
<1>8. WriteRuns'
  <2> SUFFICES ASSUME op.kind = "write" PROVE \E i \in DOMAIN map : Writing(i)'
    BY <1>0, Zenon DEF StorageInv, Control, WriteRuns
  <2>1. PICK i \in DOMAIN map : Writing(i)
    BY Zenon DEF StorageInv, Control, WriteRuns
  <2> DEFINE o == Object(op.name, op.val)
  <2>2. i \in Items
    BY <1>5, EntryIsItem, Zenon
  <2>3. CASE todo = <<Write(i, Blank), Write(i, o)>>
    <3>1. todo' = <<Write(i, o)>> /\ todo' # <<>>
      BY <1>0, <2>3, ListFacts
    <3> QED
      BY <1>0, <1>2, <2>1, <3>1, Zenon DEF Writing
  <2>4. CASE todo = <<Write(i, o)>>
    <3>1. todo' = <<>> /\ <<>> # <<Write(i, o)>>
      BY <1>0, <2>4, ListFacts, Zenon
    <3>2. copy'[i][2] = o
      <4>1. todo[1].item = i /\ todo[1].content = o
        BY <2>4, OneWrite
      <4> QED
        BY <1>3, <4>1, Zenon
    <3>3. copy'[i][1] = o
      BY <1>0, <1>3, <2>1, <2>2, <2>4, Zenon DEF Writing
    <3>4. dirty' = 1
      BY <1>0, Zenon
    <3> QED
      BY <1>0, <2>1, <3>1, <3>2, <3>3, <3>4, Zenon DEF Writing
  <2> QED
    BY <1>0, <2>1, <2>3, <2>4, Zenon DEF Writing
<1>9. EraseRuns'
  <2> SUFFICES ASSUME op.kind = "erase" PROVE \E i \in DOMAIN map : Erasing(i)'
    BY <1>0, Zenon DEF StorageInv, Control, EraseRuns, Absent
  <2>1. PICK i \in DOMAIN map : Erasing(i)
    BY Zenon DEF StorageInv, Control, EraseRuns
  <2>2. todo' = <<>> /\ dirty' = 1
    BY <1>0, <2>1, ListFacts, Zenon DEF Erasing
  <2> QED
    BY <1>0, <2>1, <2>2, Zenon DEF Erasing
<1>10. ASSUME NEW c, Replacing(c) PROVE todo' = <<>> /\ copy'[0][1] = c
  BY <1>0, <1>2, <1>3, <1>10, ListFacts, Zenon DEF Replacing
<1>11. EraseAllRuns'
  <2>1. op.kind = "erase_all" => Replacing(Blank)'
    BY <1>0, <1>10, Zenon DEF StorageInv, Control, EraseAllRuns, Replacing
  <2> QED
    BY <1>0, <2>1, Zenon DEF StorageInv, Control, EraseAllRuns
<1>12. ExitRuns'
  <2>1. op.kind = "exit" => Replacing(Map(map)) /\ dirty' = 1
    BY <1>0, Zenon DEF StorageInv, Control, ExitRuns
  <2>2. op.kind = "exit" => Replacing(Map(map))'
    BY <1>0, <1>10, <2>1, Zenon DEF Replacing
  <2> QED
    BY <1>0, <2>1, <2>2, Zenon DEF ExitRuns
<1>13. Control'
  <2>1. op.kind # "none"
    BY <1>0, Zenon DEF StorageInv, Control
  <2> QED
    BY <1>0, <1>8, <1>9, <1>11, <1>12, <2>1, Zenon DEF StorageInv, Control
<1> QED
  BY <1>4, <1>6, <1>7, <1>13, Zenon DEF StorageInv

LEMMA InterruptedHolds ==
  ASSUME StorageInv, Interrupted
  PROVE  Holds(copy')
<1>1. CASE copy' = copy
  BY <1>1, InvHolds, Zenon
<1>2. CASE todo # <<>> /\ Put(Torn)
  BY <1>2, PutKeeps, Zenon DEF Put
<1> QED
  BY <1>1, <1>2, Zenon DEF Interrupted

LEMMA NoOpIs == NoOp.kind = "none" /\ Unwritten(NoOp) = {}
BY Zenon DEF NoOp, Unwritten

LEMMA PowerCutKeeps == StorageInv /\ PowerCut => StorageInv'
<1> SUFFICES ASSUME StorageInv, PowerCut PROVE StorageInv'
  OBVIOUS
<1>0. /\ inited' = 0 /\ dirty' = 0 /\ map' = <<>> /\ op' = NoOp /\ todo' = <<>> /\ cp' = 1
      /\ cur' = saved /\ saved' = saved /\ fails' = fails /\ cuts' = cuts + 1
  BY Zenon DEF PowerCut, Return
<1>1. Holds(copy')
  BY InterruptedHolds, Zenon DEF PowerCut
<1>2. op'.kind = "none" /\ 0 # 1 /\ cuts' \in Nat
  BY <1>0, NoOpIs DEF StorageInv, Types
<1>3. Types'
  BY <1>0, <1>1, <1>2, EmptyMap, Zenon DEF Holds, StorageInv, Types
<1>4. Control'
  BY <1>0, <1>2, Zenon DEF Control, WriteRuns, EraseRuns, EraseAllRuns, ExitRuns
<1>5. Changes'
  BY <1>0, <1>2, Zenon DEF Changes
<1>6. OnMedium' /\ OwnOnMedium'
  BY <1>0, <1>1, Zenon DEF Holds, OnMedium, OwnOnMedium
<1> QED
  BY <1>0, <1>2, <1>3, <1>4, <1>5, <1>6, Zenon
  DEF StorageInv, Agree, InMemory, OwnInMemory

LEMMA WriteFailsKeeps == StorageInv /\ WriteFails => StorageInv'
<1> SUFFICES ASSUME StorageInv, WriteFails PROVE StorageInv'
  OBVIOUS
<1>0. /\ UNCHANGED <<map, inited, dirty, cur, saved, cuts>>
      /\ op' = NoOp /\ todo' = <<>> /\ cp' = 1 /\ fails' = fails + 1
  BY Zenon DEF WriteFails, Return
<1>1. Holds(copy')
  BY InterruptedHolds, Zenon DEF WriteFails
<1>2. op'.kind = "none" /\ fails' \in Nat /\ fails' # 0
  BY <1>0, NoOpIs DEF StorageInv, Types
<1>3. Types'
  BY <1>0, <1>1, <1>2, Zenon DEF Holds, StorageInv, Types
<1>4. Control'
  BY <1>0, <1>2, Zenon DEF Control, WriteRuns, EraseRuns, EraseAllRuns, ExitRuns
<1>5. Changes'
  BY <1>0, <1>2, Zenon DEF StorageInv, Changes
<1>6. OnMedium' /\ InMemory'
  BY <1>0, <1>1, Zenon DEF Holds, OnMedium, InMemory
<1>7. Agree'
  <2>1. Kept(saved, fails', op'.kind) \subseteq Kept(saved, fails, op.kind)
    BY <1>2, Zenon DEF Kept
  <2> QED
    BY <1>0, <1>1, <2>1, Zenon DEF Holds, Agree, Agreeing
<1> QED
  BY <1>2, <1>3, <1>4, <1>5, <1>6, <1>7, Zenon
  DEF StorageInv, OwnOnMedium, OwnInMemory

LEMMA DoneKeeps == StorageInv /\ Done => StorageInv'
<1> SUFFICES ASSUME StorageInv, Done PROVE StorageInv'
  OBVIOUS
<1>0. /\ op.kind # "none" /\ todo = <<>> /\ dirty' = DirtyWhenDone
      /\ op' = NoOp /\ todo' = <<>> /\ cp' = 1
      /\ UNCHANGED <<copy, map, cuts, fails>>
  BY Zenon DEF Done, Idle, Return
<1>1. op'.kind = "none" /\ Unwritten(op') = {} /\ inited = 1
  BY <1>0, NoOpIs, Zenon DEF StorageInv, Control
<1>2. Control'
  BY <1>0, <1>1, Zenon DEF Control, WriteRuns, EraseRuns, EraseAllRuns, ExitRuns
<1>3. /\ cur \in [Names -> States] /\ saved \in [Names -> States]
      /\ MapOK(map) /\ Settled(cur, map, copy)
      /\ copy[0][1] # Torn => Settled(saved, Medium(copy), copy)
      /\ fails = 0 => OwnItems(cur, map, copy, Unwritten(op))
      /\ fails = 0 => OwnItems(saved, Medium(copy), copy, {})
  BY <1>1, Zenon DEF StorageInv, Types, InMemory, OnMedium, OwnInMemory, OwnOnMedium
<1>4. None \in States /\ Values \subseteq States /\ {None, Void, Gone} \cap Values = {}
  BY SecStorageAssumption, Zenon DEF States
<1>5. Void # None /\ Gone # None /\ Void # Gone /\ 1 # 0
  BY DEF Void, None, Gone
<1>6. CASE op.kind \in {"write", "erase"}
  <2> DEFINE v == IF op.kind = "write" THEN op.val ELSE None
  <2>1. /\ cur' = [cur EXCEPT ![op.name] = v] /\ saved' = saved
        /\ inited' = 1 /\ dirty' = dirty
    BY <1>0, <1>1, <1>6, Zenon DEF Done, DirtyWhenDone
  <2>2. /\ op.name \in Names /\ v \in States /\ saved[op.name] \in {Void, Gone} /\ dirty = 1
        /\ cur[op.name] \in {Void, Gone}
    BY <1>0, <1>4, <1>6, Zenon
    DEF StorageInv, Control, WriteRuns, EraseRuns, Writing, Erasing
  <2>3. /\ cur' \in [Names -> States] /\ cur'[op.name] = v
        /\ \A a \in Names : a # op.name => cur'[a] = cur[a]
    BY <1>3, <2>1, <2>2, ExceptIs, ZenonT(60)
  <2>4. Types'
    BY <1>0, <2>1, <2>3, Zenon DEF StorageInv, Types
  <2>5. v # Gone /\ dirty' # 0
    BY <1>4, <1>5, <1>6, <2>1, <2>2, Zenon DEF StorageInv, Control, WriteRuns
  <2>6. Changes'
    <3>1. ASSUME NEW n \in Names
          PROVE  /\ saved'[n] \in {Void, Gone} \/ saved'[n] = cur'[n]
                 /\ cur'[n] = Gone => saved'[n] = Gone
      BY <2>1, <2>2, <2>3, <2>5, Zenon DEF StorageInv, Changes
    <3> QED
      BY <2>5, <3>1, Zenon DEF Changes
  <2>7. Agree'
    <3>1. Kept(saved', fails', op'.kind) \subseteq Kept(saved, fails, op.kind)
      BY <1>0, <1>6, <2>1, Zenon DEF Kept
    <3> QED
      BY <1>0, <1>1, <3>1, Zenon DEF StorageInv, Agree, Agreeing
  <2>8. OnMedium' /\ OwnOnMedium'
    BY <1>0, <1>3, <2>1, Zenon DEF OnMedium, OwnOnMedium
  <2>9. /\ op.kind = "write" =>
             \E i \in DOMAIN map : /\ map[i] = op.name
                                   /\ copy[i][1] = Object(op.name, v)
                                   /\ copy[i][2] = Object(op.name, v)
        /\ op.kind = "erase" => Absent(map, op.name)
    BY <1>0, Zenon DEF StorageInv, Control, WriteRuns, EraseRuns, Writing
  <2>10. op.kind = "erase" => v = None
    BY Zenon
  <2> HIDE DEF v
  <2>11. Settled(cur', map, copy)
    <3>1. ASSUME NEW n \in Names
          PROVE  /\ cur'[n] \in Values => Has(map, copy, n, cur'[n])
                 /\ cur'[n] = None => Absent(map, n)
      <4>1. CASE n # op.name
        BY <1>3, <2>3, <4>1, Zenon DEF Settled
      <4>2. CASE n = op.name /\ op.kind = "write"
        <5>1. Has(map, copy, n, cur'[n])
          BY <2>3, <2>9, <4>2, Zenon DEF Has
        <5>2. cur'[n] # None
          BY <1>4, <2>3, <4>2, Zenon DEF v, StorageInv, Control, WriteRuns
        <5> QED
          BY <5>1, <5>2, Zenon
      <4>3. CASE n = op.name /\ op.kind = "erase"
        BY <1>4, <2>3, <2>9, <2>10, <4>3, Zenon
      <4> QED
        BY <1>6, <4>1, <4>2, <4>3, Zenon
    <3> QED
      BY <3>1, Zenon DEF Settled
  <2>12. ASSUME fails = 0 PROVE OwnItems(cur', map, copy, {})
    <3>1. ASSUME NEW n \in Names \ {}, cur'[n] # Gone, NEW i \in DOMAIN map, map[i] = n
          PROVE  Own(copy[i], n)
      <4>1. CASE n # op.name
        BY <1>3, <2>3, <2>12, <3>1, <4>1, Zenon DEF OwnItems, Unwritten
      <4>2. CASE n = op.name /\ op.kind = "write"
        <5>1. PICK j \in DOMAIN map : /\ map[j] = op.name
                                      /\ copy[j][1] = Object(op.name, v)
                                      /\ copy[j][2] = Object(op.name, v)
          BY <2>9, <4>2, Zenon
        <5>2. n # Dummy
          BY SecStorageAssumption, Zenon
        <5>3. i = j
          BY <1>3, <3>1, <4>2, <5>1, <5>2, Zenon DEF MapOK
        <5>4. \A k \in 1 .. 2 : copy[i][k] = Object(n, v)
          BY <4>2, <5>1, <5>3
        <5> QED
          BY <5>4, ObjectIs, Zenon DEF Own
      <4>3. CASE n = op.name /\ op.kind = "erase"
        BY <2>9, <3>1, <4>3, Zenon DEF Absent
      <4> QED
        BY <1>6, <4>1, <4>2, <4>3, Zenon
    <3> QED
      BY <3>1, Zenon DEF OwnItems
  <2> QED
    BY <1>0, <1>1, <1>2, <2>4, <2>6, <2>7, <2>8, <2>11, <2>12, ZenonT(60)
    DEF StorageInv, InMemory, OwnInMemory
<1>7. CASE op.kind = "erase_all"
  <2>1. /\ cur' = [n \in Names |-> None] /\ saved' = cur' /\ inited' = 1 /\ dirty' = dirty
    BY <1>0, <1>1, <1>7, Zenon DEF Done, DirtyWhenDone
  <2>2. map = <<>> /\ copy[0][1] = Blank
    BY <1>0, <1>7, Zenon DEF StorageInv, Control, EraseAllRuns, Replacing
  <2>3. Medium(copy) = <<>>
    BY <2>2, KindsOfContent, Zenon DEF Medium
  <2>4. cur' \in [Names -> States] /\ \A n \in Names : cur'[n] = None
    BY <1>4, <2>1, Zenon
  <2>5. Types'
    BY <1>0, <2>1, <2>4, Zenon DEF StorageInv, Types
  <2>6. Changes'
    BY <2>1, Zenon DEF Changes
  <2>7. Settled(cur', <<>>, copy)
    BY <1>4, <2>4, EmptyMap, Zenon DEF Settled
  <2>8. Agree' /\ InMemory' /\ OnMedium' /\ OwnInMemory' /\ OwnOnMedium'
    BY <1>0, <2>1, <2>2, <2>3, <2>7, EmptyMap, Zenon
    DEF Agree, InMemory, OnMedium, OwnInMemory, OwnOnMedium
  <2> QED
    BY <1>2, <2>5, <2>6, <2>8, Zenon DEF StorageInv
<1>8. CASE op.kind = "exit"
  <2>1. cur' = cur /\ saved' = cur /\ inited' = 0 /\ dirty' = 0
    BY <1>0, <1>8, Zenon DEF Done, DirtyWhenDone
  <2>2. copy[0][1] = Map(map)
    BY <1>0, <1>8, Zenon DEF StorageInv, Control, ExitRuns, Replacing
  <2>3. Medium(copy) = map /\ Unwritten(op) = {}
    BY <1>8, <2>2, MapIs, Zenon DEF Medium, Unwritten
  <2>4. Types'
    BY <1>0, <2>1, Zenon DEF StorageInv, Types
  <2>5. Changes'
    BY <2>1, Zenon DEF Changes
  <2>6. OnMedium' /\ OwnOnMedium'
    BY <1>0, <1>3, <2>1, <2>3, Zenon DEF OnMedium, OwnOnMedium
  <2> QED
    BY <1>2, <1>5, <2>1, <2>4, <2>5, <2>6, Zenon
    DEF StorageInv, Agree, InMemory, OwnInMemory
<1> QED
  BY <1>0, <1>6, <1>7, <1>8, Zenon DEF StorageInv, Control

(* The map on the medium becomes the map in memory. *)
LEMMA InitKeeps == StorageInv /\ sunxi_secure_storage_init => StorageInv'
<1> SUFFICES ASSUME StorageInv, sunxi_secure_storage_init PROVE StorageInv'
  OBVIOUS
<1>0. /\ op.kind = "none" /\ map' = Medium(copy) /\ inited' = 1 /\ cur' = saved'
      /\ saved' = (IF copy[0][1] = Torn THEN [n \in Names |-> Void] ELSE saved)
      /\ UNCHANGED <<copy, dirty, op, todo, cp, cuts, fails>>
  BY ReadMapIs, Zenon DEF sunxi_secure_storage_init, Idle
<1>1. /\ saved \in [Names -> States] /\ Void \in States /\ Void \notin Values /\ Void # None
      /\ MapOK(Medium(copy))
  BY SecStorageAssumption, Zenon DEF States, StorageInv, Types, Void, None
<1>2. /\ saved' \in [Names -> States]
      /\ copy[0][1] = Torn => \A n \in Names : saved'[n] = Void
  BY <1>0, <1>1, Zenon
<1>3. Types'
  BY <1>0, <1>1, <1>2, Zenon DEF StorageInv, Types
<1>4. Control'
  BY <1>0, Zenon DEF StorageInv, Control, WriteRuns, EraseRuns, EraseAllRuns, ExitRuns
<1>5. Changes'
  BY <1>0, Zenon DEF Changes
<1>6. Settled(saved', Medium(copy), copy)
  <2>1. CASE copy[0][1] = Torn
    BY <1>1, <1>2, <2>1, Zenon DEF Settled
  <2>2. CASE copy[0][1] # Torn
    BY <1>0, <2>2, Zenon DEF StorageInv, OnMedium
  <2> QED
    BY <2>1, <2>2, Zenon
<1>7. fails = 0 => OwnItems(saved', Medium(copy), copy, {})
  <2>1. CASE copy[0][1] = Torn
    <3>1. Medium(copy) = <<>>
      BY <2>1, KindsOfContent, Zenon DEF Medium
    <3> QED
      BY <3>1, EmptyMap, Zenon
  <2>2. CASE copy[0][1] # Torn
    BY <1>0, <2>2, Zenon DEF StorageInv, OwnOnMedium
  <2> QED
    BY <2>1, <2>2, Zenon
<1>8. Unwritten(op) = {}
  BY <1>0, Zenon DEF Unwritten
<1>9. InMemory' /\ OnMedium' /\ OwnInMemory' /\ OwnOnMedium'
  BY <1>0, <1>6, <1>7, <1>8, Zenon DEF InMemory, OnMedium, OwnInMemory, OwnOnMedium
<1>10. Agree'
  BY <1>0, Zenon DEF Agree, Agreeing
<1> QED
  BY <1>3, <1>4, <1>5, <1>9, <1>10, Zenon DEF StorageInv

(* Closing with nothing to write: nothing has been changed. *)
LEMMA ExitKeeps == StorageInv /\ sunxi_secure_storage_exit => StorageInv'
<1> SUFFICES ASSUME StorageInv, sunxi_secure_storage_exit PROVE StorageInv'
  OBVIOUS
<1>0. /\ op.kind = "none" /\ inited = 1
      /\ UNCHANGED <<copy, map, dirty, cur, cuts, fails>>
  BY Zenon DEF sunxi_secure_storage_exit, Idle
<1>1. CASE dirty = 1
  <2>1. /\ op' = [kind |-> "exit", name |-> None, val |-> None]
        /\ todo' = <<Write(0, Map(map))>> /\ cp' = 1 /\ UNCHANGED <<inited, saved>>
    BY <1>1, Zenon DEF sunxi_secure_storage_exit, Begin
  <2>2. op'.kind = "exit" /\ todo' # <<>> /\ 1 # 2
    BY <2>1
  <2>3. Control'
    BY <1>0, <1>1, <2>1, <2>2, Zenon
    DEF Control, WriteRuns, EraseRuns, EraseAllRuns, ExitRuns, Replacing
  <2>4. Types' /\ Changes'
    BY <1>0, <1>1, <2>1, <2>2, Zenon DEF StorageInv, Types, Changes
  <2>5. Kept(saved', fails', op'.kind) \subseteq Kept(saved, fails, op.kind)
    BY <1>0, <2>1, <2>2, Zenon DEF Kept
  <2>6. Agree'
    BY <1>0, <2>1, <2>5, Zenon DEF StorageInv, Agree, Agreeing
  <2>7. Unwritten(op) = {} /\ Unwritten(op') = {}
    BY <1>0, <2>2, Zenon DEF Unwritten
  <2>8. InMemory' /\ OnMedium' /\ OwnInMemory' /\ OwnOnMedium'
    BY <1>0, <2>1, <2>7, Zenon DEF StorageInv, InMemory, OnMedium, OwnInMemory, OwnOnMedium
  <2> QED
    BY <2>3, <2>4, <2>6, <2>8, Zenon DEF StorageInv
<1>2. CASE dirty = 0
  <2>1. inited' = 0 /\ saved' = cur /\ UNCHANGED <<op, todo, cp>> /\ 0 # 1
    BY <1>2 DEF sunxi_secure_storage_exit
  <2>2. /\ \A n \in Names : cur[n] \in Values \cup {None} => cur[n] = saved[n]
        /\ fails = 0 => cur = saved
    BY <1>0, <1>2, Zenon DEF StorageInv, Changes
  <2>3. Control'
    BY <1>0, <2>1, Zenon
    DEF StorageInv, Control, WriteRuns, EraseRuns, EraseAllRuns, ExitRuns
  <2>4. Types' /\ Changes'
    BY <1>0, <2>1, Zenon DEF StorageInv, Types, Changes
  <2>5. copy[0][1] # Torn => Settled(cur, Medium(copy), copy)
    BY <2>2, SettledMoves, Zenon DEF StorageInv, OnMedium
  <2>6. OnMedium' /\ OwnOnMedium'
    BY <1>0, <2>1, <2>2, <2>5, Zenon DEF StorageInv, OnMedium, OwnOnMedium
  <2> QED
    BY <2>1, <2>3, <2>4, <2>6, Zenon DEF StorageInv, Agree, InMemory, OwnInMemory
<1> QED
  BY <1>1, <1>2, Zenon DEF StorageInv, Types

LEMMA EraseAllKeeps == StorageInv /\ sunxi_secure_storage_erase_all => StorageInv'
<1> SUFFICES ASSUME StorageInv, sunxi_secure_storage_erase_all PROVE StorageInv'
  OBVIOUS
<1>0. /\ inited' = 1 /\ map' = <<>> /\ todo' = <<Write(0, Blank)>> /\ cp' = 1
      /\ op' = [kind |-> "erase_all", name |-> None, val |-> None]
      /\ saved' = [n \in Names |-> IF saved[n] = Gone THEN Gone ELSE Void]
      /\ cur' = saved'
      /\ UNCHANGED <<copy, dirty, cuts, fails>>
  BY Zenon DEF sunxi_secure_storage_erase_all, Begin
<1>1. op'.kind = "erase_all" /\ todo' # <<>> /\ 1 # 2
  BY <1>0
<1>2. /\ Void \in States /\ Gone \in States
      /\ Void \notin Values \cup {None} /\ Gone \notin Values \cup {None}
  BY SecStorageAssumption, Zenon DEF States, Void, None, Gone
<1>3. /\ saved' \in [Names -> States] /\ \A n \in Names : saved'[n] \in {Void, Gone}
      /\ \A n \in Names : saved'[n] # Gone => saved[n] # Gone
  BY <1>0, <1>2, Zenon
<1>4. Types'
  BY <1>0, <1>3, EmptyMap, Zenon DEF StorageInv, Types
<1>5. Control'
  BY <1>0, <1>1, <1>3, Zenon
  DEF Control, WriteRuns, EraseRuns, EraseAllRuns, ExitRuns, Replacing
<1>6. Changes'
  BY <1>0, Zenon DEF Changes
<1>7. \A m, c : Settled(saved', m, c)
  BY <1>2, <1>3, Zenon DEF Settled
<1>8. Agree'
  <2>1. Kept(saved', fails', op'.kind) = {}
    BY <1>1, <1>2, <1>3, Zenon DEF Kept
  <2> QED
    BY <2>1, Zenon DEF Agree, Agreeing
<1>9. fails = 0 => OwnItems(saved', Medium(copy), copy, {})
  BY <1>3, Zenon DEF StorageInv, OwnOnMedium, OwnItems
<1>10. InMemory' /\ OnMedium' /\ OwnInMemory' /\ OwnOnMedium'
  BY <1>0, <1>7, <1>9, EmptyMap, Zenon DEF InMemory, OnMedium, OwnInMemory, OwnOnMedium
<1> QED
  BY <1>4, <1>5, <1>6, <1>8, <1>10, Zenon DEF StorageInv

(* The ghosts of a key that is being changed, and a map that keeps the       *)
(* entries of the others.                                                    *)
Changed(n, s, c, r, g) ==
  /\ s \in [Names -> States] /\ s[n] \in {Void, Gone} /\ (s[n] # Gone => saved[n] # Gone)
  /\ \A a \in Names : a # n => s[a] = saved[a]
  /\ c \in [Names -> States] /\ c[n] \in {Void, Gone} /\ (c[n] = Gone => s[n] = Gone)
  /\ \A a \in Names : a # n => c[a] = cur[a]
  /\ g \in {{}, {n}} /\ (g = {} => c[n] = Gone)
  /\ \A i \in DOMAIN map : map[i] \in Names /\ (map[i] # n \/ s[n] # Gone) =>
       i \in DOMAIN r /\ r[i] = map[i]
  /\ \A i \in DOMAIN r : r[i] \in Names /\ r[i] # n => i \in DOMAIN map /\ map[i] = r[i]

Begun(s, c, r, g) ==
  /\ Settled(c, r, copy)
  /\ copy[0][1] # Torn => Settled(s, Medium(copy), copy)
  /\ fails = 0 => OwnItems(c, r, copy, g)
  /\ fails = 0 => OwnItems(s, Medium(copy), copy, {})
  /\ \A k : Agreeing(r, Medium(copy), Kept(s, fails, k))
  /\ \A a \in Names : /\ s[a] \in {Void, Gone} \/ s[a] = c[a]
                      /\ c[a] = Gone => s[a] = Gone
                      /\ dirty = 0 /\ c[a] \in Values \cup {None} => s[a] = c[a]

LEMMA ChangeKeeps ==
  ASSUME StorageInv, op.kind = "none", inited = 1,
         NEW n \in Names, NEW s, NEW c, NEW r, NEW g, Changed(n, s, c, r, g)
  PROVE  Begun(s, c, r, g)
<1>g. /\ s[n] \in {Void, Gone} /\ (s[n] # Gone => saved[n] # Gone)
      /\ \A a \in Names : a # n => s[a] = saved[a]
      /\ c[n] \in {Void, Gone} /\ (c[n] = Gone => s[n] = Gone)
      /\ \A a \in Names : a # n => c[a] = cur[a]
      /\ g \in {{}, {n}} /\ (g = {} => c[n] = Gone)
  BY Zenon DEF Changed
<1>m. /\ \A i \in DOMAIN map : map[i] \in Names /\ (map[i] # n \/ s[n] # Gone) =>
           i \in DOMAIN r /\ r[i] = map[i]
      /\ \A i \in DOMAIN r : r[i] \in Names /\ r[i] # n => i \in DOMAIN map /\ map[i] = r[i]
  BY Zenon DEF Changed
<1>0. Void \notin Values \cup {None} /\ Gone \notin Values \cup {None}
  BY SecStorageAssumption, Zenon DEF Void, Gone, None
<1>1. Settled(cur, map, copy) /\ Changes /\ Unwritten(op) = {}
  BY Zenon DEF StorageInv, InMemory, Unwritten
<1>2. Settled(c, r, copy)
  <2>1. \A a \in Names : c[a] \in Values \cup {None} => c[a] = cur[a] /\ a # n
    BY <1>g, <1>0, Zenon
  <2>2. \A a \in Names : c[a] = None => Absent(r, a) \/ ~ Absent(map, a)
    BY <1>m, <2>1, Zenon DEF Absent
  <2>3. \A i \in DOMAIN map : map[i] \in Names /\ c[map[i]] \in Values
                                => i \in DOMAIN r /\ r[i] = map[i]
    BY <1>m, <2>1, Zenon
  <2> QED
    BY <1>1, <2>1, <2>2, <2>3, SettledMoves, Zenon
<1>3. ASSUME copy[0][1] # Torn PROVE Settled(s, Medium(copy), copy)
  <2>1. \A a \in Names : s[a] \in Values \cup {None} => s[a] = saved[a]
    BY <1>g, <1>0, Zenon
  <2>2. Settled(saved, Medium(copy), copy)
    BY <1>3, Zenon DEF StorageInv, OnMedium
  <2> QED
    BY <2>1, <2>2, SettledMoves, Zenon
<1>4. ASSUME fails = 0 PROVE OwnItems(c, r, copy, g)
  <2>1. OwnItems(cur, map, copy, {})
    BY <1>1, <1>4, Zenon DEF StorageInv, OwnInMemory
  <2>2. \A a \in Names \ g : c[a] # Gone => a # n
    BY <1>g, Zenon
  <2>3. ASSUME NEW a \in Names \ g, c[a] # Gone, NEW i \in DOMAIN r, r[i] = a
        PROVE  Own(copy[i], a)
    <3>1. i \in DOMAIN map /\ map[i] = a /\ cur[a] # Gone
      BY <1>g, <1>m, <2>2, <2>3, Zenon
    <3> QED
      BY <2>1, <3>1, Zenon DEF OwnItems
  <2> QED
    BY <2>3, Zenon DEF OwnItems
<1>5. ASSUME fails = 0 PROVE OwnItems(s, Medium(copy), copy, {})
  <2>1. OwnItems(saved, Medium(copy), copy, {})
    BY <1>5, Zenon DEF StorageInv, OwnOnMedium
  <2>2. \A a \in Names \ {} : s[a] # Gone => saved[a] # Gone
    BY <1>g, Zenon
  <2> QED
    BY <2>1, <2>2, Zenon DEF OwnItems
<1>6. ASSUME NEW k, NEW a \in Kept(s, fails, k), NEW i \in DOMAIN Medium(copy), Medium(copy)[i] = a
      PROVE  i \in DOMAIN r /\ r[i] = a
  <2>1. a \in Names /\ (s[a] \in Values \/ (s[a] # Gone /\ fails = 0))
    BY Zenon DEF Kept
  <2>2. s[a] # Gone
    BY <1>0, <2>1, Zenon
  <2>3. a \in Kept(saved, fails, op.kind)
    <3>1. CASE a = n
      BY <1>g, <1>0, <2>1, <3>1, Zenon DEF Kept
    <3>2. CASE a # n
      BY <1>g, <2>1, <3>2, Zenon DEF Kept
    <3> QED
      BY <3>1, <3>2, Zenon
  <2>4. i \in DOMAIN map /\ map[i] = a
    BY <1>6, <2>3, Zenon DEF StorageInv, Agree, Agreeing
  <2> QED
    BY <1>m, <2>1, <2>2, <2>4, Zenon
<1>7. ASSUME NEW a \in Names
      PROVE  /\ s[a] \in {Void, Gone} \/ s[a] = c[a]
             /\ c[a] = Gone => s[a] = Gone
             /\ dirty = 0 /\ c[a] \in Values \cup {None} => s[a] = c[a]
  <2>1. CASE a = n
    BY <1>g, <1>0, <2>1, Zenon
  <2>2. CASE a # n
    BY <1>g, <1>1, <2>2, Zenon DEF Changes
  <2> QED
    BY <2>1, <2>2, Zenon
<1> QED
  BY <1>2, <1>3, <1>4, <1>5, <1>6, <1>7, Zenon DEF Agreeing, Begun

LEMMA EraseKeeps ==
  ASSUME StorageInv, NEW n \in Names, sunxi_secure_storage_erase(n)
  PROVE  StorageInv'
<1>0. /\ op.kind = "none" /\ inited = 1 /\ Probe(map, n) # 0
      /\ map' = __discard_name_in_map(map, n)
      /\ op' = [kind |-> "erase", name |-> n, val |-> None]
      /\ todo' = <<Write(Probe(map, n), Blank)>> /\ cp' = 1
      /\ saved' = [saved EXCEPT ![n] = Gone] /\ cur' = [cur EXCEPT ![n] = Gone]
      /\ UNCHANGED <<copy, inited, dirty, cuts, fails>>
  BY Zenon DEF sunxi_secure_storage_erase, Idle, Begin
<1>1. op'.kind = "erase" /\ op'.name = n /\ todo' # <<>> /\ Unwritten(op') = {}
  BY <1>0, Zenon DEF Unwritten
<1>2. /\ MapOK(map) /\ map \in Seq(Entries) /\ Gone \in States /\ Dummy \notin Names
      /\ cur \in [Names -> States] /\ saved \in [Names -> States]
  BY SecStorageAssumption, Zenon DEF StorageInv, Types, MapOK, States
<1>3. PICK j \in DOMAIN map : j = Probe(map, n) /\ map[j] = n
  BY <1>0, <1>2, ProbeIs, Zenon
<1>4. /\ MapOK(map') /\ Absent(map', n) /\ DOMAIN map' = DOMAIN map /\ map'[j] = Dummy
      /\ \A i \in DOMAIN map : i # j => map'[i] = map[i]
  <2>1. map' = __discard_name_in_map(map, n)
    BY <1>0, Zenon
  <2>2. Discarded(map, __discard_name_in_map(map, n), n, j)
    BY <1>2, <1>3, DiscardIs, Zenon
  <2>3. Discarded(map, map', n, j)
    BY <2>1, <2>2, Zenon
  <2> QED
    BY <2>3, Zenon DEF Discarded
<1>5. /\ saved' \in [Names -> States] /\ saved'[n] = Gone
      /\ \A a \in Names : a # n => saved'[a] = saved[a]
  BY <1>0, <1>2, ExceptIs, ZenonT(60)
<1>6. /\ cur' \in [Names -> States] /\ cur'[n] = Gone
      /\ \A a \in Names : a # n => cur'[a] = cur[a]
  BY <1>0, <1>2, ExceptIs, ZenonT(60)
<1>7. \A i \in DOMAIN map : map[i] \in Names /\ (map[i] # n \/ saved'[n] # Gone) =>
        i \in DOMAIN map' /\ map'[i] = map[i]
  BY <1>3, <1>4, <1>5, Zenon
<1>8. \A i \in DOMAIN map' : map'[i] \in Names /\ map'[i] # n => i \in DOMAIN map /\ map[i] = map'[i]
  BY <1>2, <1>4, Zenon
<1>9. Begun(saved', cur', map', {})
  <2>1. op.kind = "none" /\ inited = 1
    BY <1>0, Zenon
  <2>2. Changed(n, saved', cur', map', {})
    BY <1>5, <1>6, <1>7, <1>8, Zenon DEF Changed
  <2> QED
    BY <2>1, <2>2, ChangeKeeps, Zenon
<1>10. Types'
  BY <1>0, <1>4, <1>5, <1>6, Zenon DEF StorageInv, Types
<1>11. Control'
  <2>1. Erasing(j)'
    BY <1>0, <1>1, <1>3, <1>4, Zenon DEF Erasing
  <2>2. EraseRuns'
    BY <1>1, <1>4, <1>5, <1>6, <2>1, Zenon DEF EraseRuns
  <2> QED
    BY <1>0, <1>1, <2>2, Zenon DEF Control, WriteRuns, EraseAllRuns, ExitRuns
<1>12. Changes'
  <2>1. ASSUME dirty = 0, fails = 0 PROVE cur' = saved'
    BY <1>0, <2>1, Zenon DEF StorageInv, Changes
  <2> QED
    BY <1>0, <1>9, <2>1, Zenon DEF Changes, Begun
<1>13. Agree' /\ InMemory' /\ OnMedium' /\ OwnInMemory' /\ OwnOnMedium'
  BY <1>0, <1>1, <1>9, Zenon DEF Agree, InMemory, OnMedium, OwnInMemory, OwnOnMedium, Begun
<1> QED
  BY <1>10, <1>11, <1>12, <1>13, Zenon DEF StorageInv

LEMMA WriteKeeps ==
  ASSUME StorageInv, NEW n \in Names, NEW v \in Values, sunxi_secure_storage_write(n, v)
  PROVE  StorageInv'
<1> DEFINE fill == __fill_name_in_map(map, n)
           o == Object(n, v)
<1>0. /\ op.kind = "none" /\ inited = 1 /\ cp' = 1
      /\ op' = [kind |-> "write", name |-> n, val |-> v]
      /\ saved' = [saved EXCEPT ![n] = IF saved[n] = Gone THEN Gone ELSE Void]
      /\ cur' = [cur EXCEPT ![n] = Void]
      /\ UNCHANGED <<copy, inited, dirty, cuts, fails>>
  BY Zenon DEF sunxi_secure_storage_write, Idle, Begin
<1>1. \/ /\ Probe(map, n) # 0 /\ map' = map
         /\ todo' = <<Write(Probe(map, n), Blank), Write(Probe(map, n), o)>>
      \/ /\ Probe(map, n) = 0 /\ fill.index # 0 /\ map' = fill.map
         /\ todo' = <<Write(fill.index, o)>>
  BY Zenon DEF sunxi_secure_storage_write, Begin
<1>2. op'.kind = "write" /\ op'.name = n /\ op'.val = v /\ Unwritten(op') = {n}
  BY <1>0, Zenon DEF Unwritten
<1>3. /\ MapOK(map) /\ map \in Seq(Entries) /\ Gone \in States /\ Void \in States
      /\ Dummy \notin Names /\ cur \in [Names -> States] /\ saved \in [Names -> States]
  BY SecStorageAssumption, Zenon DEF StorageInv, Types, MapOK, States
<1>4. Void # Gone /\ 1 # 2
  BY DEF Void, Gone
<1>5. PICK j \in DOMAIN map' :
        /\ MapOK(map') /\ map'[j] = n
        /\ todo' \in {<<Write(j, Blank), Write(j, o)>>, <<Write(j, o)>>}
        /\ \A i \in DOMAIN map : map[i] \in Names => i \in DOMAIN map' /\ map'[i] = map[i]
        /\ \A i \in DOMAIN map' : map'[i] # n => i \in DOMAIN map /\ map[i] = map'[i]
  <2>1. CASE Probe(map, n) # 0
    <3>1. PICK j \in DOMAIN map : j = Probe(map, n) /\ map[j] = n
      BY <1>3, <2>1, ProbeIs, Zenon
    <3> QED
      BY <1>1, <1>3, <2>1, <3>1, Zenon
  <2>2. CASE Probe(map, n) = 0
    <3>1. Absent(map, n)
      BY <1>3, <2>2, ProbeIs, Zenon
    <3>2. fill.index # 0 /\ map' = fill.map /\ todo' = <<Write(fill.index, o)>>
      BY <1>1, <2>2, Zenon
    <3>3. Filled(map, fill, n)
      BY <1>3, <3>1, <3>2, FillIs, Zenon
    <3> HIDE DEF fill, o
    <3>4. PICK j \in DOMAIN map' : j = fill.index
      BY <3>2, <3>3, Zenon DEF Filled
    <3> QED
      BY <1>3, <3>2, <3>3, <3>4, Zenon DEF Filled
  <2> QED
    BY <2>1, <2>2, Zenon
<1>6. /\ saved' \in [Names -> States] /\ saved'[n] \in {Void, Gone}
      /\ saved'[n] # Gone => saved[n] # Gone
      /\ \A a \in Names : a # n => saved'[a] = saved[a]
  BY <1>0, <1>3, ExceptIs, ZenonT(60)
<1>7. /\ cur' \in [Names -> States] /\ cur'[n] = Void
      /\ \A a \in Names : a # n => cur'[a] = cur[a]
  BY <1>0, <1>3, ExceptIs, ZenonT(60)
<1>8. Begun(saved', cur', map', {n})
  <2>1. op.kind = "none" /\ inited = 1
    BY <1>0, Zenon
  <2>2. Changed(n, saved', cur', map', {n})
    <3>1. {n} # {} /\ cur'[n] \in {Void, Gone} /\ cur'[n] # Gone
      BY <1>4, <1>7, Zenon
    <3>2. \A i \in DOMAIN map' : map'[i] \in Names /\ map'[i] # n => i \in DOMAIN map /\ map[i] = map'[i]
      BY <1>5, Zenon
    <3> QED
      BY <1>5, <1>6, <1>7, <3>1, <3>2, Zenon DEF Changed
  <2> QED
    BY <2>1, <2>2, ChangeKeeps, Zenon
<1>9. Types'
  BY <1>0, <1>5, <1>6, <1>7, Zenon DEF StorageInv, Types
<1>10. Control'
  <2>1. todo' # <<>> /\ todo' # <<>>
    BY <1>5, ListFacts, Zenon
  <2>2. Writing(j)'
    BY <1>0, <1>2, <1>4, <1>5, <2>1, Zenon DEF Writing
  <2>3. WriteRuns'
    BY <1>2, <1>6, <1>7, <2>2, Zenon DEF WriteRuns
  <2> QED
    BY <1>0, <1>2, <2>3, Zenon DEF Control, EraseRuns, EraseAllRuns, ExitRuns
<1>11. Changes'
  BY <1>0, <1>2, <1>8, Zenon DEF Changes, Begun
<1>12. Agree' /\ InMemory' /\ OnMedium' /\ OwnInMemory' /\ OwnOnMedium'
  BY <1>0, <1>2, <1>8, Zenon DEF Agree, InMemory, OnMedium, OwnInMemory, OwnOnMedium, Begun
<1> QED
  BY <1>9, <1>10, <1>11, <1>12, Zenon DEF StorageInv

-----------------------------------------------------------------------------
(* The theorems *)

LEMMA InitHolds == Init => StorageInv
<1> SUFFICES ASSUME Init PROVE StorageInv
  OBVIOUS
<1>0. /\ copy = [i \in Items |-> <<Blank, Blank>>] /\ map = <<>> /\ inited = 0 /\ dirty = 0
      /\ op = NoOp /\ todo = <<>> /\ cp = 1 /\ cuts = 0 /\ fails = 0
      /\ cur = [n \in Names |-> None] /\ saved = [n \in Names |-> None]
  BY Zenon DEF Init
<1>1. 0 \in Items /\ <<Blank, Blank>> \in [1 .. 2 -> Contents] /\ <<Blank, Blank>>[1] = Blank
  BY KindsOfContent, SecStorageAssumption DEF Items
<1>2. copy \in [Items -> [1 .. 2 -> Contents]] /\ copy[0][1] = Blank
  BY <1>0, <1>1, Zenon
<1>3. Medium(copy) = <<>>
  BY <1>2, KindsOfContent, Zenon DEF Medium
<1>4. None \in States /\ None \notin Values /\ 0 \in Nat /\ 0 # 1 /\ op.kind = "none"
  BY <1>0, NoOpIs, SecStorageAssumption DEF States
<1>5. cur \in [Names -> States] /\ cur = saved /\ \A n \in Names : saved[n] = None
  BY <1>0, <1>4, Zenon
<1>6. Types
  BY <1>0, <1>2, <1>3, <1>4, <1>5, EmptyMap, Zenon DEF Types
<1>7. Control
  BY <1>0, <1>4, Zenon DEF Control, WriteRuns, EraseRuns, EraseAllRuns, ExitRuns
<1>8. Changes
  BY <1>5, Zenon DEF Changes
<1>9. Settled(saved, <<>>, copy)
  BY <1>4, <1>5, EmptyMap, Zenon DEF Settled
<1> QED
  BY <1>0, <1>3, <1>4, <1>6, <1>7, <1>8, <1>9, EmptyMap, ZenonT(60)
  DEF StorageInv, Agree, InMemory, OnMedium, OwnInMemory, OwnOnMedium

LEMMA StutterKeeps == StorageInv /\ UNCHANGED vars => StorageInv'
<1> SUFFICES ASSUME StorageInv, UNCHANGED vars PROVE StorageInv'
  OBVIOUS
<1>0. UNCHANGED <<copy, map, inited, dirty, op, todo, cp, cur, saved, cuts, fails>>
  BY Zenon DEF vars
<1>1. Types' /\ Changes'
  BY <1>0, Zenon DEF StorageInv, Types, Changes
<1>2. Control'
  <2>1. /\ \A i \in DOMAIN map : (Writing(i) => Writing(i)') /\ (Erasing(i) => Erasing(i)')
        /\ Replacing(Blank) => Replacing(Blank)'
        /\ Replacing(Map(map)) => Replacing(Map(map))'
    BY <1>0, Zenon DEF Writing, Erasing, Replacing
  <2>2. WriteRuns' /\ EraseRuns'
    BY <1>0, <2>1, Zenon DEF StorageInv, Control, WriteRuns, EraseRuns
  <2>3. EraseAllRuns' /\ ExitRuns'
    BY <1>0, <2>1, Zenon DEF StorageInv, Control, EraseAllRuns, ExitRuns
  <2> QED
    BY <1>0, <2>2, <2>3, Zenon DEF StorageInv, Control
<1>3. Agree' /\ InMemory' /\ OnMedium' /\ OwnInMemory' /\ OwnOnMedium'
  BY <1>0, Zenon DEF StorageInv, Agree, InMemory, OnMedium, OwnInMemory, OwnOnMedium
<1> QED
  BY <1>1, <1>2, <1>3, Zenon DEF StorageInv

LEMMA NextKeeps == StorageInv /\ [Next]_vars => StorageInv'
<1> SUFFICES ASSUME StorageInv, [Next]_vars PROVE StorageInv'
  OBVIOUS
<1>1. CASE sunxi_secure_storage_init \/ sunxi_secure_storage_exit \/ sunxi_secure_storage_erase_all
  BY <1>1, InitKeeps, ExitKeeps, EraseAllKeeps, Zenon
<1>2. CASE \E n \in Names, v \in Values : sunxi_secure_storage_write(n, v)
  BY <1>2, WriteKeeps, Zenon
<1>3. CASE \E n \in Names : sunxi_secure_storage_erase(n)
  BY <1>3, EraseKeeps, Zenon
<1>4. CASE WriteFirst \/ WriteSecond \/ Done
  BY <1>4, WriteFirstKeeps, WriteSecondKeeps, DoneKeeps, Zenon
<1>5. CASE PowerCut \/ WriteFails
  BY <1>5, PowerCutKeeps, WriteFailsKeeps, Zenon
<1>6. CASE UNCHANGED vars
  BY <1>6, StutterKeeps, Zenon
<1> QED
  BY <1>1, <1>2, <1>3, <1>4, <1>5, <1>6, Zenon DEF Next

LEMMA AlwaysInv == Spec => []StorageInv
BY InitHolds, NextKeeps, PTL DEF Spec

(* What a map finds: a name has one entry, so its item is the one it has. *)
LEMMA ProbeFinds ==
  ASSUME NEW m, MapOK(m), NEW n \in Names, NEW i \in DOMAIN m, m[i] = n
  PROVE  Probe(m, n) = i /\ Probe(m, n) # 0
<1>1. m \in Seq(Entries) /\ n # Dummy
  BY SecStorageAssumption, Zenon DEF MapOK
<1>2. ~ Absent(m, n)
  BY Zenon DEF Absent
<1>3. Probe(m, n) # 0 /\ Probe(m, n) \in DOMAIN m /\ m[Probe(m, n)] = n
  BY <1>1, <1>2, ProbeIs, Zenon
<1> QED
  BY <1>1, <1>3, Zenon DEF MapOK

LEMMA LookupFinds ==
  ASSUME NEW m, MapOK(m), NEW n \in Names, NEW v, Has(m, copy, n, v)
  PROVE  Lookup(m, n) = Object(n, v)
<1>1. PICK i \in DOMAIN m : m[i] = n /\ copy[i][1] = Object(n, v)
  BY Zenon DEF Has
<1>2. Probe(m, n) = i /\ Probe(m, n) # 0
  BY <1>1, ProbeFinds, Zenon
<1>3. mmc_secure_storage_read_key(i) = Object(n, v)
  BY <1>1, ObjectIs, ZenonT(60) DEF mmc_secure_storage_read_key
<1> QED
  BY <1>2, <1>3, Zenon DEF Lookup

LEMMA LookupIsOwn ==
  ASSUME NEW m, MapOK(m), NEW n \in Names, IsKey(Lookup(m, n)),
         \A i \in DOMAIN m : m[i] = n => Own(copy[i], n)
  PROVE  Lookup(m, n).name = n
<1>1. ~ IsKey(Blank) /\ m \in Seq(Entries) /\ 1 \in 1 .. 2 /\ 2 \in 1 .. 2
  BY KindsOfContent DEF MapOK
<1>2. Probe(m, n) # 0 /\ Lookup(m, n) = mmc_secure_storage_read_key(Probe(m, n))
  BY <1>1, Zenon DEF Lookup
<1>3. Own(copy[Probe(m, n)], n)
  BY <1>1, <1>2, ProbeIs, Zenon
<1>4. \E k \in 1 .. 2 : Lookup(m, n) = copy[Probe(m, n)][k]
  BY <1>1, <1>2, Zenon DEF mmc_secure_storage_read_key
<1> QED
  BY <1>3, <1>4, Zenon DEF Own

LEMMA PairIsSeq == ASSUME NEW C, NEW x \in [1 .. 2 -> C] PROVE x \in Seq(C)
<1>1. x[1] \in C /\ x[2] \in C
  OBVIOUS
<1>2. x = <<x[1], x[2]>>
  OBVIOUS
<1>3. <<x[1], x[2]>> \in Seq(C)
  BY <1>1
<1> QED
  BY <1>2, <1>3, Zenon

(* The variables keep their types for all names and values; in particular    *)
(* __fill_name_in_map never makes the map longer than there are items.       *)
THEOREM StorageTypes == Spec => []TypeOK
<1>1. StorageInv => TypeOK
  <2> SUFFICES ASSUME Types PROVE TypeOK
    BY Zenon DEF StorageInv
  <2>1. map \in Seq(Names \cup {Dummy}) /\ Len(map) <= MaxKeys
    BY Zenon DEF Types, MapOK, Entries
  <2>2. \A i \in Items : copy[i] \in Seq(Contents)
    BY PairIsSeq, Zenon DEF Types
  <2>3. \A i \in Items : copy[i] \in Seq([type : {"blank", "torn"}]
                                         \cup [type : {"object"}, name : Names, val : Values]
                                         \cup [type : {"map"}, names : Seq(Names \cup {Dummy})])
    BY <2>2, Zenon DEF Contents, Entries
  <2> QED
    BY <2>1, <2>3, Zenon DEF Types, TypeOK, States
<1> QED
  BY <1>1, AlwaysInv, PTL

(* While the storage is open every key reads as the last write that worked   *)
(* left it, whatever failed before or happened to other keys.                *)
THEOREM AlwaysAsWritten == Spec => []KeysAsWritten
<1>1. StorageInv => KeysAsWritten
  <2> SUFFICES ASSUME StorageInv, inited = 1, NEW n \in Names
               PROVE  /\ cur[n] \in Values => Lookup(map, n) = Object(n, cur[n])
                      /\ cur[n] = None => Probe(map, n) = 0
    BY Zenon DEF KeysAsWritten
  <2>1. Settled(cur, map, copy) /\ MapOK(map) /\ map \in Seq(Entries)
    BY Zenon DEF StorageInv, InMemory, Types, MapOK
  <2>2. cur[n] \in Values => Lookup(map, n) = Object(n, cur[n])
    BY <2>1, LookupFinds, Zenon DEF Settled
  <2>3. cur[n] = None => Probe(map, n) = 0
    BY <2>1, ProbeIs, Zenon DEF Settled
  <2> QED
    BY <2>2, <2>3, Zenon
<1> QED
  BY <1>1, AlwaysInv, PTL

(* Every key that was there when the storage was last closed is there after  *)
(* a power cut in any call on another key.                                   *)
THEOREM KeysAlwaysSurvive == Spec => []KeysSurvive
<1>1. StorageInv => KeysSurvive
  <2> SUFFICES ASSUME StorageInv, copy[0][1] # Torn, NEW n \in Names, saved[n] \in Values
               PROVE  Lookup(mmc_secure_storage_read_map, n) = Object(n, saved[n])
    BY Zenon DEF KeysSurvive
  <2>1. Settled(saved, Medium(copy), copy) /\ MapOK(Medium(copy))
    BY Zenon DEF StorageInv, OnMedium, Types
  <2>2. Lookup(Medium(copy), n) = Object(n, saved[n])
    BY <2>1, LookupFinds, Zenon DEF Settled
  <2> QED
    BY <2>2, ReadMapIs, Zenon
<1> QED
  BY <1>1, AlwaysInv, PTL

(* As long as no write has failed no key reads as another one, although the  *)
(* name in an object is never compared, unless it was erased.                *)
THEOREM NeverForeign == Spec => []NoForeignKey
<1>1. StorageInv => NoForeignKey
  <2> SUFFICES ASSUME StorageInv PROVE NoForeignKey
    OBVIOUS
  <2>1. MapOK(map) /\ MapOK(Medium(copy))
    BY Zenon DEF StorageInv, Types
  <2>2. ASSUME inited = 1, Idle, fails = 0, NEW n \in Names, cur[n] # Gone, IsKey(Lookup(map, n))
        PROVE  Lookup(map, n).name = n
    <3>1. OwnItems(cur, map, copy, {})
      BY <2>2, Zenon DEF StorageInv, OwnInMemory, Unwritten, Idle
    <3>2. \A i \in DOMAIN map : map[i] = n => Own(copy[i], n)
      BY <2>2, <3>1, Zenon DEF OwnItems
    <3> QED
      BY <2>1, <2>2, <3>2, LookupIsOwn, Zenon
  <2>3. ASSUME fails = 0, NEW n \in Names, saved[n] # Gone, IsKey(Lookup(Medium(copy), n))
        PROVE  Lookup(Medium(copy), n).name = n
    <3>1. \A i \in DOMAIN Medium(copy) : Medium(copy)[i] = n => Own(copy[i], n)
      BY <2>3, Zenon DEF StorageInv, OwnOnMedium, OwnItems
    <3> QED
      BY <2>1, <2>3, <3>1, LookupIsOwn, Zenon
  <2> QED
    BY <2>2, <2>3, ReadMapIs, Zenon DEF NoForeignKey
<1> QED
  BY <1>1, AlwaysInv, PTL
=============================================================================
