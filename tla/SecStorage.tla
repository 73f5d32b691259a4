----------------------------- MODULE SecStorage -----------------------------
(***************************************************************************)
(* Named keys in secure storage: sprite/sprite_secstorage.c keeps a map of *)
(* names in item 0 and one key in each further item; sprite_secure_object.c*)
(* wraps a key with a magic number and a CRC; sunxi_flash/mmc/sdmmc.c      *)
(* stores every item twice on the MMC.                                     *)
(*                                                                         *)
(* The map is changed in memory and written when the storage is closed.    *)
(* Each write of a copy is a step; the power may go or the write may fail  *)
(* in the middle of it.                                                    *)
(***************************************************************************)
EXTENDS Integers, Sequences

CONSTANTS Names, Values,
          MaxKeys,      \* entries the map can have (31 in the code)
          Mode,         \* "boot", or "product" for the production tool
          Ops,          \* the calls besides write that are made
          MaxFaults     \* bound: power cuts and writes that fail

None == "none"
Void == "void"           \* not settled: being changed, or a change that failed
Gone == "gone"           \* erased, but not yet by the map on the medium
Dummy == "dummy"         \* SECURE_STORAGE_DUMMY_KEY_NAME

ASSUME SecStorageAssumption == /\ MaxKeys \in Nat \ {0}
                               /\ Mode \in {"boot", "product"}
                               /\ Ops \subseteq {"erase", "erase_all"}
                               /\ MaxFaults \in Nat
                               /\ Dummy \notin Names
                               /\ {None, Void, Gone} \cap Values = {}

Items == 0 .. MaxKeys

(* What a copy of an item holds. *)
Blank == [type |-> "blank"]                    \* zeros, or 0xff after an erase
Torn == [type |-> "torn"]
Map(m) == [type |-> "map", names |-> m]
Object(n, v) == [type |-> "object", name |-> n, val |-> v]

VARIABLES
  copy,         \* both copies of every item
  map,          \* secure_storage_map: the names in the order of their items
  inited,       \* secure_storage_inited
  dirty,        \* the map has changed since it was written
  op,           \* the call that is running
  todo,         \* the items it has still to write
  cp,           \* the copy that is written next
  cur,          \* value of every key by the calls that succeeded
  saved,        \* the same, when the storage was last closed
  cuts, fails

vars == <<copy, map, inited, dirty, op, todo, cp, cur, saved, cuts, fails>>
ghosts == <<cur, saved, cuts, fails>>

NoOp == [kind |-> "none", name |-> None, val |-> None]

Init == /\ copy = [i \in Items |-> <<Blank, Blank>>]
        /\ map = <<>> /\ inited = 0 /\ dirty = 0
        /\ op = NoOp /\ todo = <<>> /\ cp = 1
        /\ cur = [n \in Names |-> None] /\ saved = [n \in Names |-> None]
        /\ cuts = 0 /\ fails = 0

-----------------------------------------------------------------------------
(* Reading the two copies *)

IsMap(c) == c.type = "map"                     \* check_secure_storage_map = 0
IsKey(c) == c.type = "object"                  \* check_secure_storage_key = 0

(* When the first copy is bad the first copy is read again; if it is still   *)
(* bad the map counts as empty.                                              *)
mmc_secure_storage_read_map == IF IsMap(copy[0][1]) THEN copy[0][1].names ELSE <<>>

(* While booting the result of reading the second copy is compared with the  *)
(* number of blocks, though it is 0 when all went well.                      *)
mmc_secure_storage_read_key(i) ==
  IF IsKey(copy[i][1]) THEN copy[i][1]
  ELSE IF Mode = "product" /\ IsKey(copy[i][2]) THEN copy[i][2]
  ELSE Blank

(* __probe_name_in_map: the item of the first entry with a name, 0 for none. *)
Probe(m, n) == LET I == {i \in DOMAIN m : m[i] = n}
               IN  IF I = {} THEN 0 ELSE CHOOSE i \in I : \A j \in I : i <= j

(* sunxi_secure_object_read: Blank when there is no such key or it is bad.   *)
(* The name in the object is not looked at.                                  *)
Lookup(m, n) == IF Probe(m, n) = 0 THEN Blank
                ELSE mmc_secure_storage_read_key(Probe(m, n))

-----------------------------------------------------------------------------
(* The calls *)

Idle == op.kind = "none"
Begin(k, n, v, writes) == /\ op' = [kind |-> k, name |-> n, val |-> v]
                          /\ todo' = writes /\ cp' = 1
Return == op' = NoOp /\ todo' = <<>> /\ cp' = 1

(* With the map every key is lost: the items are given to new keys. *)
sunxi_secure_storage_init ==
  /\ Idle /\ inited = 0
  /\ map' = mmc_secure_storage_read_map
  /\ inited' = 1
  /\ saved' = (IF copy[0][1] = Torn THEN [n \in Names |-> Void] ELSE saved)
  /\ cur' = saved'
  /\ UNCHANGED <<copy, dirty, op, todo, cp, cuts, fails>>

Write(i, c) == [item |-> i, content |-> c]

(* Mutant: one entry more than there are items. *)
FillOneMore(m, n) == IF Len(m) > MaxKeys THEN [map |-> m, index |-> 0]
                     ELSE [map |-> Append(m, n), index |-> Len(m) + 1]

(* Mutant: the new name goes to the front. *)
FillPrepends(m, n) == IF Len(m) >= MaxKeys THEN [map |-> m, index |-> 0]
                      ELSE [map |-> <<n>> \o m, index |-> 1]

(* __fill_name_in_map: the item of an erased key, else a new one. *)
__fill_name_in_map(m, n) ==
  IF Probe(m, Dummy) # 0
  THEN [map |-> [m EXCEPT ![Probe(m, Dummy)] = n], index |-> Probe(m, Dummy)]
  ELSE IF Len(m) >= MaxKeys THEN [map |-> m, index |-> 0]
  ELSE [map |-> Append(m, n), index |-> Len(m) + 1]

(* A key that exists is erased before it is written. *)
sunxi_secure_storage_write(n, v) ==
  /\ Idle /\ inited = 1
  /\ LET i == Probe(map, n)
         fill == __fill_name_in_map(map, n)
     IN  \/ /\ i # 0
            /\ Begin("write", n, v, <<Write(i, Blank), Write(i, Object(n, v))>>)
            /\ UNCHANGED map
         \/ /\ i = 0 /\ fill.index # 0
            /\ map' = fill.map
            /\ Begin("write", n, v, <<Write(fill.index, Object(n, v))>>)
  /\ saved' = [saved EXCEPT ![n] = IF @ = Gone THEN Gone ELSE Void]
  /\ cur' = [cur EXCEPT ![n] = Void]
  /\ UNCHANGED <<copy, inited, dirty, cuts, fails>>

(* Mutant: the entry is taken out of the map. *)
DiscardRemoves(m, n) == SelectSeq(m, LAMBDA x : x # n)

(* __discard_name_in_map: the entry stays, so later keys keep their items. *)
__discard_name_in_map(m, n) == [m EXCEPT ![Probe(m, n)] = Dummy]

sunxi_secure_storage_erase(n) ==
  /\ Idle /\ inited = 1 /\ "erase" \in Ops
  /\ Probe(map, n) # 0
  /\ map' = __discard_name_in_map(map, n)
  /\ Begin("erase", n, None, <<Write(Probe(map, n), Blank)>>)
  /\ saved' = [saved EXCEPT ![n] = Gone] /\ cur' = [cur EXCEPT ![n] = Gone]
  /\ UNCHANGED <<copy, inited, dirty, cuts, fails>>

(* The keys themselves stay where they are. *)
sunxi_secure_storage_erase_all ==
  /\ Idle /\ "erase_all" \in Ops
  /\ inited' = 1 /\ map' = <<>>
  /\ Begin("erase_all", None, None, <<Write(0, Blank)>>)
  /\ saved' = [n \in Names |-> IF saved[n] = Gone THEN Gone ELSE Void]
  /\ cur' = saved'
  /\ UNCHANGED <<copy, dirty, cuts, fails>>

sunxi_secure_storage_exit ==
  /\ Idle /\ inited = 1
  /\ IF dirty = 1
     THEN Begin("exit", None, None, <<Write(0, Map(map))>>) /\ UNCHANGED <<inited, saved>>
     ELSE inited' = 0 /\ saved' = cur /\ UNCHANGED <<op, todo, cp>>
  /\ UNCHANGED <<copy, map, dirty, cur, cuts, fails>>

-----------------------------------------------------------------------------
(* mmc_secure_storage_write: one copy, then the other *)

Put(c) == copy' = [copy EXCEPT ![todo[1].item][cp] = c]

WriteFirst == /\ todo # <<>> /\ cp = 1
              /\ Put(todo[1].content)
              /\ cp' = 2
              /\ UNCHANGED <<map, inited, dirty, op, todo, ghosts>>

WriteSecond == /\ todo # <<>> /\ cp = 2
               /\ Put(todo[1].content)
               /\ cp' = 1 /\ todo' = Tail(todo)
               /\ dirty' = (IF op.kind \in {"write", "erase"} THEN 1 ELSE dirty)
               /\ UNCHANGED <<map, inited, op, ghosts>>

(* Mutant: a write that is done clears the flag. *)
DoneForgets == IF op.kind = "write" THEN 0 ELSE dirty

DirtyWhenDone == IF op.kind = "exit" THEN 0 ELSE dirty

(* The last write is done; the call returns 0. *)
Done == /\ ~Idle /\ todo = <<>>
        /\ dirty' = DirtyWhenDone
        /\ inited' = (IF op.kind = "exit" THEN 0 ELSE inited)
        /\ cur' = CASE op.kind = "write"     -> [cur EXCEPT ![op.name] = op.val]
                    [] op.kind = "erase"     -> [cur EXCEPT ![op.name] = None]
                    [] op.kind = "erase_all" -> [n \in Names |-> None]
                    [] OTHER                 -> cur
        /\ saved' = (IF op.kind \in {"exit", "erase_all"} THEN cur' ELSE saved)
        /\ Return
        /\ UNCHANGED <<copy, map, cuts, fails>>

(* What a write that did not complete leaves of the copy it was writing. *)
Interrupted == UNCHANGED copy \/ (todo # <<>> /\ Put(Torn))

(* The map in memory, its dirty flag and the call are gone. *)
PowerCut == /\ cuts + fails < MaxFaults /\ cuts' = cuts + 1
            /\ Interrupted
            /\ inited' = 0 /\ dirty' = 0 /\ map' = <<>>
            /\ Return
            /\ cur' = saved
            /\ UNCHANGED <<saved, fails>>

(* The call returns -1; what it did to the map in memory stays. *)
WriteFails == /\ cuts + fails < MaxFaults /\ fails' = fails + 1
              /\ todo # <<>>
              /\ Interrupted
              /\ Return
              /\ UNCHANGED <<map, inited, dirty, cur, saved, cuts>>

Next == \/ sunxi_secure_storage_init \/ sunxi_secure_storage_exit
        \/ \E n \in Names, v \in Values : sunxi_secure_storage_write(n, v)
        \/ \E n \in Names : sunxi_secure_storage_erase(n)
        \/ sunxi_secure_storage_erase_all
        \/ WriteFirst \/ WriteSecond \/ Done
        \/ PowerCut \/ WriteFails

Spec == Init /\ [][Next]_vars
-----------------------------------------------------------------------------
(* Properties *)

(* The variables have their types; the map never outgrows the items.         *)
TypeOK ==
  /\ \A i \in Items : copy[i] \in Seq([type : {"blank", "torn"}]
                                      \cup [type : {"object"}, name : Names, val : Values]
                                      \cup [type : {"map"}, names : Seq(Names \cup {Dummy})])
  /\ map \in Seq(Names \cup {Dummy}) /\ Len(map) <= MaxKeys
  /\ inited \in {0, 1} /\ dirty \in {0, 1} /\ cp \in {1, 2}
  /\ cur \in [Names -> Values \cup {None, Void, Gone}]
  /\ saved \in [Names -> Values \cup {None, Void, Gone}]

(* While the storage is open every key reads as the last write that worked   *)
(* left it, and an erased key is gone.                                       *)
KeysAsWritten ==
  Idle /\ inited = 1 =>
    \A n \in Names : /\ cur[n] \in Values => Lookup(map, n) = Object(n, cur[n])
                     /\ cur[n] = None => Probe(map, n) = 0

(* While it is closed, and after a power cut, every key that was there when  *)
(* it was closed is there, whatever happened to other keys since; only a key *)
(* being changed, or a map being written, can be lost.                       *)
KeysSurvive ==
  inited = 0 /\ copy[0][1] # Torn =>
    \A n \in Names : saved[n] \in Values =>
      Lookup(mmc_secure_storage_read_map, n) = Object(n, saved[n])

(* A key never reads as the content of another one, unless a write failed,   *)
(* or the power went before the map said that the key was erased: its item   *)
(* may have been given to another key by then.                               *)
NoForeignKey ==
  /\ inited = 1 /\ Idle /\ fails = 0 =>
       \A n \in Names : cur[n] # Gone /\ IsKey(Lookup(map, n)) => Lookup(map, n).name = n
  /\ inited = 0 /\ fails = 0 =>
       LET m == mmc_secure_storage_read_map
       IN  \A n \in Names : saved[n] # Gone /\ IsKey(Lookup(m, n)) => Lookup(m, n).name = n

(* The comments "read backup" in mmc_secure_storage_read_map and _read_key:  *)
(* an item whose first copy is bad is read from the second.                  *)
BackupIsRead ==
  /\ ~IsMap(copy[0][1]) /\ IsMap(copy[0][2]) => mmc_secure_storage_read_map = copy[0][2].names
  /\ \A i \in Items \ {0} : ~IsKey(copy[i][1]) /\ IsKey(copy[i][2])
                             => mmc_secure_storage_read_key(i) = copy[i][2]
=============================================================================
