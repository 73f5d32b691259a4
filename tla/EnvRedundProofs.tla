--------------------------- MODULE EnvRedundProofs ---------------------------
(***************************************************************************)
(* Proofs about EnvRedund, for every width of the serial number, every set *)
(* of environments and every way a torn copy may look.                     *)
(***************************************************************************)
EXTENDS EnvRedund, TLAPS

(* The copy a boot chooses. *)
Chosen == CASE ~IsGood(2) -> 1 [] ~IsGood(1) -> 2 [] OTHER -> Select

(* While the system runs the copy in use is good, so that a save, which      *)
(* writes the other one, never touches the last good copy.                   *)
InUseIsGood == pc # "off" /\ "end" \notin faults => IsGood(env_valid)

(* As long as nothing has gone wrong the copy in use is the one a boot would *)
(* choose, it holds the environment saved last, and the serial number in     *)
(* memory is its own, or one more while the next save is being written.      *)
InStep ==
  faults = {} =>
    /\ pc = "off" => copy[Chosen].env \in maybe \cup {saved}
    /\ pc # "off" => /\ env_valid = Chosen
                     /\ copy[env_valid].env = saved
    /\ pc = "up" => env_flags = copy[env_valid].flags
    /\ pc = "write" => env_flags = Succ(copy[env_valid].flags)

EnvInv == TypeOK /\ BackupSurvives /\ InUseIsGood /\ InStep

-----------------------------------------------------------------------------

(* The 8-bit increment, without the modulus. *)
LEMMA SuccCases ==
  \A f \in Flags : /\ Succ(f) \in Flags
                   /\ Succ(f) = IF f = MaxFlag THEN 0 ELSE f + 1
<1> TAKE f \in Flags
<1>1. f \in Nat /\ f <= MaxFlag /\ MaxFlag + 1 \in Nat /\ MaxFlag + 1 > 0
  BY EnvAssumption DEF Flags
<1>2. CASE f = MaxFlag
  BY <1>1, <1>2, EnvAssumption DEF Flags, Succ
<1>3. CASE f < MaxFlag
  BY <1>1, <1>3, EnvAssumption DEF Flags, Succ
<1> QED
  BY <1>1, <1>2, <1>3, EnvAssumption

(* Two good copies whose serial numbers follow each other: the later one is  *)
(* chosen, across the wrap too.                                              *)
LEMMA LaterIsChosen ==
  ASSUME TypeOK, IsGood(1), IsGood(2), NEW c \in Copies,
         copy[Other(c)].flags = Succ(copy[c].flags)
  PROVE  Chosen = Other(c)
<1>1. copy[1].flags \in Flags /\ copy[2].flags \in Flags
  BY DEF TypeOK, Copy, Copies
<1>2. Succ(copy[c].flags) = IF copy[c].flags = MaxFlag THEN 0 ELSE copy[c].flags + 1
  BY <1>1, SuccCases DEF Copies
<1> QED
  BY <1>1, <1>2, EnvAssumption DEF Chosen, Select, Other, Copies, Flags

LEMMA InitInv == Init => EnvInv
<1> SUFFICES ASSUME Init PROVE EnvInv
  OBVIOUS
<1> PICK f \in Flags, v \in Value :
      /\ \/ copy = [c \in Copies |-> Good(f, v)]
         \/ copy = [c \in Copies |-> IF c = 1 THEN Good(f, v) ELSE Bad("badcrc")]
      /\ saved = v
  BY DEF Init
<1>1. Good(f, v) \in Copy /\ Bad("badcrc") \in Copy
  BY EnvAssumption DEF Copy, Good, Bad, Flags, Envs
<1>2. TypeOK
  BY <1>1, EnvAssumption DEF Init, TypeOK, Copies, Flags, Envs
<1>3. copy[1] = Good(f, v) /\ (copy[2] = Good(f, v) \/ copy[2] = Bad("badcrc"))
  BY DEF Copies
<1>4. IsGood(1) /\ copy[1].env = v /\ copy[1].flags = f
  BY <1>3 DEF IsGood, Good
<1>5. IsGood(2) => copy[2].flags = f
  BY <1>3 DEF IsGood, Good, Bad
<1>6. Chosen = 1
  BY <1>4, <1>5, EnvAssumption DEF Chosen, Select, Flags
<1> QED
  BY <1>2, <1>4, <1>6 DEF Init, EnvInv, BackupSurvives, InUseIsGood, InStep

-----------------------------------------------------------------------------
(* The steps *)

(* A boot: what it loads, and that memory and medium agree afterwards. *)
LEMMA LoadInv ==
  ASSUME EnvInv, env_sunxi_flash_load
  PROVE  EnvInv' /\ (faults = {} => env' \in maybe \cup {saved})
<1> USE DEF Copies, Other, Loaded
<1>1. /\ copy \in [{1, 2} -> Copy] /\ copy' = copy
      /\ copy[1].flags \in Flags /\ copy[2].flags \in Flags
      /\ copy[1].env \in Envs /\ copy[2].env \in Envs
      /\ 0 \in Flags /\ Default \in Envs
  BY EnvAssumption DEF EnvInv, TypeOK, env_sunxi_flash_load, Copy, Flags, Envs
<1>2. env_valid' \in {1, 2} /\ env_flags' \in Flags /\ env' \in Envs
  BY <1>1 DEF env_sunxi_flash_load, env_import_redund, ReadNone, ReadOne, ReadBoth, Select
<1>3. TypeOK'
  BY <1>1, <1>2 DEF EnvInv, TypeOK, env_sunxi_flash_load
<1>4. BackupSurvives'
  BY <1>1 DEF EnvInv, BackupSurvives, env_sunxi_flash_load, IsGood
<1>5. ASSUME IsGood(1) \/ IsGood(2)
      PROVE  env_valid' = Chosen /\ IsGood(env_valid') /\ env' = copy[Chosen].env
  <2>1. ReadFail(1) => ~IsGood(1)
    BY DEF ReadFail, IsGood
  <2>2. ReadFail(2) => ~IsGood(2)
    BY DEF ReadFail, IsGood
  <2>3. CASE ReadNone
    BY <2>1, <2>2, <2>3, <1>5 DEF ReadNone
  <2>4. CASE ReadOne(1)
    BY <2>2, <2>4, <1>5 DEF ReadOne, Chosen
  <2>5. CASE ReadOne(2)
    BY <2>1, <2>5, <1>5 DEF ReadOne, Chosen
  <2>6. CASE ReadBoth
    <3>1. env_valid' = Chosen /\ env' = copy[Chosen].env
      BY <2>6, <1>5 DEF ReadBoth, Chosen
    <3>2. IsGood(Chosen)
      BY <1>5 DEF Chosen, Select
    <3> QED
      BY <3>1, <3>2
  <2> QED
    BY <2>3, <2>4, <2>5, <2>6 DEF env_sunxi_flash_load, env_import_redund
<1>6. ~ReadFail(1) /\ ~ReadFail(2) /\ (IsGood(1) \/ IsGood(2)) =>
        env_flags' = copy[env_valid'].flags
  BY DEF env_sunxi_flash_load, env_import_redund, ReadNone, ReadOne, ReadBoth
<1>7. InUseIsGood'
  BY <1>1, <1>5 DEF EnvInv, BackupSurvives, InUseIsGood, env_sunxi_flash_load, IsGood
<1>8. Chosen' = Chosen
  BY <1>1 DEF Chosen, Select, IsGood
<1>9. InStep'
  <2>1. CASE ~(IsGood(1) \/ IsGood(2))
    BY <2>1 DEF EnvInv, BackupSurvives, InStep, env_sunxi_flash_load
  <2>2. CASE ReadFail(1) \/ ReadFail(2)
    BY <2>2 DEF InStep, env_sunxi_flash_load
  <2>3. CASE ~ReadFail(1) /\ ~ReadFail(2) /\ (IsGood(1) \/ IsGood(2))
    BY <2>3, <1>1, <1>5, <1>6, <1>8 DEF InStep, env_sunxi_flash_load
  <2> QED
    BY <2>1, <2>2, <2>3
<1>10. faults = {} => env' \in maybe \cup {saved}
  BY <1>5 DEF EnvInv, BackupSurvives, InStep, env_sunxi_flash_load
<1> QED
  BY <1>3, <1>4, <1>7, <1>9, <1>10 DEF EnvInv

(* The export changes memory only. *)
LEMMA SaveInv ==
  ASSUME EnvInv, NEW v \in Value, env_sunxi_flash_save(v)
  PROVE  EnvInv'
<1>1. Succ(env_flags) \in Flags /\ v \in Envs
  BY SuccCases DEF EnvInv, TypeOK, Envs
<1>2. TypeOK'
  BY <1>1 DEF EnvInv, TypeOK, env_sunxi_flash_save
<1>3. Chosen' = Chosen
  BY DEF env_sunxi_flash_save, Chosen, Select, IsGood
<1> QED
  BY <1>2, <1>3 DEF EnvInv, BackupSurvives, InUseIsGood, InStep, env_sunxi_flash_save, IsGood

(* What the write of a copy, complete or not, does to the two copies: the    *)
(* copy in use stays, and a boot will choose it or the complete new one.     *)
LEMMA WriteEffect ==
  ASSUME EnvInv, pc = "write", copy' = [copy EXCEPT ![Target] = Exported] \/ Interrupted
  PROVE  /\ copy' \in [Copies -> Copy]
         /\ copy'[env_valid] = copy[env_valid]
         /\ copy' = copy \/ copy'[Target] = Exported \/ copy'[Target].state # "good"
         /\ faults = {} => /\ Chosen' = env_valid \/ (Chosen' = Target /\ copy'[Target] = Exported)
                           /\ copy'[Target] = Exported => Chosen' = Target
                           /\ copy[env_valid].env = saved
<1> USE DEF Copies, Other, Target
<1>1. Exported \in Copy /\ Bad("badcrc") \in Copy /\ Bad("unreadable") \in Copy
  BY EnvAssumption DEF EnvInv, TypeOK, Exported, Good, Bad, Copy, Flags, Envs
<1>2. Target \in {1, 2} /\ env_valid \in {1, 2} /\ Target # env_valid
  BY DEF EnvInv, TypeOK
<1>3. copy \in [{1, 2} -> Copy]
  BY DEF EnvInv, TypeOK
<1>4. \/ copy' = copy
      \/ copy' = [copy EXCEPT ![Target] = Exported]
      \/ \E s \in {"badcrc", "unreadable"} : copy' = [copy EXCEPT ![Target] = Bad(s)]
  BY EnvAssumption DEF Interrupted
<1>5. copy' \in [{1, 2} -> Copy] /\ copy'[env_valid] = copy[env_valid]
  BY <1>1, <1>2, <1>3, <1>4
<1>6. copy' = copy \/ copy'[Target] = Exported \/ copy'[Target].state # "good"
  BY <1>2, <1>3, <1>4 DEF IsGood, Bad
<1>7. ASSUME faults = {}
      PROVE  /\ IsGood(env_valid) /\ env_valid = Chosen /\ copy[env_valid].env = saved
             /\ env_flags = Succ(copy[env_valid].flags)
  BY <1>7 DEF EnvInv, InUseIsGood, InStep
<1>8. ASSUME faults = {}, copy'[Target] = Exported
      PROVE  Chosen' = Target
  <2>1. IsGood(1)' /\ IsGood(2)'
    BY <1>2, <1>5, <1>7, <1>8 DEF IsGood, Exported, Good
  <2>2. copy'[Other(env_valid)].flags = Succ(copy'[env_valid].flags)
    BY <1>5, <1>7, <1>8 DEF Exported, Good
  <2>3. copy'[1].flags \in Flags /\ copy'[2].flags \in Flags
    BY <1>5 DEF Copy
  <2>4. copy'[env_valid].flags \in Flags
    BY <1>2, <2>3
  <2>5. Succ(copy'[env_valid].flags) =
          IF copy'[env_valid].flags = MaxFlag THEN 0 ELSE copy'[env_valid].flags + 1
    BY <2>4, SuccCases
  <2> QED
    BY <1>2, <2>1, <2>2, <2>3, <2>5, EnvAssumption DEF Chosen, Select, Flags
<1>9. ASSUME faults = {}, copy'[Target] # Exported
      PROVE  Chosen' = env_valid
  <2>1. CASE copy' = copy
    BY <2>1, <1>7, <1>9 DEF Chosen, Select, IsGood
  <2>2. CASE copy'[Target].state # "good"
    BY <2>2, <1>2, <1>5, <1>7, <1>9 DEF Chosen, IsGood
  <2> QED
    BY <2>1, <2>2, <1>6, <1>9
<1> QED
  BY <1>5, <1>6, <1>7, <1>8, <1>9

LEMMA WrittenInv ==
  ASSUME EnvInv, Written
  PROVE  EnvInv'
<1> USE DEF Copies, Other, Target
<1>1. /\ pc = "write" /\ copy'[Target] = Exported /\ env_valid' = Target
      /\ env_valid \in {1, 2} /\ copy \in [{1, 2} -> Copy]
  BY DEF EnvInv, TypeOK, Written
<1>2. copy' \in [{1, 2} -> Copy] /\ (faults = {} => Chosen' = Target)
  BY <1>1, WriteEffect DEF Written
<1>3. copy'[Target].state = "good" /\ copy'[Target].env = env /\ copy'[Target].flags = env_flags
  BY <1>1 DEF Exported, Good, IsGood
<1>4. TypeOK'
  BY <1>1, <1>2 DEF EnvInv, TypeOK, Written
<1>5. BackupSurvives' /\ InUseIsGood'
  BY <1>1, <1>3 DEF Written, BackupSurvives, InUseIsGood, IsGood
<1>6. InStep'
  BY <1>1, <1>2, <1>3 DEF Written, InStep
<1> QED
  BY <1>4, <1>5, <1>6 DEF EnvInv

LEMMA WriteFailsInv ==
  ASSUME EnvInv, WriteFails
  PROVE  EnvInv'
<1>1. /\ copy' \in [Copies -> Copy] /\ copy'[env_valid] = copy[env_valid]
      /\ env_valid \in Copies /\ pc = "write" /\ pc' = "up"
  BY WriteEffect DEF WriteFails, EnvInv, TypeOK
<1>2. TypeOK'
  BY <1>1 DEF EnvInv, TypeOK, WriteFails
<1>3. BackupSurvives' /\ InUseIsGood'
  BY <1>1 DEF EnvInv, BackupSurvives, InUseIsGood, WriteFails, IsGood, Copies
<1>4. InStep'
  BY DEF WriteFails, InStep
<1> QED
  BY <1>2, <1>3, <1>4 DEF EnvInv

LEMMA WriteEndFailsInv ==
  ASSUME EnvInv, WriteEndFails
  PROVE  EnvInv'
<1>1. copy' \in [Copies -> Copy]
  BY WriteEffect DEF WriteEndFails, Interrupted
<1>2. TypeOK'
  BY <1>1 DEF EnvInv, TypeOK, WriteEndFails, Copies, Other
<1> QED
  BY <1>2 DEF EnvInv, BackupSurvives, InUseIsGood, InStep, WriteEndFails

LEMMA PowerCutInv ==
  ASSUME EnvInv, PowerCut
  PROVE  EnvInv'
<1>1. CASE pc = "write"
  <2>1. /\ copy' \in [Copies -> Copy] /\ copy'[env_valid] = copy[env_valid]
        /\ env_valid \in Copies
        /\ faults = {} => /\ Chosen' = env_valid
                             \/ (Chosen' = Target /\ copy'[Target] = Exported)
                          /\ copy[env_valid].env = saved
    BY <1>1, WriteEffect DEF PowerCut, EnvInv, TypeOK
  <2>2. TypeOK'
    BY <1>1, <2>1, EnvAssumption DEF EnvInv, TypeOK, PowerCut, Copies, Flags, Envs
  <2>3. BackupSurvives' /\ InUseIsGood'
    BY <1>1, <2>1 DEF EnvInv, BackupSurvives, InUseIsGood, PowerCut, IsGood, Copies
  <2>4. faults = {} => copy'[Chosen'].env \in {saved, env}
    BY <2>1 DEF Exported, Good
  <2>5. InStep'
    BY <1>1, <2>4 DEF PowerCut, InStep
  <2> QED
    BY <2>2, <2>3, <2>5 DEF EnvInv
<1>2. CASE pc = "up"
  <2>1. TypeOK'
    BY <1>2, EnvAssumption DEF EnvInv, TypeOK, PowerCut, Copies, Flags, Envs
  <2>2. BackupSurvives' /\ InUseIsGood'
    BY <1>2 DEF EnvInv, BackupSurvives, InUseIsGood, PowerCut, IsGood
  <2>3. Chosen' = Chosen
    BY <1>2 DEF PowerCut, Chosen, Select, IsGood
  <2>4. InStep'
    BY <1>2, <2>3 DEF EnvInv, InStep, PowerCut
  <2> QED
    BY <2>1, <2>2, <2>4 DEF EnvInv
<1> QED
  BY <1>1, <1>2 DEF PowerCut, EnvInv, TypeOK

LEMMA NextInv == EnvInv /\ [Next]_vars => EnvInv'
<1> SUFFICES ASSUME EnvInv, [Next]_vars PROVE EnvInv'
  OBVIOUS
<1>1. CASE env_sunxi_flash_load
  BY <1>1, LoadInv
<1>2. CASE \E v \in Value : env_sunxi_flash_save(v)
  BY <1>2, SaveInv
<1>3. CASE Written
  BY <1>3, WrittenInv
<1>4. CASE WriteFails
  BY <1>4, WriteFailsInv
<1>5. CASE WriteEndFails
  BY <1>5, WriteEndFailsInv
<1>6. CASE PowerCut
  BY <1>6, PowerCutInv
<1>7. CASE UNCHANGED vars
  BY <1>7 DEF vars, EnvInv, TypeOK, BackupSurvives, InUseIsGood, InStep, Chosen, Select, IsGood
<1> QED
  BY <1>1, <1>2, <1>3, <1>4, <1>5, <1>6, <1>7 DEF Next

-----------------------------------------------------------------------------
(* The theorems *)

LEMMA InvHolds == Spec => []EnvInv
  BY InitInv, NextInv, PTL DEF Spec

(* The serial number stays one of an unsigned char and gd->env_valid names   *)
(* one of the two copies, which are copies or torn ones.                     *)
THEOREM EnvTypes == Spec => []TypeOK
<1>1. EnvInv => TypeOK
  BY DEF EnvInv
<1> QED
  BY <1>1, InvHolds, PTL

(* env/sunxi_flash.c never has both copies torn: the copy in use, which the  *)
(* save does not write, is good.                                             *)
THEOREM BackupAlwaysSurvives == Spec => []BackupSurvives
<1>1. EnvInv => BackupSurvives
  BY DEF EnvInv
<1> QED
  BY <1>1, InvHolds, PTL

(* env_import_redund loads the environment saved last, however often the     *)
(* serial number has wrapped and the power has gone.                         *)
THEOREM LatestAlwaysLoaded == Spec => LatestIsLoaded
<1>1. EnvInv /\ [Next]_vars => [Boots /\ faults = {} => env' \in maybe \cup {saved}]_vars
  <2> SUFFICES ASSUME EnvInv, Next, Boots, faults = {}
               PROVE  env' \in maybe \cup {saved}
    BY DEF Boots, vars
  <2>1. env_sunxi_flash_load
    BY DEF Boots, Next, env_sunxi_flash_save, Written, WriteFails, WriteEndFails, PowerCut
  <2> QED
    BY <2>1, LoadInv
<1> QED
  BY <1>1, InvHolds, PTL DEF Spec, LatestIsLoaded
=============================================================================
