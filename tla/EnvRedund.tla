------------------------------ MODULE EnvRedund ------------------------------
(***************************************************************************)
(* env/sunxi_flash.c and env/common.c, built with                          *)
(* CONFIG_SUNXI_REDUNDAND_ENVIRONMENT: the environment is kept in two      *)
(* partitions, "env" (copy 1) and "env-redund" (copy 2).  A save writes    *)
(* the copy that is not in use, with the next 8-bit serial number in       *)
(* flags; a boot loads the copy whose serial number is the later one.      *)
(*                                                                         *)
(* The power may go while a copy is being written, and a write may fail.   *)
(* A copy that was being written then has a wrong CRC, or cannot be read   *)
(* at all: a UBI volume keeps its update marker until the last byte has    *)
(* arrived, and refuses to be read as long as it is set.                   *)
(***************************************************************************)
EXTENDS Integers

CONSTANTS MaxFlag,       \* the last serial number: 255 for an unsigned char
          Value,         \* environments a user may save
          Default,       \* default_environment
          Torn           \* what a copy may be after an interrupted write

ASSUME EnvAssumption == /\ MaxFlag \in Nat /\ MaxFlag >= 2
                        /\ Value # {} /\ Default \notin Value
                        /\ Torn \subseteq {"badcrc", "unreadable"}

Flags  == 0 .. MaxFlag
Copies == {1, 2}         \* also the values of gd->env_valid: ENV_VALID, ENV_REDUND
Envs   == Value \cup {Default}
Other(c) == 3 - c

(* A copy on the medium.  The fields of a copy that is not good do not count. *)
Copy == [state : {"good", "badcrc", "unreadable"}, flags : Flags, env : Envs]
Good(f, v) == [state |-> "good", flags |-> f, env |-> v]
Bad(s)     == [state |-> s, flags |-> 0, env |-> Default]

VARIABLES
  copy,            \* the two partitions
  env_valid,       \* gd->env_valid: the copy in use
  env_flags,       \* the serial number of the last export
  env,             \* env_htab
  pc,              \* "off", "up", or "write" inside env_sunxi_flash_save
  saved,           \* the environment last loaded or saved
  maybe,           \* environments of later saves that did not return 0
  faults           \* "read", "write", "end": what went wrong since a good load

vars == <<copy, env_valid, env_flags, env, pc, saved, maybe, faults>>

(* The production tool has written the same image to both partitions, or to  *)
(* the first only.                                                           *)
Init == /\ \E f \in Flags, v \in Value :
             /\ \/ copy = [c \in Copies |-> Good(f, v)]
                \/ copy = [c \in Copies |-> IF c = 1 THEN Good(f, v) ELSE Bad("badcrc")]
             /\ saved = v
        /\ env_valid = 1 /\ env_flags = 0 /\ env = Default
        /\ pc = "off" /\ maybe = {} /\ faults = {}

IsGood(c)   == copy[c].state = "good"
ReadFail(c) == copy[c].state = "unreadable"

-----------------------------------------------------------------------------
(* env_import_redund *)

(* Mutant: the serial numbers are compared as they are. *)
SelectUnwrapped == IF copy[2].flags > copy[1].flags THEN 2 ELSE 1

(* Both CRCs are right: the later serial number wins. *)
Select == CASE copy[1].flags = MaxFlag /\ copy[2].flags = 0 -> 2
            [] copy[2].flags = MaxFlag /\ copy[1].flags = 0 -> 1
            [] OTHER -> IF copy[2].flags > copy[1].flags THEN 2 ELSE 1

Loaded(valid, flags, e) == /\ env_valid' = valid /\ env_flags' = flags /\ env' = e

(* The serial number of a copy that was read alone is not taken over. *)
ReadOne(c) == /\ ~ReadFail(c) /\ ReadFail(Other(c))
              /\ Loaded(c, 0, IF IsGood(c) THEN copy[c].env ELSE Default)

ReadNone == /\ ReadFail(1) /\ ReadFail(2) /\ Loaded(1, 0, Default)

ReadBoth == /\ ~ReadFail(1) /\ ~ReadFail(2)
            /\ IF IsGood(1) \/ IsGood(2)
               THEN LET c == CASE ~IsGood(2) -> 1 [] ~IsGood(1) -> 2 [] OTHER -> Select
                    IN  Loaded(c, copy[c].flags, copy[c].env)
               ELSE Loaded(1, 0, Default)

env_import_redund == ReadNone \/ ReadOne(1) \/ ReadOne(2) \/ ReadBoth

(* env_init has set env_valid to ENV_VALID, and env_flags starts as 0. *)
env_sunxi_flash_load ==
  /\ pc = "off"
  /\ env_import_redund
  /\ pc' = "up"
  /\ saved' = env' /\ maybe' = {}
  /\ faults' = (IF ReadFail(1) \/ ReadFail(2) THEN {"read"} ELSE {})
               \cup (IF IsGood(1) \/ IsGood(2) THEN {} ELSE faults \cap {"end"})
  /\ UNCHANGED copy

-----------------------------------------------------------------------------
(* env_sunxi_flash_save *)

(* Mutant: the serial number does not wrap. *)
SuccWide(f) == f + 1

Succ(f) == (f + 1) % (MaxFlag + 1)      \* ++ of an unsigned char

(* Mutant: the copy in use is overwritten. *)
TargetInUse == env_valid

Target == Other(env_valid)

(* env_export of the environment with some variables set to new values.      *)
env_sunxi_flash_save(v) ==
  /\ pc = "up"
  /\ env' = v
  /\ env_flags' = Succ(env_flags)
  /\ pc' = "write"
  /\ UNCHANGED <<copy, env_valid, saved, maybe, faults>>

Exported == Good(env_flags, env)

Written == /\ pc = "write"
           /\ copy' = [copy EXCEPT ![Target] = Exported]
           /\ env_valid' = Other(env_valid)
           /\ pc' = "up"
           /\ saved' = env /\ maybe' = {}
           /\ UNCHANGED <<env_flags, env, faults>>

(* What an interrupted write leaves in the partition. *)
Interrupted == \/ UNCHANGED copy
               \/ \E s \in Torn : copy' = [copy EXCEPT ![Target] = Bad(s)]
               \/ copy' = [copy EXCEPT ![Target] = Exported]

(* Returns 1, or -ENODEV when the partition is not found. *)
WriteFails == /\ pc = "write"
              /\ Interrupted
              /\ pc' = "up"
              /\ maybe' = maybe \cup {env} /\ faults' = faults \cup {"write"}
              /\ UNCHANGED <<env_valid, env_flags, env, saved>>

(* sunxi_flash_write_end, which fills the volume up and so clears its update *)
(* marker, fails.  Its result is not looked at: the save returns 0.          *)
WriteEndFails == /\ pc = "write" /\ "unreadable" \in Torn
                 /\ copy' = [copy EXCEPT ![Target] = Bad("unreadable")]
                 /\ env_valid' = Other(env_valid)
                 /\ pc' = "up"
                 /\ saved' = env /\ maybe' = {}
                 /\ faults' = faults \cup {"end"}
                 /\ UNCHANGED <<env_flags, env>>

(* The memory is lost with the power. *)
PowerCut == /\ pc # "off"
            /\ IF pc = "write" THEN Interrupted ELSE UNCHANGED copy
            /\ maybe' = IF pc = "write" THEN maybe \cup {env} ELSE maybe
            /\ pc' = "off"
            /\ env_valid' = 1 /\ env_flags' = 0 /\ env' = Default
            /\ UNCHANGED <<saved, faults>>

Next == \/ env_sunxi_flash_load
        \/ \E v \in Value : env_sunxi_flash_save(v)
        \/ Written \/ WriteFails \/ WriteEndFails \/ PowerCut

Spec == Init /\ [][Next]_vars
-----------------------------------------------------------------------------
(* Properties *)

(* Copies, serial number and ghosts have their types. *)
TypeOK == /\ copy \in [Copies -> Copy]
          /\ env_valid \in Copies /\ env_flags \in Flags /\ env \in Envs
          /\ pc \in {"off", "up", "write"}
          /\ saved \in Envs /\ maybe \subseteq Envs
          /\ faults \subseteq {"read", "write", "end"}

(* Whatever power cuts and failing writes do to the copy being written, one  *)
(* of the two stays good: env/Kconfig's "valid backup copy in case there is  *)
(* a power failure".  Only a failure of sunxi_flash_write_end, which the     *)
(* save does not notice, can leave the next save to overwrite the good one.  *)
BackupSurvives == IsGood(1) \/ IsGood(2) \/ "end" \in faults

(* A boot loads what was saved last, or what a later save that did not       *)
(* return 0 was writing, over any number of saves, power cuts and wraps of   *)
(* the serial number; unless, since the last boot, a write failed or that    *)
(* boot could not read one of the copies: it then starts from serial number  *)
(* 0, and the next save is taken for older than the copy it replaces.        *)
Boots == pc = "off" /\ pc' = "up"
LatestIsLoaded == [][Boots /\ faults = {} => env' \in maybe \cup {saved}]_vars
=============================================================================
