------------------------------ MODULE BootMode ------------------------------
(***************************************************************************)
(* mot_boot_mode/mot_boot_mode.c: a program of the boot that reads why the *)
(* phone was powered up from /proc/bootinfo and tells init what to start.  *)
(*                                                                         *)
(* A file is a sequence of lines with a key, whether ": " and a value      *)
(* follow it, and the value; FileLines lines fit in the buffer of 1023     *)
(* bytes.  A file that cannot be read has no lines.                        *)
(***************************************************************************)
EXTENDS Integers, Sequences, FiniteSetsExt

CONSTANT FileLines        \* bound: lines read of a file

ASSUME FileLinesAssumption == FileLines \in Nat

Charger == "0x00000100"   \* MOTO_PU_REASON_CHARGER
Recover == {"0x01", "0x01f"}   \* values whose first four characters are 0x01

Lines == [key : {"POWERUPREASON", "CID_RECOVER_BOOT", "other"}, colon : BOOLEAN,
          value : {Charger, "0x00000110"} \cup Recover]

Files == UNION {[1 .. n -> Lines] : n \in 0 .. FileLines}

VARIABLES bootinfo, mode

-----------------------------------------------------------------------------
(* strstr from a line on; 0 when nothing is found. *)
FirstFrom(i, places) ==
  LET found == {k \in places : k >= i} IN IF found = {} THEN 0 ELSE Min(found)

(* The value behind the first ": " at or after the line, or none.          *)
ValueFrom(file, i) ==
  LET k == FirstFrom(i, {n \in DOMAIN file : file[n].colon}) IN IF k = 0 THEN "none" ELSE file[k].value

ValueOf(file, key, first) ==
  LET i == FirstFrom(first, {n \in DOMAIN file : file[n].key = key}) IN
  IF i = 0 THEN "none" ELSE ValueFrom(file, i)

(* The charger's bit is tested, which a cable with it sets too.            *)
MutBootReasonChargeOnly(file) ==
  ValueOf(file, "POWERUPREASON", 1) \in {Charger, "0x00000110"}

(* boot_reason_charge_only compares the whole number. *)
BootReasonChargeOnly(file) == ValueOf(file, "POWERUPREASON", 1) = Charger

(* check_cid_recover_boot looks for the key behind a newline: on the first *)
(* line it is not seen.                                                    *)
CheckCidRecoverBoot(file) == ValueOf(file, "CID_RECOVER_BOOT", 2) \in Recover

(* main, with check_data_12m, which always says no. *)
ModeOf(file) ==
  IF CheckCidRecoverBoot(file) THEN "recovery"
  ELSE IF BootReasonChargeOnly(file) THEN "charge" ELSE "android"

BootModeInit == bootinfo = <<>> /\ mode = "unknown"

Decide ==
  /\ mode = "unknown"
  /\ bootinfo' \in Files
  /\ mode' = ModeOf(bootinfo')

-----------------------------------------------------------------------------
(* Of a file whose lines all have values and whose first is not the one    *)
(* about recovery, the decision goes by the first line of each key, and    *)
(* recovery wins (mot_boot_mode.c:151-170).                                *)
Plain(file) ==
  /\ \A i \in DOMAIN file : file[i].colon
  /\ file # <<>> => file[1].key # "CID_RECOVER_BOOT"

Tells(file, key, values) ==
  \E i \in DOMAIN file :
    /\ file[i].key = key /\ file[i].value \in values
    /\ \A j \in 1 .. i - 1 : file[j].key # key

ModeFollowsFile ==
  mode # "unknown" /\ Plain(bootinfo) =>
    /\ mode = "recovery" <=> Tells(bootinfo, "CID_RECOVER_BOOT", Recover)
    /\ mode = "charge" <=> /\ Tells(bootinfo, "POWERUPREASON", {Charger})
                           /\ ~Tells(bootinfo, "CID_RECOVER_BOOT", Recover)
=============================================================================
