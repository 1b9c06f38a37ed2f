------------------------------ MODULE KeyRotation ------------------------------
(***************************************************************************)
(* Rotation over a pool of provider keys (deleted_showtimes/               *)
(* serp_key_rotation.py, and scrapedo_key_rotation.py with the same code). *)
(* One row of SerpApiKeySlot per slot remembers which key was refused and  *)
(* when; a search asks the keys that are not cooling down, in slot order,  *)
(* and records each refusal.  Searches overlap: the candidates are read    *)
(* once, so a slow search may still refuse a key others already refused.   *)
(*                                                                         *)
(* A key is known by its slot and by its number among the keys that the    *)
(* slot's variable may hold.  The count of failures and the texts are left *)
(* out: nothing reads them back.                                           *)
(***************************************************************************)
EXTENDS Integers

CONSTANTS
  Callers,     \* searches that may run at the same time
  Slots,       \* the number of configured keys
  Cooldown,    \* SERPAPI_KEY_COOLDOWN_HOURS, in ticks
  Keys,        \* the number of keys a slot's variable may hold in turn
  TableAtStart \* may the table exist, or still be missing, at the start?

RotationAssumption ==
  /\ Slots \in Nat \ {0}
  /\ Cooldown \in Nat \ {0}
  /\ Keys \in Nat \ {0}
  /\ TableAtStart \in SUBSET BOOLEAN \ {{}}

VARIABLES
  config,   \* per slot, the key in the settings
  slot,     \* per slot, its row in the table
  table,    \* has the table been created yet?
  call,     \* per caller, its search() call
  refused,  \* history: ticks since a refusal of each key was reported, capped
  dark      \* history: ticks a slot's key has been held back without a pause

rotationVars == <<config, slot, table, call, refused, dark>>

Slot == 1 .. Slots
Key == 1 .. Keys
NoRow == [key |-> 0, age |-> Cooldown]
NoCall == [step |-> "idle", todo |-> {}]

RotationInit ==
  /\ config = [s \in Slot |-> 1]
  /\ slot = [s \in Slot |-> NoRow]
  /\ table \in TableAtStart
  /\ call = [c \in Callers |-> NoCall]
  /\ refused = [s \in Slot |-> [k \in Key |-> Cooldown]]
  /\ dark = [s \in Slot |-> 0]

\* The key of slot s is held back: the row is about this very key, and young.
Cooling(s) == slot[s].key = config[s] /\ slot[s].age < Cooldown

\* _select_candidates: without the table only the first slot is used.
Candidates ==
  {[slot |-> s, key |-> config[s]] : s \in IF table THEN {s \in Slot : ~Cooling(s)} ELSE {1}}

\* Mutant of MarkedRow.
OverwrittenRow(s, k) == [key |-> k, age |-> 0]

\* What mark_exhausted leaves in the row: a repeated refusal inside the
\* cooldown keeps the moment of the first one.
MarkedRow(s, k) ==
  LET fresh == slot[s].key # k \/ slot[s].age >= Cooldown
  IN [key |-> k, age |-> IF fresh THEN 0 ELSE slot[s].age]

KeepDark(step) ==
  dark' = [s \in Slot |-> IF Cooling(s)' THEN dark[s] + step ELSE 0]

CallOf(todo) == [step |-> IF todo = {} THEN "exhausted" ELSE "trying", todo |-> todo]

Select(c) ==
  /\ call[c].step = "idle"
  /\ call' = [call EXCEPT ![c] = CallOf(Candidates)]
  /\ UNCHANGED <<config, slot, table, refused, dark>>

\* The provider answers, fails for another reason, or refuses the key.
Try(c) ==
  /\ call[c].step = "trying"
  /\ \E outcome \in {"answer", "error", "marking"} : call' = [call EXCEPT ![c].step = outcome]
  /\ UNCHANGED <<config, slot, table, refused, dark>>

\* The keys are asked in the order of their slots.
Mark(c) ==
  /\ call[c].step = "marking"
  /\ \E k \in call[c].todo :
       /\ \A other \in call[c].todo : k.slot <= other.slot
       /\ slot' = IF table THEN [slot EXCEPT ![k.slot] = MarkedRow(k.slot, k.key)] ELSE slot
       /\ call' = [call EXCEPT ![c] = CallOf(call[c].todo \ {k})]
       /\ refused' = [refused EXCEPT ![k.slot][k.key] = 0]
  /\ UNCHANGED <<config, table>>
  /\ KeepDark(0)

\* The search returns or raises, and its caller goes on.
Return(c) ==
  /\ call[c].step \in {"answer", "error", "exhausted"}
  /\ call' = [call EXCEPT ![c] = NoCall]
  /\ UNCHANGED <<config, slot, table, refused, dark>>

Older(age) == IF age < Cooldown THEN age + 1 ELSE age

Tick ==
  /\ slot' = [s \in Slot |-> [slot[s] EXCEPT !.age = Older(@)]]
  /\ refused' = [s \in Slot |-> [k \in Key |-> Older(refused[s][k])]]
  /\ UNCHANGED <<config, table, call>>
  /\ KeepDark(1)

\* A deploy puts another key into a slot, or a former one; a deploy creates
\* the table.
SwapKey(s) ==
  /\ \E k \in Key \ {config[s]} : config' = [config EXCEPT ![s] = k]
  /\ UNCHANGED <<slot, table, call, refused>>
  /\ KeepDark(0)

Migrate ==
  /\ ~table
  /\ table' = TRUE
  /\ UNCHANGED <<config, slot, call, refused, dark>>

Surroundings == Tick \/ Migrate \/ \E s \in Slot : SwapKey(s)

RotationNext ==
  \/ \E c \in Callers : Select(c) \/ Try(c) \/ Mark(c) \/ Return(c)
  \/ Surroundings

RotationSpec == RotationInit /\ [][RotationNext]_rotationVars

RotationTypeOK ==
  /\ config \in [Slot -> Key]
  /\ slot \in [Slot -> [key : Key \cup {0}, age : 0 .. Cooldown]]
  /\ table \in BOOLEAN
  /\ call \in [Callers -> [step : {"idle", "trying", "marking", "answer", "error", "exhausted"},
                           todo : SUBSET [slot : Slot, key : Key]]]
  /\ \A c \in Callers : call[c].step \in {"trying", "marking"} => call[c].todo # {}
  /\ refused \in [Slot -> [Key -> 0 .. Cooldown]]
  /\ dark \in [Slot -> Nat]

(***************************************************************************)
(* A refused key heals: whatever the searches that are still under way     *)
(* report about it, no key is held back for a whole cooldown without being *)
(* offered to a search again (the "critical bit" of mark_exhausted).       *)
(***************************************************************************)
RefusedKeysHeal == \A s \in Slot : dark[s] < Cooldown

(***************************************************************************)
(* A key is held back only for its own refusal: some search reported this  *)
(* very key less than a cooldown ago.  A key swapped into a slot whose     *)
(* former key is cooling down is used at once, and a search that still     *)
(* holds the former key cannot hold back the new one.                      *)
(***************************************************************************)
NoInheritedCooldown == \A s \in Slot : Cooling(s) => refused[s][config[s]] < Cooldown
================================================================================
