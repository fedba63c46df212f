----------------------------- MODULE ConfigStore -----------------------------
(***************************************************************************)
(* ConfigStore (src/spd_config.h): the configuration as one entry of NVS   *)
(* with a checksum, and the per-key entries of older firmware behind it.   *)
(* save() replaces the entry at once and looks at nothing; load() takes    *)
(* the entry only if it is plausible.  Nothing removes the old keys.       *)
(*                                                                         *)
(* A configuration is the fields that decide something: the network it     *)
(* names, the identity, the type and the broker credentials.  The text of  *)
(* the entry is ConfigCodec's; a checksum that does not match is Damaged.  *)
(***************************************************************************)
CONSTANTS
  Networks, NoNetwork,          \* SSID with its password; no SSID
  Types, NoType,                \* deviceType; blank
  Users, NoUser,                \* mqttUser; blank
  Passes, NoPass,               \* mqttPass; blank
  DeviceUser,                   \* the user name "device:<deviceId>"
  TooLong,                      \* texts of more than 256 characters
  Kinds,                        \* the types that configPlausible() knows
  NoBlob, Damaged               \* the entry is absent, or fails its checksum

\* id: kennelId and deviceId are there.
Config ==
  [net : Networks \union {NoNetwork}, id : BOOLEAN, type : Types \union {NoType},
   user : Users \union {NoUser}, pass : Passes \union {NoPass}]

ASSUME ConfigAssumption ==
  /\ NoNetwork \notin Networks /\ NoType \notin Types
  /\ NoUser \notin Users /\ NoPass \notin Passes /\ DeviceUser \in Users
  /\ {NoNetwork, NoUser, NoPass} \intersect TooLong = {}
  /\ NoBlob # Damaged /\ NoBlob \notin Config /\ Damaged \notin Config

VARIABLES
  blob,                         \* NVS "cfg"
  legacy                        \* NVS "kennelId", "wifiSsid", ...

\* Config{}, which is also what loadLegacy() makes of absent keys.
Factory == [net |-> NoNetwork, id |-> FALSE, type |-> NoType, user |-> NoUser, pass |-> NoPass]

hasWifi(c) == c.net # NoNetwork
hasIdentity(c) == c.id /\ c.type # NoType

configPlausible(c) ==
  {c.net, c.user, c.pass} \intersect TooLong = {} /\ c.type \in Kinds \union {NoType}

\* A blank user name becomes that of the device.
Filled(c) == IF c.user = NoUser /\ c.id THEN [c EXCEPT !.user = DeviceUser] ELSE c

BlobIsGood == blob \notin {NoBlob, Damaged} /\ configPlausible(blob)

LegacyIsGood == hasIdentity(legacy) \/ hasWifi(legacy)

\* lastMigrated().
Migrated == ~BlobIsGood /\ LegacyIsGood

\* What there is without the entry.
Fallback == IF LegacyIsGood THEN Filled(legacy) ELSE Factory

\* Variant of load: the old keys come first.
LoadLegacyFirst ==
  IF LegacyIsGood THEN Filled(legacy) ELSE IF BlobIsGood THEN Filled(blob) ELSE Factory

load == IF BlobIsGood THEN Filled(blob) ELSE Fallback

save(c) == blob' = c /\ UNCHANGED legacy

ConfigTypeOK == blob \in Config \union {NoBlob, Damaged} /\ legacy \in Config
=============================================================================
