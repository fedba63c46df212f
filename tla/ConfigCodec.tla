----------------------------- MODULE ConfigCodec -----------------------------
(***************************************************************************)
(* The text of the configuration in NVS (src/spd_config_codec.h): "1" and  *)
(* the fields, separated by '|' and escaped with '%', and their CRC-32;    *)
(* and what load() makes of a text (src/spd_config.h).                     *)
(*                                                                         *)
(* A text is a sequence of characters; '|' and '%' stand for the four that *)
(* are escaped.  The checksum of a body is modelled by the body: it tells  *)
(* any two apart.                                                          *)
(***************************************************************************)
EXTENDS Naturals, SequencesExt

CONSTANTS
  MaxField,                     \* 256 in configPlausible()
  DeviceKinds                   \* the texts it knows as device types

\* The default time zone, one character here, is not too long.
ASSUME FieldAssumption == MaxField \in Nat \ {0}

\* The order of the fields in the body.
Fields == <<"kennelId", "deviceType", "deviceId", "wifiSsid", "wifiPass", "mqttHost",
            "mqttPort", "mqttUser", "mqttPass", "otaPassword", "timezone">>

Special == {"|", "%"}
Code == [ch \in Special |-> IF ch = "|" THEN <<"7", "C">> ELSE <<"2", "5">>]

Escaped(ch) == IF ch \in Special THEN <<"%">> \o Code[ch] ELSE <<ch>>

enc(text) ==
  LET o[n \in 0 .. Len(text)] == IF n = 0 THEN <<>> ELSE o[n - 1] \o Escaped(text[n])
  IN o[Len(text)]

\* strtol() of two digits; "?" stands for the characters that are not escaped.
Char(digits) == IF \E ch \in Special : Code[ch] = digits
                THEN CHOOSE ch \in Special : Code[ch] = digits ELSE "?"

\* Variant of Taken: an escape at the very end is not seen.
TakenShort(text, r) ==
  IF r.at > Len(text) THEN r
  ELSE IF text[r.at] = "%" /\ r.at + 2 < Len(text)
  THEN [at |-> r.at + 3, o |-> Append(r.o, Char(<<text[r.at + 1], text[r.at + 2]>>))]
  ELSE [at |-> r.at + 1, o |-> Append(r.o, text[r.at])]

\* One turn of the loop of dec(): the place it reads at, and what it has read.
Taken(text, r) ==
  IF r.at > Len(text) THEN r
  ELSE IF text[r.at] = "%" /\ r.at + 2 <= Len(text)
  THEN [at |-> r.at + 3, o |-> Append(r.o, Char(<<text[r.at + 1], text[r.at + 2]>>))]
  ELSE [at |-> r.at + 1, o |-> Append(r.o, text[r.at])]

dec(text) ==
  LET r[n \in 0 .. Len(text)] == IF n = 0 THEN [at |-> 1, o |-> <<>>] ELSE Taken(text, r[n - 1])
  IN r[Len(text)].o

\* One character of split().
Cut(out, ch, sep) ==
  IF ch = sep THEN Append(out, <<>>) ELSE [out EXCEPT ![Len(out)] = Append(@, ch)]

split(text, sep) ==
  LET out[n \in 0 .. Len(text)] == IF n = 0 THEN <<<<>>>> ELSE Cut(out[n - 1], text[n], sep)
  IN out[Len(text)]

\* A port of 0, which the portal makes of a text without digits, or one that
\* does not fit is read as 1883.
Port(text) == IF text = <<"0">> THEN <<"1883">> ELSE text

Written(f, name) == IF name = "mqttPort" THEN f[name] ELSE enc(f[name])

serializeConfig(f) ==
  LET body[n \in 0 .. Len(Fields)] ==
        IF n = 0 THEN <<"1">> ELSE body[n - 1] \o (<<"|">> \o Written(f, Fields[n]))
  IN [body |-> body[Len(Fields)], crc |-> body[Len(Fields)]]

NoConfig == [body |-> <<>>]

deserializeConfig(blob) ==
  LET parts == split(blob.body, "|")
      At(name) == parts[1 + CHOOSE i \in DOMAIN Fields : Fields[i] = name]
  IN IF Len(parts) # 1 + Len(Fields) \/ parts[1] # <<"1">> \/ blob.crc # blob.body
     THEN NoConfig
     ELSE [name \in ToSet(Fields) |->
             IF name = "mqttPort" THEN Port(At(name)) ELSE dec(At(name))]

Texts == ToSet(Fields) \ {"mqttPort"}

\* Variant of configPlausible: the longest text is refused.
configPlausibleShorter(f) ==
  /\ \A name \in Texts : Len(f[name]) < MaxField
  /\ f.mqttPort # <<"0">> /\ f.deviceType \in DeviceKinds \union {<<>>}

configPlausible(f) ==
  /\ \A name \in Texts : Len(f[name]) <= MaxField
  /\ f.mqttPort # <<"0">> /\ f.deviceType \in DeviceKinds \union {<<>>}

\* Defaults for what is blank.
fromFields(f) ==
  [f EXCEPT !.timezone = IF @ = <<>> THEN <<"UTC0">> ELSE @,
            !.mqttUser = IF @ = <<>> /\ f.deviceId # <<>> THEN <<"device:">> \o f.deviceId ELSE @]

Refused == [body |-> <<"factory">>]

\* What load() makes of the text that save() writes.
ReadBack(f) ==
  LET read == deserializeConfig(serializeConfig(f))
  IN IF read # NoConfig /\ configPlausible(read) THEN fromFields(read) ELSE Refused
==============================================================================
