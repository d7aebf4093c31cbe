--------------------------- MODULE SettingsStore ---------------------------
(***************************************************************************)
(* The settings record: SettingsStore, its copy in EEPROM, and everything  *)
(* that writes either: boot, POST /api/v2/settings, the PROV line and the  *)
(* Wi-Fi reset on the application thread, GET /save on the SoftAP thread.  *)
(* EEPROM.put writes cell by cell (external: in any order), and the power  *)
(* may go, or a reset come, between any two.  CRC-32 is taken to be free   *)
(* of collisions: the checksum of a record is the record it was made for.  *)
(***************************************************************************)
CONSTANTS
  Ids, UnsafeIds,       \* device ids that are safe in a topic, and others ("" is one)
  Normalized,           \* what normalizeDeviceId makes of each unsafe id
  FactoryId,            \* System.deviceID()
  OwnRoots, UnsafeRoots,\* topic roots a user may ask for, as sequences of levels
  Erased,               \* EEPROM bytes never written (0xFF): no legal value
  Forms,                \* the fields a settings POST carries, with their values
  Queries,              \* the ssid and pass of GET /save
  Lines,                \* PROV lines; an absent ninth field is ota = Unset
  Records               \* what the unit may hold when the behaviour starts

Unset == ""                                   \* the empty string
Fields == {"ssid", "pass", "enabled", "rest", "id", "root", "ota"}
Cells == Fields \cup {"head"}                 \* head: magic, version, length, crc32
Threads == {"loop", "http"}

-----------------------------------------------------------------------------
(* Validation of names and ranges (topic_validation.h, sanitize).          *)

DefaultRoot(id) == <<"aeris/v2", IF id \in Ids THEN id ELSE Normalized[id]>>
SafeRoots == OwnRoots \cup {DefaultRoot(id) : id \in Ids}

\* Numbers out of their range ("wild") are clamped to its edge.
InRange(rest) == IF rest = "wild" THEN "edge" ELSE rest

\* Mutant: the device id is left alone while the root is safe.
SanitizeRootOnly(r) ==
  IF r.root \in SafeRoots THEN [r EXCEPT !.rest = InRange(@)]
  ELSE [r EXCEPT !.id = IF @ \in Ids THEN @ ELSE Normalized[@],
                 !.root = DefaultRoot(r.id), !.rest = InRange(@)]
\* Mutant: numbers are taken as they come.
SanitizeNames(r) ==
  [r EXCEPT !.id = IF @ \in Ids THEN @ ELSE Normalized[@],
            !.root = IF @ \in SafeRoots THEN @ ELSE DefaultRoot(r.id)]

Sanitize(r) ==
  [r EXCEPT !.id = IF @ \in Ids THEN @ ELSE Normalized[@],
            !.root = IF @ \in SafeRoots THEN @ ELSE DefaultRoot(r.id),
            !.rest = InRange(@)]

Defaults ==
  [ssid |-> Unset, pass |-> Unset, enabled |-> 0, rest |-> "default",
   id |-> FactoryId, root |-> DefaultRoot(FactoryId), ota |-> Unset]

Settings ==
  [ssid : {Unset} \cup {q.ssid : q \in Queries}, pass : {Unset} \cup {q.pass : q \in Queries},
   enabled : {0, 1}, rest : {"default", "own", "edge"}, id : Ids, root : SafeRoots,
   ota : {Unset} \cup {l.ota : l \in Lines}]

ASSUME NameAssumption ==
  /\ FactoryId \in Ids /\ Ids \cap UnsafeIds = {} /\ SafeRoots \cap UnsafeRoots = {}
  /\ Normalized \in [UnsafeIds -> Ids]
\* A password and an SSID are strings a form may carry like a /save does; a
\* PROV line that is not refused has an SSID, safe names and a broker.
ASSUME InputAssumption ==
  /\ \A r \in Records \cup Lines : r \in Settings
  /\ \A l \in Lines : l.ssid # Unset /\ l.enabled = 1
  /\ \A q \in Queries : DOMAIN q = {"ssid", "pass"} /\ q.ssid # Unset
  /\ \A f \in Forms :
       /\ DOMAIN f \subseteq Fields \ {"ota"}
       /\ \A x \in DOMAIN f :
            f[x] \in CASE x = "ssid" -> {Unset} \cup {q.ssid : q \in Queries}
                       [] x = "pass" -> {Unset} \cup {q.pass : q \in Queries}
                       [] x = "enabled" -> {0, 1}
                       [] x = "rest" -> {"default", "own", "edge", "wild"}
                       [] x = "id" -> Ids \cup UnsafeIds
                       [] x = "root" -> SafeRoots \cup UnsafeRoots

-----------------------------------------------------------------------------
(* The record in EEPROM, cell by cell.                                     *)

V4(r) == [f \in Fields \ {"ota"} |-> r[f]]         \* schema 4 ends before ota_pass

Head(version, sum) == [version |-> version, sum |-> sum]
Cell(r, c) == IF c = "head" THEN Head(5, r) ELSE r[c]

Erasure == [c \in Cells |-> IF c = "head" THEN Head(0, V4(Defaults)) ELSE Erased]
Stored(r) == [c \in Cells |-> Cell(r, c)]
StoredV4(r) ==
  [c \in Cells |-> CASE c = "head" -> Head(4, V4(r)) [] c = "ota" -> Erased [] OTHER -> r[c]]

Payload(e) == [f \in Fields |-> e[f]]

\* Mutant: the checksum is not compared.
ValidUnchecked(e) == e["head"].version = 5 /\ e["id"] \in Ids /\ e["root"] \in SafeRoots
Valid(e) ==
  /\ e["head"].version = 5
  /\ e["id"] \in Ids /\ e["root"] \in SafeRoots /\ e["enabled"] \in {0, 1}
  /\ e["head"].sum = Payload(e)

Upgraded(e) == [Payload(e) EXCEPT !.ota = Unset]
Upgradable(e) ==
  /\ e["head"].version = 4 /\ e["head"].sum = V4(e)
  /\ e["id"] \in Ids /\ e["root"] \in SafeRoots /\ e["enabled"] \in {0, 1}

-----------------------------------------------------------------------------
VARIABLES
  ram,         \* settings_, the record both threads use
  eeprom,      \* the record at EEPROM_ADDR_SETTINGS
  loop,        \* where the application thread is
  http,        \* where the SoftAP thread is, and the password it has yet to copy
  put,         \* per thread: the image EEPROM.put is writing and the cells left
  setup_mode,  \* there was no SSID at boot
  listening,   \* WiFi.listening(): the SoftAP page is served, stations are not
  overlap,     \* history: the put in progress overlapped the other thread's
  loadable,    \* history: the records the next boot may come up with
  secrets,     \* history: the update secrets of the last PROV lines accepted
  asked        \* history: the one of the line being saved

vars == <<ram, eeprom, loop, http, put, setup_mode, listening, overlap, loadable, secrets, asked>>

Idle == [pc |-> "idle", pass |-> Unset]
NoPut == [image |-> Defaults, left |-> {}]
Other(t) == IF t = "loop" THEN "http" ELSE "loop"
Putting(t) == put[t].left # {}

Init ==
  /\ \E r \in Records :
       \/ eeprom = Stored(r) /\ loadable = {r} /\ secrets = {r.ota}
       \/ eeprom = StoredV4(r) /\ loadable = {[r EXCEPT !.ota = Unset]} /\ secrets = {Unset}
       \/ eeprom = Erasure /\ loadable = {Defaults} /\ secrets = {Unset}
  /\ ram = Defaults
  /\ loop = "boot" /\ http = Idle
  /\ put = [t \in Threads |-> NoPut]
  /\ setup_mode = FALSE /\ listening = FALSE /\ overlap = FALSE /\ asked = Unset

\* The cells EEPROM.put changes: the checksum, what differs from EEPROM, and what
\* the other thread, if it is writing too, may make differ.
Changes(t, image) ==
  {"head"} \cup {c \in Cells : Cell(image, c) # eeprom[c]}
           \cup {c \in Cells : Putting(Other(t)) /\ Cell(image, c) # Cell(put[Other(t)].image, c)}

\* save(): the record is sanitized, an image of it is built, and EEPROM.put begins.
Save(t, r) ==
  LET image == Sanitize(r)
      changes == Changes(t, image) IN
  /\ ram' = image
  /\ put' = [u \in Threads |->
       IF u = t THEN [image |-> image, left |-> changes]
       ELSE [put[u] EXCEPT !.left = IF Putting(u) THEN @ \cup changes ELSE @]]
  /\ overlap' = Putting(Other(t))

\* A save that has begun may be loaded or, cut short, lead to the defaults.
Loadable == loadable' = loadable \cup {ram', Defaults}

-----------------------------------------------------------------------------
(* loadOrInitialize, and the mode init chooses.                            *)

Booted == http' = Idle /\ setup_mode' = (ram'.ssid = Unset) /\ listening' = setup_mode'

BootValid ==
  /\ loop = "boot" /\ Valid(eeprom)
  /\ ram' = Sanitize(Payload(eeprom))
  /\ loop' = "idle" /\ Booted
  /\ loadable' = {ram'} /\ secrets' = secrets \cap {ram'.ota}
  /\ UNCHANGED <<eeprom, put, overlap, asked>>

\* The upgrade and the defaults are saved before init goes on.
BootUpgrade ==
  /\ loop = "boot" /\ ~Valid(eeprom) /\ Upgradable(eeprom)
  /\ Save("loop", Upgraded(eeprom))
  /\ loop' = "initSave" /\ Booted /\ Loadable
  /\ UNCHANGED <<eeprom, secrets, asked>>

BootDefaults ==
  /\ loop = "boot" /\ ~Valid(eeprom) /\ ~Upgradable(eeprom)
  /\ Save("loop", Defaults)
  /\ loop' = "initSave" /\ Booted /\ Loadable
  /\ UNCHANGED <<eeprom, secrets, asked>>

-----------------------------------------------------------------------------
(* The application thread.                                                 *)

\* handleApiSettingsPost: with MQTT on, unsafe names are refused; the server
\* has no network while the unit listens.
HandleApiSettingsPost(form) ==
  LET r == [f \in Fields |-> IF f \in DOMAIN form THEN form[f] ELSE ram[f]] IN
  /\ loop = "idle" /\ ~listening
  /\ r.enabled = 1 =>
       /\ "id" \in DOMAIN form => form.id \in Ids
       /\ "root" \in DOMAIN form => form.root \in SafeRoots \cup {<<>>}
  /\ Save("loop", r) /\ Loadable
  /\ loop' = "postSave"
  /\ UNCHANGED <<eeprom, http, setup_mode, listening, secrets, asked>>

\* Mutant: without a ninth field the secret stays.
LineKeepsSecret(line) == [line EXCEPT !.ota = IF @ = Unset THEN ram.ota ELSE @]
LineSettings(line) == line

\* tickSerialProvision, for a line that passes its checks.
TickSerialProvision(line) ==
  /\ loop = "idle" /\ setup_mode /\ ~listening
  /\ Save("loop", LineSettings(line)) /\ Loadable
  /\ asked' = line.ota /\ secrets' = secrets \cup {line.ota}
  /\ loop' = "provSave"
  /\ UNCHANGED <<eeprom, http, setup_mode, listening>>

\* ResetWifiSettings of applyCommand clears the SSID, then the password, and
\* resets the unit once the record is saved.
ResetWifiSettings ==
  /\ loop = "idle"
  /\ ram' = [ram EXCEPT !.ssid = Unset] /\ loop' = "clearPass"
  /\ UNCHANGED <<eeprom, http, put, setup_mode, listening, overlap, loadable, secrets, asked>>

ResetWifiSave ==
  /\ loop = "clearPass"
  /\ Save("loop", [ram EXCEPT !.pass = Unset]) /\ Loadable /\ loop' = "resetSave"
  /\ UNCHANGED <<eeprom, http, setup_mode, listening, secrets, asked>>

-----------------------------------------------------------------------------
(* handleSoftApRequest on the SoftAP thread.                               *)

HandleSoftApSave ==
  /\ http = Idle /\ listening /\ loop \notin {"boot", "initSave"}
  /\ \E q \in Queries :
       ram' = [ram EXCEPT !.ssid = q.ssid] /\ http' = [pc |-> "copyPass", pass |-> q.pass]
  /\ UNCHANGED <<eeprom, loop, put, setup_mode, listening, overlap, loadable, secrets, asked>>

HandleSoftApSavePass ==
  /\ http.pc = "copyPass"
  /\ Save("http", [ram EXCEPT !.pass = http.pass]) /\ Loadable
  /\ http' = [pc |-> "save", pass |-> Unset]
  /\ UNCHANGED <<eeprom, loop, setup_mode, listening, secrets, asked>>

-----------------------------------------------------------------------------
(* EEPROM.put, resets and power.                                           *)

\* A cell that is not the last one.
WriteCell(t) ==
  /\ \E c \in put[t].left :
       /\ put[t].left # {c}
       /\ eeprom' = [eeprom EXCEPT ![c] = Cell(put[t].image, c)]
       /\ put' = [put EXCEPT ![t].left = @ \ {c}]
  /\ UNCHANGED <<ram, loop, http, setup_mode, listening, overlap, loadable, secrets, asked>>

\* The last cell: put and save return.
WriteLastCell(t) ==
  /\ \E c \in put[t].left :
       /\ put[t].left = {c}
       /\ eeprom' = [eeprom EXCEPT ![c] = Cell(put[t].image, c)]
  /\ put' = [put EXCEPT ![t] = NoPut]
  /\ loadable' = IF overlap THEN loadable ELSE {put[t].image}
  /\ IF t = "http"
     THEN http' = Idle /\ UNCHANGED <<loop, secrets>>
     ELSE /\ loop' = IF loop \in {"provSave", "resetSave"} THEN "reset" ELSE "idle"
          /\ secrets' = IF loop = "provSave" THEN {asked} ELSE secrets
          /\ UNCHANGED http
  /\ UNCHANGED <<ram, setup_mode, listening, overlap, asked>>

\* System.reset(), a reset of another command, or a loss of power at any time.
Reset ==
  /\ loop # "boot"
  /\ ram' = Defaults
  /\ loop' = "boot" /\ http' = Idle
  /\ put' = [t \in Threads |-> NoPut]
  /\ setup_mode' = FALSE /\ listening' = FALSE /\ overlap' = FALSE
  /\ UNCHANGED <<eeprom, loadable, secrets, asked>>

\* External: the setup button or a console command of Device OS.
ListeningChanges ==
  /\ loop = "idle" /\ http = Idle
  /\ listening' = ~listening
  /\ UNCHANGED <<ram, eeprom, loop, http, put, setup_mode, overlap, loadable, secrets, asked>>

Next ==
  \/ BootValid \/ BootUpgrade \/ BootDefaults
  \/ \E form \in Forms : HandleApiSettingsPost(form)
  \/ \E line \in Lines : TickSerialProvision(line)
  \/ ResetWifiSettings \/ ResetWifiSave
  \/ HandleSoftApSave \/ HandleSoftApSavePass
  \/ \E t \in Threads : WriteCell(t) \/ WriteLastCell(t)
  \/ Reset \/ ListeningChanges

Spec == Init /\ [][Next]_vars

-----------------------------------------------------------------------------
LoopStates == {"boot", "initSave", "idle", "postSave", "provSave", "clearPass", "resetSave", "reset"}

\* Every image that is saved is in its ranges; so is the record in use,
\* except that a handler may be half way through its fields.
TypeOK ==
  /\ ram \in Settings
  /\ DOMAIN eeprom = Cells
  /\ loop \in LoopStates /\ http \in [pc : {"idle", "copyPass", "save"}, pass : {Unset} \cup {q.pass : q \in Queries}]
  /\ put \in [Threads -> [image : Settings, left : SUBSET Cells]]
  /\ setup_mode \in BOOLEAN /\ listening \in BOOLEAN /\ overlap \in BOOLEAN
  /\ loadable \subseteq Settings /\ loadable # {}
  /\ secrets \subseteq {Unset} \cup {l.ota : l \in Lines} /\ asked \in {Unset} \cup {l.ota : l \in Lines}

\* However a save was cut short, and also when both threads were saving, boot
\* comes up with the whole of a record some save had begun to write and none
\* has replaced since, or with the defaults; it never mixes two.  While no save
\* was cut short that is exactly the last record saved: a schema 4 record is
\* "taken over unchanged with the secret unset" (CHANGELOG.md:31-33).
BootIsWhole == [][loop = "boot" /\ loop' # "boot" => ram' \in loadable]_vars

\* Between handlers EEPROM holds a valid copy of the settings in use, so the
\* next boot takes them without a write ("no per-boot EEPROM write",
\* docs/architecture.md:26).
RamIsStored ==
  loop = "idle" /\ http = Idle => Valid(eeprom) /\ Payload(eeprom) = ram

\* The update secret in use is that of the last PROV line that was accepted (or
\* was being saved when the power went), and unset after a line without one:
\* "set over USB only ... cleared by a PROV line without it" (CHANGELOG.md:29-30).
SecretFollowsProv == loop # "boot" => ram.ota \in secrets \cup {Unset}
=============================================================================
