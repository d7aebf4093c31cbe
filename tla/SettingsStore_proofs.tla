------------------------ MODULE SettingsStore_proofs ------------------------
(***************************************************************************)
(* The settings record survives every interleaving of its two writers and  *)
(* every loss of power, whatever the names, forms and PROV lines are.      *)
(***************************************************************************)
EXTENDS SettingsStore, TLAPS

-----------------------------------------------------------------------------
(* Records.                                                                *)

Ssids == {Unset} \cup {q.ssid : q \in Queries}
Passes == {Unset} \cup {q.pass : q \in Queries}
Secrets == {Unset} \cup {l.ota : l \in Lines}

\* A record as a handler leaves it, before it is sanitized.
Raw(r) ==
  /\ r = [f \in Fields |-> r[f]]
  /\ r["ssid"] \in Ssids /\ r["pass"] \in Passes /\ r["enabled"] \in {0, 1}
  /\ r["rest"] \in {"default", "own", "edge", "wild"}
  /\ r["id"] \in Ids \cup UnsafeIds /\ r["root"] \in SafeRoots \cup UnsafeRoots
  /\ r["ota"] \in Secrets

\* A sanitized one.
Clean(r) ==
  /\ Raw(r) /\ r["rest"] # "wild" /\ r["id"] \in Ids /\ r["root"] \in SafeRoots

LEMMA SettingsAreClean == \A r : r \in Settings => Clean(r)
BY DEF Settings, Clean, Raw, Fields, Ssids, Passes, Secrets

LEMMA CleanAreSettings == \A r : Clean(r) => r \in Settings
<1> SUFFICES ASSUME NEW r, Clean(r) PROVE r \in Settings
  OBVIOUS
<1>1. r = [ssid |-> r["ssid"], pass |-> r["pass"], enabled |-> r["enabled"], rest |-> r["rest"],
           id |-> r["id"], root |-> r["root"], ota |-> r["ota"]]
  BY DEF Clean, Raw, Fields
<1> QED
  BY <1>1 DEF Settings, Clean, Raw, Ssids, Passes, Secrets

LEMMA Names ==
  /\ FactoryId \in Ids
  /\ \A id \in Ids \cup UnsafeIds :
       /\ id \notin Ids => Normalized[id] \in Ids
       /\ DefaultRoot(id) \in SafeRoots
<1>1. \A id \in UnsafeIds : Normalized[id] \in Ids
  BY NameAssumption
<1>2. ASSUME NEW id \in Ids PROVE DefaultRoot(id) \in SafeRoots
  BY DEF SafeRoots
<1>3. ASSUME NEW id \in UnsafeIds, id \notin Ids PROVE DefaultRoot(id) \in SafeRoots
  <2>1. DefaultRoot(id) = DefaultRoot(Normalized[id])
    BY <1>1, <1>3 DEF DefaultRoot
  <2> QED
    BY <1>1, <1>2, <2>1
<1> QED
  BY <1>1, <1>2, <1>3, NameAssumption

\* sanitize makes a legal record of whatever a handler left, keeps the update secret, and
\* changes nothing in a legal one.
LEMMA SanitizeRaw ==
  ASSUME NEW r, Raw(r)
  PROVE  Sanitize(r) \in Settings /\ Sanitize(r)["ota"] = r["ota"]
<1> DEFINE s == Sanitize(r)
<1>1. /\ s = [f \in Fields |-> s[f]]
      /\ s["ssid"] = r["ssid"] /\ s["pass"] = r["pass"] /\ s["enabled"] = r["enabled"]
      /\ s["ota"] = r["ota"]
      /\ s["rest"] = InRange(r["rest"])
      /\ s["id"] = IF r["id"] \in Ids THEN r["id"] ELSE Normalized[r["id"]]
      /\ s["root"] = IF r["root"] \in SafeRoots THEN r["root"] ELSE DefaultRoot(r["id"])
  BY DEF Sanitize, Raw, Fields
<1> HIDE DEF s
<1>2. s["id"] \in Ids /\ s["root"] \in SafeRoots
  BY <1>1, Names DEF Raw
<1>3. s["rest"] \in {"default", "own", "edge"}
  BY <1>1 DEF Raw, InRange
<1>4. Clean(s)
  BY <1>1, <1>2, <1>3 DEF Clean, Raw
<1> QED
  BY <1>1, <1>4, CleanAreSettings DEF s

LEMMA SanitizeClean == \A r \in Settings : Sanitize(r) = r
<1> SUFFICES ASSUME NEW r \in Settings PROVE Sanitize(r) = r
  OBVIOUS
<1>1. Clean(r)
  BY SettingsAreClean
<1> DEFINE s == Sanitize(r)
<1>2. /\ s = [f \in Fields |-> s[f]]
      /\ \A f \in Fields : s[f] = r[f]
  BY <1>1 DEF Sanitize, Clean, Raw, Fields, InRange
<1> QED
  BY <1>1, <1>2 DEF Clean, Raw

LEMMA DefaultsLegal == Defaults \in Settings /\ Defaults["ota"] = Unset
<1>1. Clean(Defaults) /\ Defaults["ota"] = Unset
  BY Names DEF Defaults, Clean, Raw, Fields, Ssids, Passes, Secrets
<1> QED
  BY <1>1, CleanAreSettings

LEMMA SettingsHaveSecrets == \A r \in Settings : r["ota"] \in Secrets
BY DEF Settings, Secrets

\* Assigning one field of a legal record.
LEMMA FieldAssigned ==
  ASSUME NEW r \in Settings
  PROVE  /\ [r EXCEPT !.ota = Unset] \in Settings /\ [r EXCEPT !.ota = Unset]["ota"] = Unset
         /\ V4([r EXCEPT !.ota = Unset]) = V4(r)
         /\ \A x \in Ssids : /\ [r EXCEPT !.ssid = x] \in Settings
                             /\ [r EXCEPT !.ssid = x]["ota"] = r["ota"]
         /\ \A x \in Passes : /\ [r EXCEPT !.pass = x] \in Settings
                              /\ [r EXCEPT !.pass = x]["ota"] = r["ota"]
<1>1. [r EXCEPT !.ota = Unset] \in Settings /\ [r EXCEPT !.ota = Unset]["ota"] = Unset
  BY DEF Settings
<1>2. V4([r EXCEPT !.ota = Unset]) = V4(r)
  <2> DEFINE s == [r EXCEPT !.ota = Unset]
  <2>1. \A f \in Fields \ {"ota"} : s[f] = r[f]
    BY DEF Settings, Fields
  <2> QED
    BY <2>1 DEF V4
<1>3. ASSUME NEW x \in Ssids
      PROVE  [r EXCEPT !.ssid = x] \in Settings /\ [r EXCEPT !.ssid = x]["ota"] = r["ota"]
  BY DEF Settings, Ssids
<1>4. ASSUME NEW x \in Passes
      PROVE  [r EXCEPT !.pass = x] \in Settings /\ [r EXCEPT !.pass = x]["ota"] = r["ota"]
  BY DEF Settings, Passes
<1> QED
  BY <1>1, <1>2, <1>3, <1>4

\* The record a settings POST makes of the one in use.
LEMMA FormMerged ==
  ASSUME NEW r \in Settings, NEW form \in Forms
  PROVE  LET m == [f \in Fields |-> IF f \in DOMAIN form THEN form[f] ELSE r[f]] IN
         Raw(m) /\ m["ota"] = r["ota"]
<1> DEFINE m == [f \in Fields |-> IF f \in DOMAIN form THEN form[f] ELSE r[f]]
<1>1. Clean(r)
  BY SettingsAreClean
<1>2. /\ "ota" \notin DOMAIN form
      /\ "ssid" \in DOMAIN form => form["ssid"] \in Ssids
      /\ "pass" \in DOMAIN form => form["pass"] \in Passes
      /\ "enabled" \in DOMAIN form => form["enabled"] \in {0, 1}
      /\ "rest" \in DOMAIN form => form["rest"] \in {"default", "own", "edge", "wild"}
      /\ "id" \in DOMAIN form => form["id"] \in Ids \cup UnsafeIds
      /\ "root" \in DOMAIN form => form["root"] \in SafeRoots \cup UnsafeRoots
  BY InputAssumption DEF Fields, Ssids, Passes
<1>3. /\ m = [f \in Fields |-> m[f]]
      /\ \A f \in Fields : m[f] = IF f \in DOMAIN form THEN form[f] ELSE r[f]
  OBVIOUS
<1> HIDE DEF m
<1>4. Raw(m) /\ m["ota"] = r["ota"]
  BY <1>1, <1>2, <1>3 DEF Clean, Raw, Fields
<1> QED
  BY <1>4 DEF m

-----------------------------------------------------------------------------
(* Images in EEPROM.                                                       *)

LEMMA StoredIsValid ==
  ASSUME NEW r \in Settings
  PROVE  /\ Stored(r) = [c \in Cells |-> Stored(r)[c]] /\ Stored(r)["head"] = Head(5, r)
         /\ Payload(Stored(r)) = r /\ Valid(Stored(r))
<1>1. Clean(r)
  BY SettingsAreClean
<1>2. /\ Stored(r) = [c \in Cells |-> Stored(r)[c]]
      /\ Stored(r)["head"] = Head(5, r)
      /\ \A f \in Fields : Stored(r)[f] = r[f]
  BY DEF Stored, Cell, Cells, Fields
<1>3. Payload(Stored(r)) = r
  BY <1>1, <1>2 DEF Payload, Clean, Raw
<1>4. Valid(Stored(r))
  BY <1>1, <1>2, <1>3 DEF Valid, Head, Clean, Raw, Fields
<1> QED
  BY <1>2, <1>3, <1>4

LEMMA StoredV4IsUpgradable ==
  ASSUME NEW r \in Settings
  PROVE  /\ StoredV4(r) = [c \in Cells |-> StoredV4(r)[c]]
         /\ StoredV4(r)["head"] = Head(4, V4(r)) /\ Upgradable(StoredV4(r))
<1>1. Clean(r)
  BY SettingsAreClean
<1>2. /\ StoredV4(r) = [c \in Cells |-> StoredV4(r)[c]]
      /\ StoredV4(r)["head"] = Head(4, V4(r))
      /\ \A f \in Fields \ {"ota"} : StoredV4(r)[f] = r[f]
  BY DEF StoredV4, Cells, Fields
<1>3. V4(StoredV4(r)) = V4(r)
  BY <1>2 DEF V4
<1>4. Upgradable(StoredV4(r))
  BY <1>1, <1>2, <1>3 DEF Upgradable, Head, Clean, Raw, Fields
<1> QED
  BY <1>2, <1>4

\* The upgrade finds the record the schema 4 checksum was made for.
LEMMA UpgradeFindsRecord ==
  ASSUME NEW e, NEW r \in Settings, r["ota"] = Unset, V4(e) = V4(r)
  PROVE  Upgraded(e) = r
<1>1. Clean(r)
  BY SettingsAreClean
<1>2. \A f \in Fields \ {"ota"} : V4(e)[f] = e[f] /\ V4(r)[f] = r[f]
  BY DEF V4
<1>3. /\ Upgraded(e) = [f \in Fields |-> Upgraded(e)[f]]
      /\ \A f \in Fields : Upgraded(e)[f] = IF f = "ota" THEN Unset ELSE e[f]
  BY DEF Upgraded, Payload, Fields
<1>4. \A f \in Fields : Upgraded(e)[f] = r[f]
  BY <1>2, <1>3
<1> QED
  BY <1>1, <1>3, <1>4 DEF Clean, Raw

-----------------------------------------------------------------------------
(* The inductive invariant.                                                *)

\* The record the checksum in EEPROM was made for may be the next one loaded,
\* and what neither it nor schema 4 vouches for is replaced by the defaults.
EepromOK ==
  /\ eeprom = [c \in Cells |-> eeprom[c]]
  /\ \/ \E r \in loadable : eeprom["head"] = Head(5, r) /\ r["ota"] \in secrets \cup {Unset}
     \/ \E r \in loadable : eeprom["head"] = Head(4, V4(r)) /\ r["ota"] = Unset
     \/ eeprom["head"] = Head(0, V4(Defaults))
  /\ Defaults \in loadable \/ Valid(eeprom) \/ Upgradable(eeprom)

\* The cells a put has no longer to write are those of its image.
Written(t) == \A c \in Cells \ put[t].left : eeprom[c] = Cell(put[t].image, c)

PutsOK ==
  \A t \in Threads : Putting(t) =>
    /\ put[t].image \in loadable /\ Defaults \in loadable
    /\ put[t].image["ota"] \in secrets \cup {Unset}
    /\ overlap \/ (Written(t) /\ ~Putting(Other(t)))

\* Which thread may be where while the other is where.
ModesOK ==
  /\ loop \in {"boot", "initSave", "postSave", "provSave"} => http = Idle
  /\ loop \in {"postSave", "provSave"} => ~listening
  /\ http.pc # "idle" => listening
  /\ http.pc = "idle" => http = Idle
  /\ Putting("loop") <=> loop \in {"initSave", "postSave", "provSave", "resetSave"}
  /\ Putting("http") <=> http.pc = "save"
  /\ loop \notin {"resetSave", "reset"} => ~overlap

\* The save that ends with the loop idle is a save of the record in use.
RamOK ==
  /\ RamIsStored
  /\ loop = "idle" /\ http.pc = "save" => put["http"].image = ram
  /\ loop \in {"initSave", "postSave", "provSave"} => put["loop"].image = ram

SecretsOK == SecretFollowsProv /\ (loop = "provSave" => ram.ota = asked)

IInv == TypeOK /\ EepromOK /\ PutsOK /\ ModesOK /\ RamOK /\ SecretsOK

LEMMA InitInv == Init => IInv
<1> SUFFICES ASSUME Init PROVE IInv
  OBVIOUS
<1> USE DefaultsLegal
<1>1. /\ loadable \subseteq Settings /\ loadable # {} /\ secrets \subseteq Secrets /\ EepromOK
  <2>1. PICK r \in Records :
       \/ eeprom = Stored(r) /\ loadable = {r} /\ secrets = {r.ota}
       \/ eeprom = StoredV4(r) /\ loadable = {[r EXCEPT !.ota = Unset]} /\ secrets = {Unset}
       \/ eeprom = Erasure /\ loadable = {Defaults} /\ secrets = {Unset}
    BY DEF Init
  <2>2. r \in Settings /\ r["ota"] \in Secrets
    BY InputAssumption, SettingsHaveSecrets
  <2>3. CASE eeprom = Stored(r) /\ loadable = {r} /\ secrets = {r.ota}
    BY <2>2, <2>3, StoredIsValid DEF EepromOK
  <2>4. CASE eeprom = StoredV4(r) /\ loadable = {[r EXCEPT !.ota = Unset]} /\ secrets = {Unset}
    BY <2>2, <2>4, StoredV4IsUpgradable, FieldAssigned DEF EepromOK, Secrets
  <2>5. CASE eeprom = Erasure /\ loadable = {Defaults} /\ secrets = {Unset}
    BY <2>5 DEF EepromOK, Erasure, Cells, Secrets
  <2> QED
    BY <2>1, <2>3, <2>4, <2>5
<1>2. DOMAIN eeprom = Cells
  BY <1>1 DEF EepromOK
<1>3. \A t \in Threads : put[t] = NoPut
  BY DEF Init
<1>4. TypeOK
  BY <1>1, <1>2 DEF Init, TypeOK, Idle, NoPut, LoopStates, Secrets
<1>5. PutsOK
  BY <1>3 DEF PutsOK, Putting, NoPut
<1>6. ModesOK
  BY <1>3 DEF ModesOK, Putting, NoPut, Init, Idle, Threads
<1>7. RamOK /\ SecretsOK
  BY DEF RamOK, SecretsOK, RamIsStored, SecretFollowsProv, Init
<1> QED
  BY <1>1, <1>4, <1>5, <1>6, <1>7 DEF IInv

-----------------------------------------------------------------------------
(* save: what every handler that ends in it shares.                        *)

LEMMA SaveFacts ==
  ASSUME IInv, NEW t \in Threads, NEW r, Raw(r), ~Putting(t), Save(t, r), Loadable,
         UNCHANGED eeprom, secrets \subseteq secrets', r["ota"] \in secrets' \cup {Unset},
         secrets' \subseteq Secrets
  PROVE  /\ ram' = Sanitize(r) /\ ram' \in Settings /\ ram'.ota = r["ota"]
         /\ put' \in [Threads -> [image : Settings, left : SUBSET Cells]]
         /\ overlap' \in BOOLEAN
         /\ loadable' \subseteq Settings /\ loadable' # {}
         /\ put'[t].image = ram' /\ put'[t].left # {}
         /\ \A u \in Threads \ {t} :
              put'[u].image = put[u].image /\ (put'[u].left # {} <=> Putting(u))
         /\ overlap' = Putting(Other(t))
         /\ EepromOK' /\ PutsOK'
<1> USE DefaultsLegal
<1> DEFINE image == Sanitize(r)
           changes == Changes(t, image)
<1>1. image \in Settings /\ image["ota"] = r["ota"]
  BY SanitizeRaw
<1>2. /\ ram' = image
      /\ put' = [u \in Threads |->
           IF u = t THEN [image |-> image, left |-> changes]
           ELSE [put[u] EXCEPT !.left = IF Putting(u) THEN @ \cup changes ELSE @]]
      /\ overlap' = Putting(Other(t))
      /\ loadable' = loadable \cup {image, Defaults}
  BY DEF Save, Loadable
<1>3. /\ changes \subseteq Cells /\ "head" \in changes
      /\ \A c \in Cells \ changes : eeprom[c] = Cell(image, c)
  BY DEF Changes, Cells
<1>4. put \in [Threads -> [image : Settings, left : SUBSET Cells]] /\ loadable \subseteq Settings
  BY DEF IInv, TypeOK
<1> HIDE DEF image, changes
<1>5. put' \in [Threads -> [image : Settings, left : SUBSET Cells]]
  BY <1>1, <1>2, <1>3, <1>4
<1>6. put'[t].image = image /\ put'[t].left = changes
  BY <1>2
<1>7. ASSUME NEW u \in Threads \ {t}
      PROVE  put'[u].image = put[u].image /\ (put'[u].left # {} <=> put[u].left # {})
  BY <1>2, <1>4 DEF Putting
<1>8. EepromOK'
  <2>1. eeprom' = eeprom /\ eeprom = [c \in Cells |-> eeprom[c]]
    BY DEF IInv, EepromOK
  <2>2. Defaults \in loadable' /\ loadable \subseteq loadable'
    BY <1>2
  <2>3. \/ \E x \in loadable : eeprom["head"] = Head(5, x) /\ x["ota"] \in secrets \cup {Unset}
        \/ \E x \in loadable : eeprom["head"] = Head(4, V4(x)) /\ x["ota"] = Unset
        \/ eeprom["head"] = Head(0, V4(Defaults))
    BY DEF IInv, EepromOK
  <2>4. \/ \E x \in loadable' : eeprom'["head"] = Head(5, x) /\ x["ota"] \in secrets' \cup {Unset}
        \/ \E x \in loadable' : eeprom'["head"] = Head(4, V4(x)) /\ x["ota"] = Unset
        \/ eeprom'["head"] = Head(0, V4(Defaults))
    BY <2>1, <2>2, <2>3
  <2> QED
    BY <2>1, <2>2, <2>4 DEF EepromOK
<1>9. PutsOK'
  <2> SUFFICES ASSUME NEW u \in Threads, put'[u].left # {}
               PROVE  /\ put'[u].image \in loadable' /\ Defaults \in loadable'
                      /\ put'[u].image["ota"] \in secrets' \cup {Unset}
                      /\ overlap' \/ (Written(u)' /\ ~(put'[Other(u)].left # {}))
    BY DEF PutsOK, Putting
  <2>1. CASE u = t
    <3>1. overlap' \/ put'[Other(t)].left = {}
      BY <1>2, <1>7 DEF Putting, Other, Threads
    <3>2. Written(t)'
      BY <1>3, <1>6 DEF Written
    <3> QED
      BY <2>1, <3>1, <3>2, <1>1, <1>2, <1>6
  <2>2. CASE u # t
    <3>1. Putting(u) /\ put'[u].image = put[u].image
      BY <2>2, <1>7 DEF Putting
    <3>2. u = Other(t)
      BY <2>2 DEF Other, Threads
    <3>3. overlap'
      BY <1>2, <3>1, <3>2
    <3> QED
      BY <1>2, <3>1, <3>3 DEF IInv, PutsOK
  <2> QED
    BY <2>1, <2>2
<1>10. overlap' \in BOOLEAN
  BY <1>2 DEF Putting
<1> QED
  BY <1>1, <1>2, <1>3, <1>4, <1>5, <1>6, <1>7, <1>8, <1>9, <1>10 DEF Putting, image

-----------------------------------------------------------------------------
(* Boot.                                                                   *)

\* While the unit boots nobody saves and the SoftAP thread is idle.
LEMMA BootIsAlone ==
  ASSUME IInv, loop = "boot"
  PROVE  http = Idle /\ ~overlap /\ ~Putting("loop") /\ ~Putting("http")
BY DEF IInv, ModesOK, Idle

\* What boot finds is a record it may load.
LEMMA BootFinds ==
  ASSUME IInv
  PROVE  /\ Valid(eeprom) => /\ Payload(eeprom) \in loadable
                             /\ Payload(eeprom)["ota"] \in secrets \cup {Unset}
                             /\ eeprom["head"] = Head(5, Payload(eeprom))
         /\ ~Valid(eeprom) /\ Upgradable(eeprom) =>
              Upgraded(eeprom) \in loadable /\ Upgraded(eeprom)["ota"] = Unset
         /\ ~Valid(eeprom) /\ ~Upgradable(eeprom) => Defaults \in loadable
         /\ loadable \subseteq Settings
<1>1. /\ \/ \E r \in loadable : eeprom["head"] = Head(5, r) /\ r["ota"] \in secrets \cup {Unset}
         \/ \E r \in loadable : eeprom["head"] = Head(4, V4(r)) /\ r["ota"] = Unset
         \/ eeprom["head"] = Head(0, V4(Defaults))
      /\ Defaults \in loadable \/ Valid(eeprom) \/ Upgradable(eeprom)
      /\ loadable \subseteq Settings
  BY DEF IInv, EepromOK, TypeOK
<1>2. \A v, x : Head(v, x).version = v /\ Head(v, x).sum = x
  BY DEF Head
<1>3. ASSUME Valid(eeprom)
      PROVE  /\ Payload(eeprom) \in loadable /\ Payload(eeprom)["ota"] \in secrets \cup {Unset}
             /\ eeprom["head"] = Head(5, Payload(eeprom))
  BY <1>1, <1>2, <1>3 DEF Valid
<1>4. ASSUME Upgradable(eeprom) PROVE Upgraded(eeprom) \in loadable /\ Upgraded(eeprom)["ota"] = Unset
  <2>1. eeprom["head"].version = 4 /\ eeprom["head"].sum = V4(eeprom)
    BY <1>4 DEF Upgradable
  <2>2. PICK r \in loadable : V4(eeprom) = V4(r) /\ r["ota"] = Unset
    BY <1>1, <1>2, <2>1
  <2> QED
    BY <1>1, <2>2, UpgradeFindsRecord
<1> QED
  BY <1>1, <1>3, <1>4

LEMMA BootValidInv == IInv /\ BootValid => IInv'
<1> SUFFICES ASSUME IInv, BootValid PROVE IInv'
  OBVIOUS
<1> USE DefaultsLegal, BootIsAlone
<1>1. /\ loop = "boot" /\ Valid(eeprom) /\ ram' = Sanitize(Payload(eeprom)) /\ loop' = "idle"
      /\ http' = Idle /\ setup_mode' = (ram'.ssid = Unset) /\ listening' = setup_mode'
      /\ loadable' = {ram'} /\ secrets' = secrets \cap {ram'.ota}
      /\ eeprom' = eeprom /\ put' = put /\ overlap' = overlap /\ asked' = asked
  BY DEF BootValid, Booted
<1>2. /\ ram' = Payload(eeprom) /\ ram' \in Settings
      /\ ram'["ota"] \in secrets \cup {Unset} /\ eeprom["head"] = Head(5, ram')
  BY <1>1, BootFinds, SanitizeClean
<1>3. TypeOK'
  BY <1>1, <1>2 DEF IInv, TypeOK, LoopStates, Idle
<1>4. EepromOK'
  <2>1. eeprom = [c \in Cells |-> eeprom[c]]
    BY DEF IInv, EepromOK
  <2>2. Valid(eeprom)'
    BY <1>1 DEF Valid, Payload
  <2> QED
    BY <1>1, <1>2, <2>1, <2>2 DEF EepromOK
<1>5. \A t \in Threads : ~(put'[t].left # {})
  BY <1>1 DEF Putting, Threads
<1>6. PutsOK'
  BY <1>5 DEF PutsOK, Putting
<1>7. ModesOK'
  BY <1>1, <1>5 DEF ModesOK, Idle, Putting, Threads
<1>8. RamOK'
  <2>1. RamIsStored'
    BY <1>1, <1>2 DEF RamIsStored, Valid, Payload
  <2> QED
    BY <1>1, <2>1 DEF RamOK, Idle
<1>9. SecretsOK'
  BY <1>1, <1>2 DEF SecretsOK, SecretFollowsProv
<1> QED
  BY <1>3, <1>4, <1>6, <1>7, <1>8, <1>9 DEF IInv

\* The upgrade and the defaults, both saved before init goes on.
LEMMA BootSaveInv ==
  ASSUME IInv, loop = "boot", NEW r \in Settings, r["ota"] = Unset,
         Save("loop", r), Loadable, loop' = "initSave", Booted,
         UNCHANGED <<eeprom, secrets, asked>>
  PROVE  IInv' /\ ram' = r
<1> USE DefaultsLegal, BootIsAlone
<1>1. /\ http' = Idle /\ setup_mode' = (ram'.ssid = Unset) /\ listening' = setup_mode'
      /\ eeprom' = eeprom /\ secrets' = secrets /\ asked' = asked
  BY DEF Booted
<1>2. /\ ram' = r /\ ram' \in Settings /\ ram'.ota = Unset
      /\ put' \in [Threads -> [image : Settings, left : SUBSET Cells]]
      /\ overlap' \in BOOLEAN /\ loadable' \subseteq Settings /\ loadable' # {}
      /\ put'["loop"].image = ram' /\ put'["loop"].left # {} /\ put'["http"].left = {}
      /\ overlap' = FALSE /\ EepromOK' /\ PutsOK'
  <2>1. Raw(r)
    BY SettingsAreClean DEF Clean
  <2>2. secrets \subseteq Secrets
    BY DEF IInv, TypeOK, Secrets
  <2> QED
    BY <1>1, <2>1, <2>2, SaveFacts, SanitizeClean DEF Threads, Other
<1>3. TypeOK'
  BY <1>1, <1>2 DEF IInv, TypeOK, LoopStates, Idle
<1>4. ModesOK'
  BY <1>1, <1>2 DEF ModesOK, Idle, Putting
<1>5. RamOK' /\ SecretsOK'
  BY <1>1, <1>2 DEF RamOK, SecretsOK, SecretFollowsProv, RamIsStored
<1> QED
  BY <1>2, <1>3, <1>4, <1>5 DEF IInv

LEMMA BootUpgradeInv == IInv /\ BootUpgrade => IInv' /\ ram' \in loadable
BY BootSaveInv, BootFinds DEF BootUpgrade

LEMMA BootDefaultsInv == IInv /\ BootDefaults => IInv' /\ ram' \in loadable
BY BootSaveInv, BootFinds, DefaultsLegal DEF BootDefaults

-----------------------------------------------------------------------------
(* The application thread and the SoftAP thread.                           *)

\* A handler of the application thread that ends in a save.
LEMMA LoopSaveInv ==
  ASSUME IInv, NEW r, Raw(r), loop \in {"idle", "clearPass"}, Save("loop", r), Loadable,
         loop' \in {"postSave", "provSave", "resetSave"},
         loop' \in {"postSave", "provSave"} => loop = "idle" /\ ~listening,
         secrets \subseteq secrets', secrets' \subseteq Secrets, asked' \in Secrets,
         r["ota"] \in secrets' \cup {Unset}, loop' = "provSave" => r["ota"] = asked',
         UNCHANGED <<eeprom, http, setup_mode, listening>>
  PROVE  IInv'
<1> USE DefaultsLegal
<1>1. eeprom' = eeprom /\ http' = http /\ setup_mode' = setup_mode /\ listening' = listening
  OBVIOUS
<1>2. ~Putting("loop") /\ ~overlap
  BY DEF IInv, ModesOK
<1>3. /\ ram' \in Settings /\ ram'.ota = r["ota"]
      /\ put' \in [Threads -> [image : Settings, left : SUBSET Cells]]
      /\ overlap' \in BOOLEAN /\ loadable' \subseteq Settings /\ loadable' # {}
      /\ put'["loop"].image = ram' /\ put'["loop"].left # {}
      /\ put'["http"].left # {} <=> Putting("http")
      /\ overlap' = Putting("http") /\ EepromOK' /\ PutsOK'
  BY <1>1, <1>2, SaveFacts DEF Threads, Other
<1>4. TypeOK'
  BY <1>1, <1>3 DEF IInv, TypeOK, LoopStates, Secrets
<1>5. ModesOK'
  <2>1. /\ loop' \in {"postSave", "provSave"} => http = Idle
        /\ http.pc # "idle" => listening
        /\ http.pc = "idle" => http = Idle
        /\ Putting("http") <=> http.pc = "save"
    BY DEF IInv, ModesOK
  <2>2. put'["http"].left # {} <=> http.pc = "save"
    BY <1>3, <2>1
  <2>3. loop' \in {"postSave", "provSave"} => overlap' = FALSE
    BY <1>3, <2>1 DEF Idle
  <2>4. /\ loop' \in {"boot", "initSave", "postSave", "provSave"} => http' = Idle
        /\ loop' \in {"postSave", "provSave"} => ~listening'
        /\ http'.pc # "idle" => listening'
        /\ http'.pc = "idle" => http' = Idle
    BY <1>1, <2>1
  <2> QED
    BY <1>1, <1>3, <2>2, <2>3, <2>4 DEF ModesOK, Putting
<1>6. RamOK' /\ SecretsOK'
  BY <1>1, <1>3 DEF RamOK, SecretsOK, SecretFollowsProv, RamIsStored
<1> QED
  BY <1>3, <1>4, <1>5, <1>6 DEF IInv

LEMMA HandleApiSettingsPostInv ==
  ASSUME IInv, NEW form \in Forms, HandleApiSettingsPost(form)
  PROVE  IInv'
<1> DEFINE r == [f \in Fields |-> IF f \in DOMAIN form THEN form[f] ELSE ram[f]]
<1>1. Raw(r) /\ r["ota"] = ram["ota"]
  BY FormMerged DEF IInv, TypeOK
<1>2. ram["ota"] \in secrets \cup {Unset} /\ secrets \subseteq Secrets /\ asked \in Secrets
  BY DEF IInv, TypeOK, SecretsOK, SecretFollowsProv, HandleApiSettingsPost, Secrets
<1>3. /\ Save("loop", r) /\ Loadable /\ loop = "idle" /\ ~listening /\ loop' = "postSave"
      /\ UNCHANGED <<eeprom, http, setup_mode, listening, secrets, asked>>
  BY DEF HandleApiSettingsPost
<1> HIDE DEF r
<1> QED
  BY <1>1, <1>2, <1>3, LoopSaveInv

LEMMA TickSerialProvisionInv ==
  ASSUME IInv, NEW line \in Lines, TickSerialProvision(line)
  PROVE  IInv'
<1>1. line \in Settings
  BY InputAssumption
<1>2. Raw(line)
  BY <1>1, SettingsAreClean DEF Clean
<1>3. line.ota \in Secrets /\ secrets \subseteq Secrets
  BY DEF IInv, TypeOK, Secrets
<1>4. /\ Save("loop", line) /\ Loadable /\ loop = "idle" /\ ~listening /\ loop' = "provSave"
      /\ asked' = line.ota /\ secrets' = secrets \cup {line.ota}
      /\ UNCHANGED <<eeprom, http, setup_mode, listening>>
  BY DEF TickSerialProvision, LineSettings
<1> QED
  BY <1>2, <1>3, <1>4, LoopSaveInv

LEMMA ResetWifiSaveInv == IInv /\ ResetWifiSave => IInv'
<1> SUFFICES ASSUME IInv, ResetWifiSave PROVE IInv'
  OBVIOUS
<1> DEFINE r == [ram EXCEPT !.pass = Unset]
<1>1. r \in Settings /\ r["ota"] = ram["ota"]
  BY FieldAssigned DEF IInv, TypeOK, Passes
<1>2. Raw(r)
  BY <1>1, SettingsAreClean DEF Clean
<1>3. ram["ota"] \in secrets \cup {Unset} /\ secrets \subseteq Secrets /\ asked \in Secrets
  BY DEF IInv, TypeOK, SecretsOK, SecretFollowsProv, ResetWifiSave, Secrets
<1>4. /\ Save("loop", r) /\ Loadable /\ loop = "clearPass" /\ loop' = "resetSave"
      /\ UNCHANGED <<eeprom, http, setup_mode, listening, secrets, asked>>
  BY DEF ResetWifiSave
<1> HIDE DEF r
<1> QED
  BY <1>1, <1>2, <1>3, <1>4, LoopSaveInv

LEMMA ResetWifiSettingsInv == IInv /\ ResetWifiSettings => IInv'
<1> SUFFICES ASSUME IInv, ResetWifiSettings PROVE IInv'
  OBVIOUS
<1>1. /\ loop = "idle" /\ ram' = [ram EXCEPT !.ssid = Unset] /\ loop' = "clearPass"
      /\ UNCHANGED <<eeprom, http, put, setup_mode, listening, overlap, loadable, secrets, asked>>
  BY DEF ResetWifiSettings
<1>2. ram' \in Settings /\ ram'["ota"] = ram["ota"]
  BY <1>1, FieldAssigned DEF IInv, TypeOK, Ssids
<1>3. TypeOK'
  BY <1>1, <1>2 DEF IInv, TypeOK, LoopStates
<1>4. EepromOK' /\ PutsOK'
  BY <1>1 DEF IInv, EepromOK, PutsOK, Written, Putting, Valid, Upgradable, Payload, V4
<1>5. ModesOK'
  BY <1>1 DEF IInv, ModesOK, Putting
<1>6. RamOK' /\ SecretsOK'
  BY <1>1, <1>2 DEF IInv, RamOK, RamIsStored, SecretsOK, SecretFollowsProv
<1> QED
  BY <1>3, <1>4, <1>5, <1>6 DEF IInv

\* While GET /save is served the application thread is neither booting nor
\* saving for a client of the network.
LEMMA SoftApFreedom ==
  ASSUME IInv, http.pc # "idle" \/ (listening /\ loop \notin {"boot", "initSave"})
  PROVE  listening /\ loop \in {"idle", "clearPass", "resetSave", "reset"}
BY DEF IInv, ModesOK, TypeOK, LoopStates, Idle

LEMMA HandleSoftApSaveInv == IInv /\ HandleSoftApSave => IInv'
<1> SUFFICES ASSUME IInv, HandleSoftApSave PROVE IInv'
  OBVIOUS
<1>1. /\ http = Idle /\ listening /\ loop \notin {"boot", "initSave"}
      /\ UNCHANGED <<eeprom, loop, put, setup_mode, listening, overlap, loadable, secrets, asked>>
  BY DEF HandleSoftApSave
<1>2. PICK q \in Queries :
        ram' = [ram EXCEPT !.ssid = q.ssid] /\ http' = [pc |-> "copyPass", pass |-> q.pass]
  BY DEF HandleSoftApSave
<1>3. ram' \in Settings /\ ram'["ota"] = ram["ota"]
  BY <1>2, FieldAssigned DEF IInv, TypeOK, Ssids
<1>4. loop \in {"idle", "clearPass", "resetSave", "reset"}
  BY <1>1, SoftApFreedom
<1>5. TypeOK'
  BY <1>1, <1>2, <1>3 DEF IInv, TypeOK
<1>6. EepromOK' /\ PutsOK'
  BY <1>1 DEF IInv, EepromOK, PutsOK, Written, Putting, Valid, Upgradable, Payload, V4
<1>7. ModesOK'
  BY <1>1, <1>2, <1>4 DEF IInv, ModesOK, Putting, Idle
<1>8. RamOK' /\ SecretsOK'
  BY <1>1, <1>2, <1>3, <1>4 DEF IInv, RamOK, RamIsStored, SecretsOK, SecretFollowsProv, Idle
<1> QED
  BY <1>5, <1>6, <1>7, <1>8 DEF IInv

LEMMA HandleSoftApSavePassInv == IInv /\ HandleSoftApSavePass => IInv'
<1> SUFFICES ASSUME IInv, HandleSoftApSavePass PROVE IInv'
  OBVIOUS
<1> DEFINE r == [ram EXCEPT !.pass = http.pass]
<1>1. /\ http.pc = "copyPass" /\ Save("http", r) /\ Loadable
      /\ http' = [pc |-> "save", pass |-> Unset]
      /\ UNCHANGED <<eeprom, loop, setup_mode, listening, secrets, asked>>
  BY DEF HandleSoftApSavePass
<1>2. r \in Settings /\ r["ota"] = ram["ota"]
  BY FieldAssigned DEF IInv, TypeOK, Passes
<1>3. Raw(r)
  BY <1>2, SettingsAreClean DEF Clean
<1> HIDE DEF r
<1>4. listening /\ loop \in {"idle", "clearPass", "resetSave", "reset"}
  BY <1>1, SoftApFreedom
<1>5. ram["ota"] \in secrets \cup {Unset} /\ secrets \subseteq Secrets /\ ~Putting("http")
  BY <1>1, <1>4 DEF IInv, TypeOK, ModesOK, SecretsOK, SecretFollowsProv, Secrets
<1>6. /\ ram' \in Settings /\ ram'.ota = ram["ota"]
      /\ put' \in [Threads -> [image : Settings, left : SUBSET Cells]]
      /\ overlap' \in BOOLEAN /\ loadable' \subseteq Settings /\ loadable' # {}
      /\ put'["http"].image = ram' /\ put'["http"].left # {}
      /\ put'["loop"].left # {} <=> Putting("loop")
      /\ overlap' = Putting("loop") /\ EepromOK' /\ PutsOK'
  BY <1>1, <1>2, <1>3, <1>5, SaveFacts DEF Threads, Other
<1>7. TypeOK'
  BY <1>1, <1>6 DEF IInv, TypeOK
<1>8. ModesOK'
  <2>1. Putting("loop") <=> loop = "resetSave"
    BY <1>4 DEF IInv, ModesOK
  <2> QED
    BY <1>1, <1>4, <1>6, <2>1 DEF ModesOK, Putting
<1>9. RamOK' /\ SecretsOK'
  BY <1>1, <1>4, <1>5, <1>6 DEF RamOK, RamIsStored, SecretsOK, SecretFollowsProv, Idle
<1> QED
  BY <1>6, <1>7, <1>8, <1>9 DEF IInv

-----------------------------------------------------------------------------
(* EEPROM.put, resets and power.                                           *)

\* A cell of an image that may be loaded leaves EEPROM as it has to be.
LEMMA CellWritten ==
  ASSUME IInv, NEW t \in Threads, Putting(t), NEW c \in Cells,
         eeprom' = [eeprom EXCEPT ![c] = Cell(put[t].image, c)]
  PROVE  /\ eeprom' = [d \in Cells |-> eeprom'[d]]
         /\ \A d \in Cells : eeprom'[d] = IF d = c THEN Cell(put[t].image, c) ELSE eeprom[d]
         /\ \/ \E r \in loadable : eeprom'["head"] = Head(5, r) /\ r["ota"] \in secrets \cup {Unset}
            \/ \E r \in loadable : eeprom'["head"] = Head(4, V4(r)) /\ r["ota"] = Unset
            \/ eeprom'["head"] = Head(0, V4(Defaults))
<1>1. eeprom = [d \in Cells |-> eeprom[d]]
  BY DEF IInv, EepromOK
<1>2. /\ eeprom' = [d \in Cells |-> eeprom'[d]]
      /\ \A d \in Cells : eeprom'[d] = IF d = c THEN Cell(put[t].image, c) ELSE eeprom[d]
  BY <1>1
<1>3. put[t].image \in loadable /\ put[t].image["ota"] \in secrets \cup {Unset}
  BY DEF IInv, PutsOK
<1>4. CASE c = "head"
  BY <1>2, <1>3, <1>4 DEF Cell
<1>5. CASE c # "head"
  <2>1. eeprom'["head"] = eeprom["head"]
    BY <1>2, <1>5 DEF Cells
  <2> QED
    BY <1>2, <2>1 DEF IInv, EepromOK
<1> QED
  BY <1>2, <1>4, <1>5

LEMMA WriteCellInv ==
  ASSUME IInv, NEW t \in Threads, WriteCell(t)
  PROVE  IInv'
<1>1. PICK c \in put[t].left :
        /\ put[t].left # {c}
        /\ eeprom' = [eeprom EXCEPT ![c] = Cell(put[t].image, c)]
        /\ put' = [put EXCEPT ![t].left = @ \ {c}]
  BY DEF WriteCell
<1>2. UNCHANGED <<ram, loop, http, setup_mode, listening, overlap, loadable, secrets, asked>>
  BY DEF WriteCell
<1>3. put \in [Threads -> [image : Settings, left : SUBSET Cells]] /\ Putting(t) /\ c \in Cells
  BY <1>1 DEF IInv, TypeOK, Putting
<1>4. /\ put' \in [Threads -> [image : Settings, left : SUBSET Cells]]
      /\ put'[t].left = put[t].left \ {c}
      /\ \A u \in Threads : /\ put'[u].image = put[u].image
                            /\ u # t => put'[u].left = put[u].left
  BY <1>1, <1>3
<1>5. \A u \in Threads : put'[u].left # {} <=> Putting(u)
  BY <1>1, <1>3, <1>4 DEF Putting
<1>6. /\ eeprom' = [d \in Cells |-> eeprom'[d]]
      /\ \A d \in Cells : eeprom'[d] = IF d = c THEN Cell(put[t].image, c) ELSE eeprom[d]
      /\ \/ \E r \in loadable : eeprom'["head"] = Head(5, r) /\ r["ota"] \in secrets \cup {Unset}
         \/ \E r \in loadable : eeprom'["head"] = Head(4, V4(r)) /\ r["ota"] = Unset
         \/ eeprom'["head"] = Head(0, V4(Defaults))
  BY <1>1, <1>3, CellWritten
<1>7. TypeOK'
  BY <1>2, <1>4, <1>6 DEF IInv, TypeOK
<1>8. EepromOK'
  <2>1. Defaults \in loadable
    BY <1>3 DEF IInv, PutsOK
  <2> QED
    BY <1>2, <1>6, <2>1 DEF EepromOK
<1>9. PutsOK'
  <2> SUFFICES ASSUME NEW u \in Threads, put'[u].left # {}, ~overlap
               PROVE  Written(u)' /\ ~(put'[Other(u)].left # {})
    BY <1>2, <1>4, <1>5 DEF IInv, PutsOK, Putting
  <2>1. Written(u) /\ ~Putting(Other(u))
    BY <1>5 DEF IInv, PutsOK
  <2>2. u = t
    BY <1>3, <2>1 DEF Other, Threads
  <2>3. Written(u)'
    BY <1>4, <1>6, <2>1, <2>2 DEF Written
  <2> QED
    BY <1>5, <2>1, <2>3 DEF Other, Threads
<1>10. ModesOK'
  BY <1>2, <1>5 DEF IInv, ModesOK, Putting, Threads
<1>11. RamOK'
  <2>1. loop = "idle" => http # Idle
    BY <1>3 DEF IInv, ModesOK, Idle, Threads
  <2> QED
    BY <1>2, <1>4, <2>1 DEF IInv, RamOK, RamIsStored, Threads
<1>12. SecretsOK'
  BY <1>2 DEF IInv, SecretsOK, SecretFollowsProv
<1> QED
  BY <1>7, <1>8, <1>9, <1>10, <1>11, <1>12 DEF IInv

LEMMA WriteLastCellInv ==
  ASSUME IInv, NEW t \in Threads, WriteLastCell(t)
  PROVE  IInv'
<1> USE DefaultsLegal
<1>1. PICK c \in put[t].left :
        put[t].left = {c} /\ eeprom' = [eeprom EXCEPT ![c] = Cell(put[t].image, c)]
  BY DEF WriteLastCell
<1>2. /\ put' = [put EXCEPT ![t] = NoPut]
      /\ loadable' = IF overlap THEN loadable ELSE {put[t].image}
      /\ IF t = "http"
         THEN http' = Idle /\ loop' = loop /\ secrets' = secrets
         ELSE /\ loop' = IF loop \in {"provSave", "resetSave"} THEN "reset" ELSE "idle"
              /\ secrets' = IF loop = "provSave" THEN {asked} ELSE secrets
              /\ http' = http
      /\ ram' = ram /\ setup_mode' = setup_mode /\ listening' = listening
      /\ overlap' = overlap /\ asked' = asked
  BY DEF WriteLastCell
<1>3. put \in [Threads -> [image : Settings, left : SUBSET Cells]] /\ Putting(t) /\ c \in Cells
  BY <1>1 DEF IInv, TypeOK, Putting
<1>4. /\ put' \in [Threads -> [image : Settings, left : SUBSET Cells]] /\ put'[t].left = {}
      /\ \A u \in Threads : u # t => put'[u] = put[u]
  BY <1>2, <1>3 DEF NoPut
<1>5. /\ eeprom' = [d \in Cells |-> eeprom'[d]]
      /\ \A d \in Cells : eeprom'[d] = IF d = c THEN Cell(put[t].image, c) ELSE eeprom[d]
      /\ \/ \E r \in loadable : eeprom'["head"] = Head(5, r) /\ r["ota"] \in secrets \cup {Unset}
         \/ \E r \in loadable : eeprom'["head"] = Head(4, V4(r)) /\ r["ota"] = Unset
         \/ eeprom'["head"] = Head(0, V4(Defaults))
  BY <1>1, <1>3, CellWritten
<1>6. /\ put[t].image \in loadable /\ Defaults \in loadable /\ put[t].image \in Settings
      /\ put[t].image["ota"] \in secrets \cup {Unset}
      /\ overlap \/ (Written(t) /\ ~Putting(Other(t)))
  BY <1>3 DEF IInv, PutsOK
<1>7. ~overlap => eeprom' = Stored(put[t].image)
  BY <1>1, <1>5, <1>6 DEF Written, Stored
<1>8. /\ loop = "provSave" /\ t = "loop" =>
           ~overlap /\ put[t].image = ram /\ ram["ota"] = asked /\ ram' = ram
      /\ t = "loop" => loop \in {"initSave", "postSave", "provSave", "resetSave"}
      /\ t = "http" => http.pc = "save"
  BY <1>2, <1>3 DEF IInv, ModesOK, RamOK, SecretsOK
<1>9. TypeOK'
  <2>1. loadable' \subseteq Settings /\ loadable' # {} /\ DOMAIN eeprom' = Cells
    BY <1>2, <1>5, <1>6 DEF IInv, TypeOK
  <2>2. loop' \in LoopStates /\ http' \in [pc : {"idle", "copyPass", "save"},
                                           pass : {Unset} \cup {q.pass : q \in Queries}]
    BY <1>2 DEF IInv, TypeOK, LoopStates, Idle
  <2>3. secrets' \subseteq {Unset} \cup {l.ota : l \in Lines}
    BY <1>2 DEF IInv, TypeOK
  <2> QED
    BY <1>2, <1>4, <2>1, <2>2, <2>3 DEF IInv, TypeOK
<1>10. EepromOK'
  <2>1. CASE overlap
    <3>1. loadable' = loadable /\ secrets' = secrets
      BY <1>2, <1>8, <2>1 DEF Threads
    <3> QED
      BY <1>5, <1>6, <3>1 DEF EepromOK
  <2>2. CASE ~overlap
    <3>1. loadable' = {put[t].image} /\ put[t].image["ota"] \in secrets' \cup {Unset}
      BY <1>2, <1>6, <1>8, <2>2 DEF Threads
    <3>2. eeprom' = Stored(put[t].image)
      BY <1>7, <2>2
    <3>3. Valid(eeprom') /\ eeprom'["head"] = Head(5, put[t].image)
      BY <1>6, <3>2, StoredIsValid
    <3>4. Valid(eeprom)'
      BY <3>3 DEF Valid, Payload
    <3> QED
      BY <1>5, <3>1, <3>3, <3>4 DEF EepromOK
  <2> QED
    BY <2>1, <2>2
<1>11. PutsOK'
  <2> SUFFICES ASSUME NEW u \in Threads, put'[u].left # {}
               PROVE  /\ put'[u].image \in loadable' /\ Defaults \in loadable'
                      /\ put'[u].image["ota"] \in secrets' \cup {Unset}
                      /\ overlap'
    BY DEF PutsOK, Putting
  <2>1. u # t /\ put'[u] = put[u] /\ Putting(u) /\ t = Other(u) /\ u = Other(t)
    BY <1>4 DEF Putting, Other, Threads
  <2>2. overlap
    BY <1>6, <2>1
  <2>3. secrets' = secrets
    BY <1>2, <1>8, <2>2 DEF Threads
  <2> QED
    BY <1>2, <2>1, <2>2, <2>3 DEF IInv, PutsOK
<1>12. ModesOK'
  <2>1. CASE t = "http"
    <3>1. put'["http"].left = {} /\ put'["loop"].left = put["loop"].left
      BY <1>4, <2>1 DEF Threads
    <3> QED
      BY <1>2, <2>1, <3>1 DEF IInv, ModesOK, Putting, Idle
  <2>2. CASE t = "loop"
    <3>1. put'["loop"].left = {} /\ put'["http"].left = put["http"].left
      BY <1>4, <2>2 DEF Threads
    <3>2. loop' \in {"idle", "reset"} /\ (loop' = "idle" => loop # "resetSave")
      BY <1>2, <2>2
    <3>3. loop' = "idle" => ~overlap
      BY <1>8, <2>2, <3>2 DEF IInv, ModesOK
    <3>4. http' = http /\ listening' = listening /\ overlap' = overlap
      BY <1>2, <2>2
    <3> QED
      BY <3>1, <3>2, <3>3, <3>4 DEF IInv, ModesOK, Putting
  <2> QED
    BY <2>1, <2>2 DEF Threads
<1>13. RamOK'
  <2>1. ASSUME loop' = "idle", http' = Idle PROVE RamIsStored'
    <3>1. ~overlap /\ put[t].image = ram
      BY <1>2, <1>8, <2>1 DEF IInv, ModesOK, RamOK, Threads
    <3>2. eeprom' = Stored(ram)
      BY <1>7, <3>1
    <3>3. Valid(eeprom') /\ Payload(eeprom') = ram
      BY <1>6, <3>1, <3>2, StoredIsValid
    <3> QED
      BY <1>2, <3>3 DEF RamIsStored, Valid, Payload
  <2>2. loop' = "idle" => ~(http'.pc = "save" /\ t = "loop")
    BY <1>2, <1>8 DEF IInv, ModesOK, Idle
  <2>3. loop' = "idle" /\ http'.pc = "save" => put'["http"].image = ram'
    BY <1>2, <1>4, <2>2 DEF IInv, RamOK, Threads, Idle
  <2>4. loop' \in {"initSave", "postSave", "provSave"} => put'["loop"].image = ram'
    BY <1>2, <1>4 DEF IInv, RamOK, Threads
  <2>5. RamIsStored'
    BY <2>1 DEF RamIsStored
  <2> QED
    BY <2>3, <2>4, <2>5 DEF RamOK
<1>14. SecretsOK'
  <2>1. loop # "boot" /\ (loop' = "provSave" => loop = "provSave")
    BY <1>2, <1>3 DEF IInv, ModesOK, Idle, Threads
  <2>2. ram' = ram /\ ram.ota \in secrets' \cup {Unset}
    BY <1>2, <1>8, <2>1 DEF IInv, SecretsOK, SecretFollowsProv, Threads
  <2> QED
    BY <1>2, <2>1, <2>2 DEF IInv, SecretsOK, SecretFollowsProv
<1> QED
  BY <1>9, <1>10, <1>11, <1>12, <1>13, <1>14 DEF IInv

LEMMA ResetInv == IInv /\ Reset => IInv'
<1> SUFFICES ASSUME IInv, Reset PROVE IInv'
  OBVIOUS
<1> USE DefaultsLegal
<1>1. /\ ram' = Defaults /\ loop' = "boot" /\ http' = Idle /\ put' = [t \in Threads |-> NoPut]
      /\ setup_mode' = FALSE /\ listening' = FALSE /\ overlap' = FALSE
      /\ UNCHANGED <<eeprom, loadable, secrets, asked>>
  BY DEF Reset
<1>2. TypeOK'
  BY <1>1 DEF IInv, TypeOK, LoopStates, Idle, NoPut
<1>3. EepromOK'
  BY <1>1 DEF IInv, EepromOK, Valid, Upgradable, Payload, V4
<1>4. \A t \in Threads : put'[t].left = {}
  BY <1>1 DEF NoPut
<1>5. PutsOK'
  BY <1>4 DEF PutsOK, Putting
<1>6. ModesOK'
  BY <1>1, <1>4 DEF ModesOK, Putting, Idle, Threads
<1>7. RamOK' /\ SecretsOK'
  BY <1>1 DEF RamOK, RamIsStored, SecretsOK, SecretFollowsProv
<1> QED
  BY <1>2, <1>3, <1>5, <1>6, <1>7 DEF IInv

LEMMA ListeningChangesInv == IInv /\ ListeningChanges => IInv'
<1> SUFFICES ASSUME IInv, ListeningChanges PROVE IInv'
  OBVIOUS
<1>1. /\ loop = "idle" /\ http = Idle /\ listening' = ~listening
      /\ UNCHANGED <<ram, eeprom, loop, http, put, setup_mode, overlap, loadable, secrets, asked>>
  BY DEF ListeningChanges
<1>2. TypeOK'
  BY <1>1 DEF IInv, TypeOK
<1>3. EepromOK' /\ PutsOK'
  BY <1>1 DEF IInv, EepromOK, PutsOK, Written, Putting, Valid, Upgradable, Payload, V4
<1>4. ModesOK'
  BY <1>1 DEF IInv, ModesOK, Putting, Idle
<1>5. RamOK' /\ SecretsOK'
  BY <1>1 DEF IInv, RamOK, RamIsStored, Valid, Payload, SecretsOK, SecretFollowsProv
<1> QED
  BY <1>2, <1>3, <1>4, <1>5 DEF IInv

LEMMA StutterInv == IInv /\ UNCHANGED vars => IInv'
<1> SUFFICES ASSUME IInv, UNCHANGED vars PROVE IInv'
  OBVIOUS
<1>1. TypeOK' /\ EepromOK'
  <2>1. TypeOK'
    BY DEF IInv, vars, TypeOK
  <2>2. EepromOK'
    BY DEF IInv, vars, EepromOK, Valid, Upgradable, Payload, V4
  <2> QED
    BY <2>1, <2>2
<1>2. PutsOK' /\ ModesOK'
  BY DEF IInv, vars, PutsOK, Written, Putting, ModesOK
<1>3. RamOK' /\ SecretsOK'
  BY DEF IInv, vars, RamOK, RamIsStored, Valid, Payload, SecretsOK, SecretFollowsProv
<1> QED
  BY <1>1, <1>2, <1>3 DEF IInv

LEMMA NextInv == IInv /\ [Next]_vars => IInv'
<1> SUFFICES ASSUME IInv, [Next]_vars PROVE IInv'
  OBVIOUS
<1>1. CASE BootValid
  BY <1>1, BootValidInv
<1>2. CASE BootUpgrade
  BY <1>2, BootUpgradeInv
<1>3. CASE BootDefaults
  BY <1>3, BootDefaultsInv
<1>4. ASSUME NEW form \in Forms, HandleApiSettingsPost(form) PROVE IInv'
  BY <1>4, HandleApiSettingsPostInv
<1>5. ASSUME NEW line \in Lines, TickSerialProvision(line) PROVE IInv'
  BY <1>5, TickSerialProvisionInv
<1>6. CASE ResetWifiSettings
  BY <1>6, ResetWifiSettingsInv
<1>7. CASE ResetWifiSave
  BY <1>7, ResetWifiSaveInv
<1>8. CASE HandleSoftApSave
  BY <1>8, HandleSoftApSaveInv
<1>9. CASE HandleSoftApSavePass
  BY <1>9, HandleSoftApSavePassInv
<1>10. ASSUME NEW t \in Threads, WriteCell(t) PROVE IInv'
  BY <1>10, WriteCellInv
<1>11. ASSUME NEW t \in Threads, WriteLastCell(t) PROVE IInv'
  BY <1>11, WriteLastCellInv
<1>12. CASE Reset
  BY <1>12, ResetInv
<1>13. CASE ListeningChanges
  BY <1>13, ListeningChangesInv
<1>14. CASE UNCHANGED vars
  BY <1>14, StutterInv
<1> QED
  BY <1>1, <1>2, <1>3, <1>4, <1>5, <1>6, <1>7, <1>8, <1>9, <1>10, <1>11, <1>12, <1>13, <1>14 DEF Next

LEMMA Invariance == Spec => []IInv
<1>1. Init => IInv
  BY InitInv
<1>2. IInv /\ [Next]_vars => IInv'
  BY NextInv
<1> QED
  BY <1>1, <1>2, PTL DEF Spec

-----------------------------------------------------------------------------
(* What follows.                                                           *)

\* Whatever a form carries, the record in use and every image of it that is
\* saved stay within their ranges, through boot, handlers, saves and resets.
THEOREM TypeCorrect == Spec => []TypeOK
<1>1. IInv => TypeOK
  BY DEF IInv
<1> QED
  BY <1>1, Invariance, PTL

\* With no handler under way EEPROM holds a valid copy of the settings in use,
\* whichever thread saved last and however boot came by them.
THEOREM EepromHoldsRam == Spec => []RamIsStored
<1>1. IInv => RamIsStored
  BY DEF IInv, RamOK
<1> QED
  BY <1>1, Invariance, PTL

\* The update secret in use is never one an earlier PROV line had set, although
\* the other writers save the record it is part of.
THEOREM SecretIsProvs == Spec => []SecretFollowsProv
<1>1. IInv => SecretFollowsProv
  BY DEF IInv, SecretsOK
<1> QED
  BY <1>1, Invariance, PTL

\* Boot never takes up a mixture of two records, wherever the power went while
\* one thread, or both, wrote cells in any order.
THEOREM BootTakesWhole == Spec => BootIsWhole
<1> DEFINE Whole == loop = "boot" /\ loop' # "boot" => ram' \in loadable
<1>1. IInv /\ [Next]_vars => [Whole]_vars
  <2> SUFFICES ASSUME IInv, Next, loop = "boot", loop' # "boot" PROVE ram' \in loadable
    BY DEF Whole
  <2>1. BootValid \/ BootUpgrade \/ BootDefaults
    <3>1. ~Putting("loop") /\ ~Putting("http") /\ http = Idle
      BY BootIsAlone
    <3>2. /\ \A form \in Forms : ~HandleApiSettingsPost(form)
          /\ \A line \in Lines : ~TickSerialProvision(line)
          /\ ~ResetWifiSettings /\ ~ResetWifiSave /\ ~HandleSoftApSave /\ ~Reset /\ ~ListeningChanges
      BY DEF HandleApiSettingsPost, TickSerialProvision, ResetWifiSettings, ResetWifiSave,
             HandleSoftApSave, Reset, ListeningChanges
    <3>3. ~HandleSoftApSavePass
      BY <3>1 DEF HandleSoftApSavePass, Idle
    <3>4. ASSUME NEW t \in Threads PROVE ~WriteCell(t) /\ ~WriteLastCell(t)
      BY <3>1 DEF WriteCell, WriteLastCell, Putting, Threads
    <3> QED
      BY <3>2, <3>3, <3>4 DEF Next
  <2>2. CASE BootValid
    <3>1. ram' = Sanitize(Payload(eeprom)) /\ Valid(eeprom)
      BY <2>2 DEF BootValid
    <3> QED
      BY <3>1, BootFinds, SanitizeClean
  <2> QED
    BY <2>1, <2>2, BootUpgradeInv, BootDefaultsInv
<1> QED
  BY <1>1, Invariance, PTL DEF Spec, BootIsWhole, Whole
=============================================================================
