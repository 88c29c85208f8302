-------------------------- MODULE ConfigStore_proofs --------------------------
(* Theorems about ConfigStore, for every value of its constants. *)
EXTENDS ConfigStore, TLAPS

-----------------------------------------------------------------------------
(* The groups and their keys *)

LEMMA FiveGroups == Groups = {"hostname", "wifi", "mqtt", "somfy", "cover"}
  BY DEF Groups, Order

LEMMA KeysOfEach ==
  /\ KeysOf("hostname") = {"hostname"}
  /\ KeysOf("wifi") = {"wifi_ssid", "wifi_pass"}
  /\ KeysOf("mqtt") = {"mqtt_url", "mqtt_user", "mqtt_pass"}
  /\ KeysOf("somfy") = {"remote_addr", "tx_gpio", "pub_ivl"}
  /\ KeysOf("cover") = {"cover_dn"}
  BY DEF KeysOf, Order

(* A save goes through the keys of its group from the first to the last,   *)
(* and no key belongs to two groups.                                       *)
LEMMA OrderOfKeys ==
  ASSUME NEW g \in Groups
  PROVE  /\ Len(Order[g]) \in Nat \ {0}
         /\ KeysOf(g) = {Order[g][i] : i \in 1..Len(Order[g])}
         /\ KeysOf(g) \subseteq Keys
         /\ \A h \in Groups \ {g} : KeysOf(g) \cap KeysOf(h) = {}
<1>1. Len(Order[g]) \in Nat \ {0} /\ DOMAIN Order[g] = 1..Len(Order[g])
  BY FiveGroups DEF Order
<1>2. ASSUME NEW h \in Groups \ {g} PROVE KeysOf(g) \cap KeysOf(h) = {}
  BY FiveGroups, KeysOfEach
<1> QED
  BY ZenonT(30), <1>1, <1>2 DEF KeysOf, Keys

-----------------------------------------------------------------------------
(* Values within their limits *)

Addresses24 == 1..2 ^ 24 - 1
Periods == 5..3600

(* What config_manager and the forms let a setting be.                     *)
Fits(k, v) ==
  /\ v \in Nat
  /\ k = "hostname"    => v # 0
  /\ k = "remote_addr" => v \in Addresses24
  /\ k = "tx_gpio"     => v \in 0..33
  /\ k = "pub_ivl"     => v \in Periods
  /\ k = "cover_dn"    => v \in 0..1

LEMMA PeriodIsSet == \A v \in Periods : v \in Nat /\ v # 0
  BY DEF Periods

LEMMA AddressIsSet == \A v \in Addresses24 : v \in Nat /\ v # 0
  BY DEF Addresses24

(* What fits, key by key.                                                  *)
LEMMA FitsText ==
  ASSUME NEW k \in {"wifi_ssid", "wifi_pass", "mqtt_url", "mqtt_user", "mqtt_pass"}, NEW v
  PROVE  Fits(k, v) <=> v \in Nat
  BY DEF Fits

LEMMA FitsHostname == ASSUME NEW v PROVE Fits("hostname", v) <=> v \in Nat /\ v # 0
  BY DEF Fits

LEMMA FitsAddress == ASSUME NEW v PROVE Fits("remote_addr", v) <=> v \in Addresses24
  BY AddressIsSet DEF Fits

LEMMA FitsPin == ASSUME NEW v PROVE Fits("tx_gpio", v) <=> v \in 0..33
  BY DEF Fits

LEMMA FitsInterval == ASSUME NEW v PROVE Fits("pub_ivl", v) <=> v \in Periods
  BY PeriodIsSet DEF Fits

LEMMA FitsCover == ASSUME NEW v PROVE Fits("cover_dn", v) <=> v \in 0..1
  BY DEF Fits

LEMMA FitsNat == ASSUME NEW k, NEW v, Fits(k, v) PROVE v \in Nat /\ v # None
<1>1. v \in Nat
  BY DEF Fits
<1> QED
  BY <1>1 DEF None

LEMMA DefaultFits == ASSUME NEW k \in Keys PROVE Fits(k, Default[k])
<1>1. k = "remote_addr" => Default[k] = 1184521
  BY DEF Default
<1>2. 1184521 \in Addresses24
  BY DEF Addresses24
<1>3. k = "pub_ivl" => Default[k] \in Periods
  BY DEF Default, Periods
<1>4. /\ k = "hostname" => Default[k] # 0
      /\ k = "tx_gpio" => Default[k] \in 0..33
      /\ k = "cover_dn" => Default[k] \in 0..1
  BY DEF Default, DEF_HOSTNAME
<1>5. Default[k] \in Nat
  BY DEF Default, DEF_HOSTNAME
<1> QED
  BY <1>1, <1>2, <1>3, <1>4, <1>5 DEF Fits

(* A value that fits is read back as it was stored; anything else in flash *)
(* is a missing key, which reads as its default.                           *)
LEMMA LoadOfKey ==
  ASSUME NEW f, NEW k \in Keys, f[k] = None \/ Fits(k, f[k])
  PROVE  /\ Fits(k, Load(f)[k])
         /\ f[k] # None => Load(f)[k] = f[k]
<1>1. Load(f)[k] = IF f[k] = None \/ (f[k] = 0 /\ k \in ZeroIsUnset)
                  THEN Default[k] ELSE f[k]
  BY Zenon DEF Load
<1>2. f[k] # None /\ k \in ZeroIsUnset => f[k] # 0
  <2>1. ASSUME NEW v, Fits(k, v), k \in ZeroIsUnset PROVE v # 0
    <3>1. k = "hostname" => v # 0
      BY <2>1, FitsHostname
    <3>2. k = "remote_addr" => v # 0
      BY <2>1, FitsAddress, AddressIsSet
    <3>3. k = "pub_ivl" => v # 0
      BY <2>1, FitsInterval, PeriodIsSet
    <3> QED
      BY <2>1, <3>1, <3>2, <3>3 DEF ZeroIsUnset
  <2> QED
    BY <2>1
<1> QED
  BY <1>1, <1>2, DefaultFits

LEMMA LoadIsFunction ==
  ASSUME NEW f, \A k \in Keys : f[k] = None \/ Fits(k, f[k])
  PROVE  Load(f) \in [Keys -> Nat]
<1>1. ASSUME NEW k \in Keys PROVE Load(f)[k] \in Nat
  BY LoadOfKey, FitsNat
<1> QED
  BY <1>1 DEF Load

-----------------------------------------------------------------------------
(* The type invariant *)

Contents == UNION {[KeysOf(g) -> Nat] : g \in Groups}
SaveType == [group : Groups, new : Contents, next : Nat \ {0}, keeps : BOOLEAN,
             failed : BOOLEAN]

(* Every copy of a setting is within its limits, the values that a save    *)
(* has in hand included: TypeOK is inductive only with this.               *)
AllFit ==
  /\ \A k \in Keys : nvs[k] = None \/ Fits(k, nvs[k])
  /\ \A k \in Keys : Fits(k, g_config[k])
  /\ save # NoSave => /\ save \in SaveType
                      /\ \A k \in KeysOf(save.group) : Fits(k, save.new[k])

Typed ==
  /\ nvs \in [Keys -> Nat \cup {None}]
  /\ g_config \in [Keys -> Nat]
  /\ save = NoSave \/ /\ save.group \in session
                      /\ save.new \in [KeysOf(save.group) -> Nat]
                      /\ save.next \in 1..Len(Order[save.group]) + 1
  /\ rebooting \in BOOLEAN
  /\ session \in Sessions /\ broken \subseteq session /\ apart \subseteq session
  /\ last \in [Groups -> Contents]
  /\ \A g \in Groups : last[g] \in [KeysOf(g) -> Nat]

TypeInv == Typed /\ AllFit

LEMMA SomeKeys ==
  /\ {"hostname", "wifi_ssid", "wifi_pass", "mqtt_url", "mqtt_user", "mqtt_pass",
      "remote_addr", "tx_gpio", "pub_ivl", "cover_dn"} = Keys
  BY FiveGroups, KeysOfEach DEF Keys

LEMMA TypeInvImplies == TypeInv => TypeOK
<1> SUFFICES ASSUME TypeInv PROVE TypeOK
  OBVIOUS
<1>1. /\ Fits("hostname", g_config["hostname"])
      /\ Fits("remote_addr", g_config["remote_addr"])
      /\ Fits("tx_gpio", g_config["tx_gpio"])
      /\ Fits("pub_ivl", g_config["pub_ivl"])
      /\ Fits("cover_dn", g_config["cover_dn"])
  BY SomeKeys DEF TypeInv, AllFit
<1>2. g_config["hostname"] # 0 /\ g_config["remote_addr"] \in 1..2 ^ 24 - 1
  BY Zenon, <1>1, FitsHostname, FitsAddress DEF Addresses24
<1>3. g_config["pub_ivl"] \in 5..3600
  <2>1. g_config["pub_ivl"] \in Periods
    BY Zenon, <1>1, FitsInterval
  <2> QED
    BY <2>1 DEF Periods
<1>4. g_config["tx_gpio"] \in 0..33 /\ g_config["cover_dn"] \in 0..1
  BY <1>1, FitsPin, FitsCover
<1>5. save # NoSave => save.keeps \in BOOLEAN /\ save.failed \in BOOLEAN
  BY DEF TypeInv, AllFit, SaveType
<1>6. save = NoSave \/ /\ save.group \in session
                       /\ save.new \in [KeysOf(save.group) -> Nat]
                       /\ save.next \in 1..Len(Order[save.group]) + 1
                       /\ save.keeps \in BOOLEAN /\ save.failed \in BOOLEAN
  BY Zenon, <1>5 DEF TypeInv, Typed
<1>7. /\ nvs \in [Keys -> Nat \cup {None}] /\ g_config \in [Keys -> Nat]
      /\ rebooting \in BOOLEAN
      /\ session \in Sessions /\ broken \subseteq session /\ apart \subseteq session
      /\ \A g \in Groups : last[g] \in [KeysOf(g) -> Nat]
  BY Zenon DEF TypeInv, Typed
<1>8. InLimits
  <2>1. g_config["hostname"] # 0
    BY <1>2
  <2>2. g_config["remote_addr"] \in 1..2 ^ 24 - 1
    BY <1>2
  <2>3. g_config["pub_ivl"] \in 5..3600
    BY <1>3
  <2> QED
    BY <2>1, <2>2, <2>3, <1>4 DEF InLimits
<1> QED
  BY <1>6, <1>7, <1>8 DEF TypeOK
-----------------------------------------------------------------------------
(* What a form asks to be saved *)

(* A begun save holds values that fit, and the stored password where none  *)
(* was typed.                                                              *)
GoodSave(g, new, keeps) ==
  /\ new \in [KeysOf(g) -> Nat]
  /\ \A k \in KeysOf(g) : Fits(k, new[k])
  /\ keeps \in BOOLEAN
  /\ keeps => g \in {"wifi", "mqtt"} /\ new[PasswordKey(g)] = g_config[PasswordKey(g)]

(* The number of a field that may be empty, and the address kept or taken.  *)
LEMMA GivenType ==
  ASSUME NEW k \in Keys, NEW n \in Nat \cup {None}, g_config \in [Keys -> Nat]
  PROVE  Given(n, k) \in Nat
  BY DEF Given

LEMMA RemoteFits ==
  ASSUME NEW n \in Nat \cup {None}, g_config \in [Keys -> Nat],
         Fits("remote_addr", g_config["remote_addr"])
  PROVE  Remote(n) \in Addresses24
<1> DEFINE given == Given(n, "remote_addr")
<1>1. given \in Nat
  BY GivenType, SomeKeys
<1>2. given % 2 ^ 24 \in 0..2 ^ 24 - 1
  BY <1>1
<1>3. g_config["remote_addr"] \in Addresses24
  BY FitsAddress
<1> HIDE DEF given
<1>4. given % 2 ^ 24 # 0 => given % 2 ^ 24 \in Addresses24
  BY <1>2 DEF Addresses24
<1> QED
  BY <1>3, <1>4 DEF Remote, given

(* FormBegins: a form begins one such save, or none at all.                 *)
LEMMA FormBegins ==
  ASSUME TypeInv, Form
  PROVE  \/ UNCHANGED <<nvs, g_config, save, history>> /\ rebooting' \in BOOLEAN
         \/ \E g \in Groups, new \in Contents, keeps \in BOOLEAN :
              GoodSave(g, new, keeps) /\ Begin(g, new, keeps)
<1> DEFINE Saves == \E g \in Groups, new \in Contents, keeps \in BOOLEAN :
                      GoodSave(g, new, keeps) /\ Begin(g, new, keeps)
<1> USE FiveGroups, KeysOfEach, SomeKeys DEF GoodSave, PasswordKey
<1>0. g_config \in [Keys -> Nat] /\ (\A k \in Keys : Fits(k, g_config[k]))
  BY DEF TypeInv, Typed, AllFit
<1>1. ASSUME NEW g \in Groups, NEW new, NEW keeps, GoodSave(g, new, keeps), Begin(g, new, keeps)
      PROVE  Saves
  <2>1. new \in Contents
    BY <1>1 DEF Contents
  <2> QED
    BY <1>1, <2>1
<1>2. ASSUME NEW a \in Texts, HostnamePost(a), a # 0 PROVE Saves
  <2>1. a \in Nat
    BY StoreAssumption
  <2>2. GoodSave("hostname", [hostname |-> a], FALSE)
    BY <1>2, <2>1, FitsHostname
  <2> QED
    BY <1>1, <1>2, <2>2 DEF HostnamePost
<1>3. ASSUME NEW a \in Texts, NEW p \in Passwords, WifiPost(a, p) PROVE Saves
  <2> DEFINE pass == IF p = 0 THEN g_config["wifi_pass"] ELSE p
             new  == [wifi_ssid |-> a, wifi_pass |-> pass]
  <2>1. a \in Nat /\ pass \in Nat
    BY <1>0, StoreAssumption
  <2>2. p = 0 => new[PasswordKey("wifi")] = g_config[PasswordKey("wifi")]
    OBVIOUS
  <2> HIDE DEF pass
  <2>3. GoodSave("wifi", new, p = 0)
    BY <2>1, <2>2, FitsText
  <2>4. Begin("wifi", new, p = 0)
    BY <1>3 DEF WifiPost, pass
  <2> HIDE DEF new
  <2> QED
    BY <1>1, <2>3, <2>4
<1>4. ASSUME NEW a \in Texts, NEW b \in Texts, NEW p \in Passwords, MqttPost(a, b, p)
      PROVE  Saves
  <2> DEFINE pass == IF p = 0 THEN g_config["mqtt_pass"] ELSE p
             new  == [mqtt_url |-> a, mqtt_user |-> b, mqtt_pass |-> pass]
  <2>1. a \in Nat /\ b \in Nat /\ pass \in Nat
    BY <1>0, StoreAssumption
  <2>2. p = 0 => new[PasswordKey("mqtt")] = g_config[PasswordKey("mqtt")]
    OBVIOUS
  <2> HIDE DEF pass
  <2>3. GoodSave("mqtt", new, p = 0)
    BY <2>1, <2>2, FitsText
  <2>4. Begin("mqtt", new, p = 0)
    BY <1>4 DEF MqttPost, pass
  <2> HIDE DEF new
  <2> QED
    BY <1>1, <2>3, <2>4
<1>5. ASSUME NEW r \in Numbers.remote_addr, NEW p \in Numbers.tx_gpio,
             NEW i \in Numbers.pub_ivl, SomfyPost(r, p, i)
      PROVE  Saves
  <2> DEFINE addr == Remote(r)
             pin  == Given(p, "tx_gpio") % 256
             pub  == Given(i, "pub_ivl")
             gpio == Clamp(pin, 0, 33)
             ivl  == Clamp(pub, 5, 3600)
             new  == [remote_addr |-> addr, tx_gpio |-> gpio, pub_ivl |-> ivl]
  <2>1. r \in Nat \cup {None} /\ p \in Nat \cup {None} /\ i \in Nat \cup {None}
    BY StoreAssumption
  <2>2. addr \in Addresses24
    BY <1>0, <2>1, RemoteFits
  <2>3. Given(p, "tx_gpio") \in Nat /\ Given(i, "pub_ivl") \in Nat
    BY <1>0, <2>1, GivenType
  <2>4. pin \in Nat /\ pub \in Nat
    BY <2>3
  <2> HIDE DEF pin, pub
  <2>5. gpio \in 0..33 /\ ivl \in Periods
    <3>1. gpio \in 0..33
      BY <2>4 DEF Clamp
    <3>2. ivl \in Periods
      BY <2>4 DEF Clamp, Periods
    <3> QED
      BY <3>1, <3>2
  <2> HIDE DEF addr, gpio, ivl
  <2>6. addr \in Nat /\ gpio \in Nat /\ ivl \in Nat
    BY <2>2, <2>5, AddressIsSet, PeriodIsSet
  <2>7. new \in [KeysOf("somfy") -> Nat]
    BY <2>6
  <2>8. Fits("remote_addr", addr) /\ Fits("tx_gpio", gpio) /\ Fits("pub_ivl", ivl)
    BY <2>2, <2>5, FitsAddress, FitsPin, FitsInterval
  <2>9. GoodSave("somfy", new, FALSE)
    BY <2>7, <2>8
  <2>10. Begin("somfy", new, FALSE)
    BY <1>5 DEF SomfyPost, Begin, addr, gpio, ivl, pin, pub
  <2> HIDE DEF new
  <2> QED
    BY <1>1, <2>9, <2>10
<1>6. ASSUME NEW d \in Numbers.cover_dn, CoverPost(d) PROVE Saves
  <2> DEFINE value == IF d = 0 THEN 0 ELSE 1
  <2>1. value \in 0..1
    OBVIOUS
  <2> HIDE DEF value
  <2>2. GoodSave("cover", [cover_dn |-> value], FALSE)
    BY <2>1, FitsCover
  <2> QED
    BY <1>1, <1>6, <2>2 DEF CoverPost, value
<1>7. ASSUME NEW a \in Texts, HostnamePost(a), a = 0
      PROVE  UNCHANGED <<nvs, g_config, save, history>> /\ rebooting' \in BOOLEAN
  BY <1>7 DEF HostnamePost
<1>8. CASE RebootPost
  BY <1>8 DEF RebootPost
<1> QED
  BY <1>2, <1>3, <1>4, <1>5, <1>6, <1>7, <1>8 DEF Form
-----------------------------------------------------------------------------
(* The steps of a save *)

(* SaveUnderWay: what is known of a save, and of the key it sets next.      *)
LEMMA SaveUnderWay ==
  ASSUME TypeInv, Saving
  PROVE  /\ save.group \in Groups /\ save.group \in session
         /\ save \in SaveType
         /\ save.new \in [KeysOf(save.group) -> Nat]
         /\ save.next \in 1..Len(Order[save.group]) + 1
         /\ ~AllSet => /\ save.next \in 1..Len(Order[save.group])
                       /\ Order[save.group][save.next] \in KeysOf(save.group)
         /\ AllSet => save.next - 1 = Len(Order[save.group])
         /\ KeysOf(save.group) \subseteq Keys
         /\ save # NoSave /\ save.group # "none"
<1>1. save \in SaveType /\ save.group \in session /\ save # NoSave
      /\ save.new \in [KeysOf(save.group) -> Nat]
      /\ save.next \in 1..Len(Order[save.group]) + 1
  BY DEF TypeInv, Typed, AllFit, Saving
<1>2. save.group \in Groups /\ save.group # "none"
  BY <1>1, FiveGroups DEF SaveType
<1>3. Len(Order[save.group]) \in Nat
  BY <1>2, OrderOfKeys
<1>4. ~AllSet => save.next \in 1..Len(Order[save.group])
  BY <1>1, <1>3 DEF AllSet
<1>5. AllSet => save.next - 1 = Len(Order[save.group])
  BY <1>1, <1>3 DEF AllSet
<1> QED
  BY <1>1, <1>2, <1>4, <1>5, OrderOfKeys

(* SetKeyOutcome: the next key is set or skipped, and no other changes.     *)
LEMMA SetKeyOutcome ==
  ASSUME TypeInv, SetKey
  PROVE  LET k == Order[save.group][save.next]
         IN  /\ save' \in SaveType
             /\ save'.group = save.group /\ save'.new = save.new
             /\ save'.keeps = save.keeps /\ save'.next = save.next + 1
             /\ save.failed => save'.failed
             /\ nvs' \in [Keys -> Nat \cup {None}]
             /\ \A j \in Keys \ {k} : nvs'[j] = nvs[j]
             /\ \/ nvs'[k] = save.new[k]
                \/ nvs'[k] = nvs[k] /\ save'.failed
<1> DEFINE k == Order[save.group][save.next]
<1>1. Saving /\ ~AllSet
  BY DEF SetKey
<1>2. /\ save \in SaveType /\ save.next \in Nat /\ k \in KeysOf(save.group) /\ k \in Keys
      /\ save.new[k] \in Nat
  BY <1>1, SaveUnderWay DEF SaveType
<1>3. nvs \in [Keys -> Nat \cup {None}]
  BY DEF TypeInv, Typed
<1> HIDE DEF k
<1>4. CASE nvs' = [nvs EXCEPT ![k] = save.new[k]] /\ save' = [save EXCEPT !.next = @ + 1]
  <2>1. /\ save' \in SaveType /\ save'.group = save.group /\ save'.new = save.new
        /\ save'.keeps = save.keeps /\ save'.next = save.next + 1
        /\ save'.failed = save.failed
    BY <1>2, <1>4 DEF SaveType
  <2>2. /\ nvs' \in [Keys -> Nat \cup {None}]
        /\ \A j \in Keys \ {k} : nvs'[j] = nvs[j]
        /\ nvs'[k] = save.new[k]
    BY <1>2, <1>3, <1>4
  <2> QED
    BY <2>1, <2>2 DEF k
<1>5. CASE save' = [save EXCEPT !.next = @ + 1, !.failed = TRUE] /\ nvs' = nvs
  <2>0. save' = [save EXCEPT !.next = @ + 1, !.failed = TRUE]
    BY <1>5
  <2>1. /\ save' \in SaveType /\ save'.group = save.group /\ save'.new = save.new
        /\ save'.keeps = save.keeps /\ save'.next = save.next + 1
        /\ save'.failed
    <3>1. save' \in SaveType
      <4>1. save.next + 1 \in Nat \ {0}
        BY <1>2
      <4>2. [save EXCEPT !.failed = TRUE] \in SaveType
        BY <1>2 DEF SaveType
      <4>3. save' = [[save EXCEPT !.failed = TRUE] EXCEPT !.next = save.next + 1]
        BY <1>2, <2>0 DEF SaveType
      <4> QED
        BY <4>1, <4>2, <4>3 DEF SaveType
    <3>2. /\ save'.group = save.group /\ save'.new = save.new
          /\ save'.keeps = save.keeps /\ save'.next = save.next + 1
      BY <1>2, <2>0 DEF SaveType
    <3>3. save'.failed
      BY <1>2, <2>0 DEF SaveType
    <3> QED
      BY <3>1, <3>2, <3>3
  <2>2. nvs' \in [Keys -> Nat \cup {None}] /\ nvs'[k] = nvs[k]
        /\ (\A j \in Keys \ {k} : nvs'[j] = nvs[j])
    BY <1>3, <1>5
  <2> QED
    BY <2>1, <2>2 DEF k
<1>6. \/ nvs' = [nvs EXCEPT ![k] = save.new[k]] /\ save' = [save EXCEPT !.next = @ + 1]
      \/ save' = [save EXCEPT !.next = @ + 1, !.failed = TRUE] /\ nvs' = nvs
  BY DEF SetKey, k
<1> QED
  BY <1>4, <1>5, <1>6 DEF k

(* CommitOutcome: RAM takes exactly the keys of the group.                  *)
LEMMA CommitOutcome ==
  ASSUME TypeInv, Commit
  PROVE  /\ g_config' \in [Keys -> Nat]
         /\ \A k \in KeysOf(save.group) : g_config'[k] = save.new[k]
         /\ \A k \in Keys \ KeysOf(save.group) : g_config'[k] = g_config[k]
<1>1. /\ save.new \in [KeysOf(save.group) -> Nat] /\ KeysOf(save.group) \subseteq Keys
      /\ g_config \in [Keys -> Nat] /\ g_config' = Merge(g_config, save.new)
  BY SaveUnderWay DEF Commit, TypeInv, Typed
<1> QED
  BY <1>1 DEF Merge

(* TypeInvariant: TypeOK with the limits of every value that is stored, in *)
(* use or about to be saved.                                               *)
THEOREM TypeInvariant == Spec => []TypeInv
<1>1. Init => TypeInv
  <2> SUFFICES ASSUME Init PROVE TypeInv
    OBVIOUS
  <2>1. nvs \in [Keys -> Nat \cup {None}] /\ (\A k \in Keys : nvs[k] = None)
    BY DEF Init
  <2>2. g_config \in [Keys -> Nat] /\ (\A k \in Keys : Fits(k, g_config[k]))
    BY <2>1, LoadIsFunction, LoadOfKey DEF Init
  <2>3. ASSUME NEW g \in Groups PROVE last[g] \in [KeysOf(g) -> Nat]
    BY <2>2, <2>3, OrderOfKeys DEF Init, Part
  <2>4. last \in [Groups -> Contents]
    BY <2>3 DEF Init, Contents
  <2> QED
    BY <2>1, <2>2, <2>3, <2>4 DEF Init, TypeInv, Typed, AllFit
<1>2. TypeInv /\ [Next]_vars => TypeInv'
  <2> SUFFICES ASSUME TypeInv, [Next]_vars PROVE TypeInv'
    OBVIOUS
  <2>0. Typed /\ AllFit
    BY DEF TypeInv
  <2>1. CASE Form
    <3>1. CASE UNCHANGED <<nvs, g_config, save, history>> /\ rebooting' \in BOOLEAN
      BY <2>0, <3>1 DEF TypeInv, Typed, AllFit, history
    <3>2. ASSUME NEW g \in Groups, NEW new \in Contents, NEW keeps \in BOOLEAN,
                 GoodSave(g, new, keeps), Begin(g, new, keeps)
          PROVE  TypeInv'
      <4>1. /\ save' \in SaveType /\ save'.group = g /\ save'.new = new
            /\ save'.next = 1
        BY <3>2 DEF Begin, SaveType
      <4>2. 1 \in 1..Len(Order[g]) + 1
        BY OrderOfKeys
      <4> QED
        BY <2>0, <3>2, <4>1, <4>2 DEF Begin, GoodSave, TypeInv, Typed, AllFit, history
    <3> QED
      BY <2>1, <3>1, <3>2, FormBegins
  <2>2. CASE SetKey
    <3> DEFINE k == Order[save.group][save.next]
    <3>1. /\ Saving /\ k \in KeysOf(save.group) /\ k \in Keys /\ save.group \in Groups
          /\ save.group \in session
          /\ save.next \in 1..Len(Order[save.group]) /\ save.new \in [KeysOf(save.group) -> Nat]
          /\ Len(Order[save.group]) \in Nat
      BY <2>2, SaveUnderWay, OrderOfKeys DEF SetKey
    <3>2. /\ save' \in SaveType /\ save'.group = save.group /\ save'.new = save.new
          /\ save'.next = save.next + 1 /\ nvs' \in [Keys -> Nat \cup {None}]
          /\ \A j \in Keys \ {k} : nvs'[j] = nvs[j]
          /\ nvs'[k] = save.new[k] \/ nvs'[k] = nvs[k]
      BY <2>2, SetKeyOutcome
    <3> HIDE DEF k
    <3>3. \A j \in KeysOf(save.group) : Fits(j, save.new[j])
      BY <2>0, <3>1 DEF AllFit, Saving
    <3>4. \A j \in Keys : nvs'[j] = None \/ Fits(j, nvs'[j])
      BY <2>0, <3>1, <3>2, <3>3 DEF AllFit
    <3>5. AllFit'
      BY <2>0, <2>2, <3>2, <3>3, <3>4 DEF AllFit, SetKey
    <3>6. save'.next \in 1..Len(Order[save'.group]) + 1
      BY <3>1, <3>2
    <3>7. /\ last' \in [Groups -> Contents]
          /\ \A g \in Groups : last'[g] \in [KeysOf(g) -> Nat]
      <4>1. last' = [last EXCEPT ![save.group] = save.new]
        BY <2>2 DEF SetKey
      <4>2. save.new \in Contents
        BY <3>1 DEF Contents
      <4> QED
        BY <2>0, <3>1, <4>1, <4>2 DEF Typed
    <3>8. UNCHANGED <<g_config, rebooting, session, broken, apart>>
      BY <2>2 DEF SetKey
    <3> QED
      BY <2>0, <3>1, <3>2, <3>5, <3>6, <3>7, <3>8 DEF TypeInv, Typed
  <2>3. CASE Commit
    <3>1. save.group \in session /\ KeysOf(save.group) \subseteq Keys /\ save # NoSave
      BY <2>3, SaveUnderWay DEF Commit
    <3>2. \A k \in Keys : Fits(k, g_config'[k])
      BY <2>0, <2>3, <3>1, CommitOutcome DEF AllFit
    <3>3. AllFit'
      BY <2>0, <2>3, <3>2 DEF AllFit, Commit, Finish
    <3>4. broken' \subseteq session /\ apart' \subseteq session
      BY <2>0, <2>3, <3>1 DEF Typed, Commit
    <3> QED
      BY <2>0, <2>3, <3>3, <3>4, CommitOutcome DEF TypeInv, Typed, Commit, Finish
  <2>4. CASE SaveFails
    <3>1. save.group \in session
      BY <2>4, SaveUnderWay DEF SaveFails
    <3>2. broken' \subseteq session /\ apart' \subseteq session
      BY <2>0, <2>4, <3>1 DEF Typed, SaveFails
    <3> QED
      BY <2>0, <2>4, <3>2 DEF TypeInv, Typed, AllFit, SaveFails, Finish
  <2>5. CASE Restart
    <3>1. /\ g_config' \in [Keys -> Nat]
          /\ \A k \in Keys : Fits(k, g_config'[k])
      BY <2>0, <2>5, LoadIsFunction, LoadOfKey DEF Restart, AllFit
    <3>2. Saving => save.group \in session
      BY SaveUnderWay
    <3>3. broken' \subseteq session /\ apart' \subseteq session
      BY <2>0, <2>5, <3>2 DEF Typed, Restart
    <3> QED
      BY <2>0, <2>5, <3>1, <3>3 DEF TypeInv, Typed, AllFit, Restart
  <2>6. CASE UNCHANGED vars
    BY <2>0, <2>6 DEF TypeInv, Typed, AllFit, vars, history
  <2> QED
    BY <2>1, <2>2, <2>3, <2>4, <2>5, <2>6 DEF Next, RebootTask, OtherRestart
<1> QED
  BY <1>1, <1>2, PTL DEF Spec

(* TypeCorrect: every variable has its type, and the settings in use stay  *)
(* within the limits of the forms, for any texts and numbers typed.        *)
THEOREM TypeCorrect == Spec => []TypeOK
  BY TypeInvariant, TypeInvImplies, PTL
-----------------------------------------------------------------------------
(* Flash while a save goes on *)

(* Two parts are one when they agree key by key.                           *)
LEMMA PartAgrees ==
  ASSUME NEW g, NEW f, NEW h
  PROVE  Part(f, g) = Part(h, g) <=> \A k \in KeysOf(g) : f[k] = h[k]
<1>1. ASSUME Part(f, g) = Part(h, g), NEW k \in KeysOf(g) PROVE f[k] = h[k]
  <2>1. Part(f, g)[k] = f[k] /\ Part(h, g)[k] = h[k]
    BY DEF Part
  <2> QED
    BY <1>1, <2>1
<1>2. ASSUME \A k \in KeysOf(g) : f[k] = h[k] PROVE Part(f, g) = Part(h, g)
  BY <1>2 DEF Part
<1> QED
  BY <1>1, <1>2

LEMMA PartIs ==
  ASSUME NEW g, NEW f, NEW new \in [KeysOf(g) -> Nat], \A k \in KeysOf(g) : f[k] = new[k]
  PROVE  Part(f, g) = new
  BY DEF Part

(* Load looks at one key at a time.                                        *)
LEMMA LoadSame ==
  ASSUME NEW f, NEW h, NEW k \in Keys, f[k] = h[k]
  PROVE  Load(f)[k] = Load(h)[k]
  BY DEF Load

(* Keys set so far hold the new value unless a call failed, and the last   *)
(* save to touch a group is the one under way.                             *)
WrittenSoFar ==
  Saving =>
    /\ ~save.failed =>
         \A i \in 1..save.next - 1 :
           nvs[Order[save.group][i]] = save.new[Order[save.group][i]]
    /\ save.next > 1 => last[save.group] = save.new

LEMMA WrittenStep ==
  ASSUME TypeInv, WrittenSoFar, [Next]_vars
  PROVE  WrittenSoFar'
<1>1. CASE Form
  <2>1. CASE UNCHANGED <<nvs, g_config, save, history>>
    BY <2>1 DEF WrittenSoFar, Saving, history
  <2>2. ASSUME NEW g \in Groups, NEW new \in Contents, NEW keeps \in BOOLEAN,
               Begin(g, new, keeps)
        PROVE  WrittenSoFar'
    BY <2>2 DEF Begin, WrittenSoFar
  <2> QED
    BY <1>1, <2>1, <2>2, FormBegins
<1>2. CASE SetKey
  <2> DEFINE key(i) == Order[save.group][i]
  <2>1. /\ Saving /\ save.group \in Groups /\ save.new \in [KeysOf(save.group) -> Nat]
        /\ save.next \in 1..Len(Order[save.group]) /\ Len(Order[save.group]) \in Nat
        /\ KeysOf(save.group) \subseteq Keys
    BY <1>2, SaveUnderWay, OrderOfKeys DEF SetKey
  <2>2. /\ save'.group = save.group /\ save'.new = save.new
        /\ save'.next = save.next + 1 /\ (save.failed => save'.failed)
        /\ \A j \in Keys \ {key(save.next)} : nvs'[j] = nvs[j]
        /\ \/ nvs'[key(save.next)] = save.new[key(save.next)]
           \/ nvs'[key(save.next)] = nvs[key(save.next)] /\ save'.failed
    BY <1>2, SetKeyOutcome
  <2>3. \A i \in 1..Len(Order[save.group]) : key(i) \in Keys
    BY <2>1, OrderOfKeys
  <2>4. ASSUME ~save'.failed, NEW i \in 1..save.next PROVE nvs'[key(i)] = save.new[key(i)]
    <3>1. CASE key(i) = key(save.next)
      BY <2>2, <2>4, <3>1
    <3>2. CASE key(i) # key(save.next)
      <4>1. i \in 1..save.next - 1 /\ key(i) \in Keys
        BY <2>1, <2>3, <3>2
      <4>2. nvs[key(i)] = save.new[key(i)]
        BY <2>1, <2>2, <2>4, <4>1 DEF WrittenSoFar
      <4> QED
        BY <2>2, <3>2, <4>1, <4>2
    <3> QED
      BY <3>1, <3>2
  <2>5. save'.next - 1 = save.next
    BY <2>1, <2>2
  <2>6. last'[save.group] = save.new
    BY <1>2, <2>1 DEF SetKey, TypeInv, Typed
  <2> HIDE DEF key
  <2>7. ~save'.failed => \A i \in 1..save'.next - 1 :
                            nvs'[Order[save'.group][i]] = save'.new[Order[save'.group][i]]
    BY <2>2, <2>4, <2>5 DEF key
  <2> QED
    BY <2>2, <2>6, <2>7 DEF WrittenSoFar
<1>3. CASE Commit \/ SaveFails \/ Restart
  BY <1>3 DEF Commit, SaveFails, Finish, Restart, WrittenSoFar, Saving
<1>4. CASE UNCHANGED vars
  BY <1>4 DEF vars, history, WrittenSoFar, Saving
<1> QED
  BY <1>1, <1>2, <1>3, <1>4 DEF Next, RebootTask, OtherRestart

(* WholeSave: when all keys are set and no call failed, a restart would     *)
(* load what the save was to store.                                        *)
LEMMA WholeSave ==
  ASSUME TypeInv, WrittenSoFar, Saving, AllSet, ~save.failed
  PROVE  /\ \A k \in KeysOf(save.group) : Load(nvs)[k] = save.new[k]
         /\ last[save.group] = save.new
<1>1. /\ save.group \in Groups /\ save.new \in [KeysOf(save.group) -> Nat]
      /\ save.next - 1 = Len(Order[save.group]) /\ save.next \in Nat
      /\ KeysOf(save.group) \subseteq Keys /\ Len(Order[save.group]) \in Nat \ {0}
      /\ KeysOf(save.group) = {Order[save.group][i] : i \in 1..Len(Order[save.group])}
  BY SaveUnderWay, OrderOfKeys DEF SaveType
<1>2. ASSUME NEW k \in KeysOf(save.group) PROVE Load(nvs)[k] = save.new[k]
  <2>1. PICK i \in 1..Len(Order[save.group]) : k = Order[save.group][i]
    BY <1>1
  <2>2. nvs[k] = save.new[k]
    BY <1>1, <2>1 DEF WrittenSoFar
  <2>3. k \in Keys /\ save.new[k] \in Nat /\ nvs[k] # None /\ (nvs[k] = None \/ Fits(k, nvs[k]))
    BY <1>1, <2>2 DEF TypeInv, AllFit, None
  <2> QED
    BY <2>2, <2>3, LoadOfKey
<1>3. save.next > 1
  BY <1>1
<1> QED
  BY <1>2, <1>3 DEF WrittenSoFar

(* SetKeyElsewhere: a save leaves the keys of the other groups alone.       *)
LEMMA SetKeyElsewhere ==
  ASSUME TypeInv, SetKey, NEW g \in Groups, g # save.group
  PROVE  Part(Load(nvs'), g) = Part(Load(nvs), g)
<1>1. /\ save.group \in Groups
      /\ Order[save.group][save.next] \in KeysOf(save.group)
  BY SaveUnderWay DEF SetKey
<1>2. \A j \in Keys \ {Order[save.group][save.next]} : nvs'[j] = nvs[j]
  BY SetKeyOutcome
<1>3. KeysOf(g) \subseteq Keys /\ KeysOf(g) \cap KeysOf(save.group) = {}
  BY <1>1, OrderOfKeys
<1>4. \A k \in KeysOf(g) : Load(nvs')[k] = Load(nvs)[k]
  BY <1>1, <1>2, <1>3, LoadSame
<1> QED
  BY <1>4, PartAgrees
-----------------------------------------------------------------------------
(* A save keeps RAM, flash and what was asked for together *)

LEMMA KeepsStep ==
  ASSUME TypeInv, WrittenSoFar, RestartKeeps, [Next]_vars
  PROVE  RestartKeeps'
<1> DEFINE Same(g) == Part(Load(nvs), g) = Part(g_config, g)
<1> SUFFICES ASSUME NEW g \in Groups, g \notin apart', ~Started(g)'
             PROVE  Same(g)'
  BY DEF RestartKeeps
<1>0. g \in apart \/ Started(g) \/ Same(g)
  BY DEF RestartKeeps
<1>1. CASE Form
  <2>1. UNCHANGED <<nvs, g_config, apart>> /\ ~Started(g)
    <3>1. CASE UNCHANGED <<nvs, g_config, save, history>>
      BY <3>1 DEF history, Started
    <3>2. ASSUME NEW h \in Groups, NEW new \in Contents, NEW keeps \in BOOLEAN,
                 Begin(h, new, keeps)
          PROVE  UNCHANGED <<nvs, g_config, apart>> /\ ~Started(g)
      BY <3>2, FiveGroups DEF Begin, history, Started, NoSave
    <3> QED
      BY <1>1, <3>1, <3>2, FormBegins
  <2> QED
    BY <1>0, <2>1
<1>2. CASE SetKey
  <2>1. g # save.group
    <3>1. save'.group = save.group /\ save'.next = save.next + 1
      BY <1>2, SetKeyOutcome
    <3>2. save.next \in Nat \ {0}
      BY <1>2, SaveUnderWay DEF SetKey, SaveType
    <3> QED
      BY <3>1, <3>2 DEF Started
  <2>2. Same(g) /\ UNCHANGED g_config
    BY <1>0, <1>2, <2>1 DEF SetKey, Started
  <2> QED
    BY <1>2, <2>1, <2>2, SetKeyElsewhere
<1>3. CASE Commit
  <2>0. Saving /\ AllSet /\ UNCHANGED nvs
    BY <1>3 DEF Commit
  <2>1. CASE g = save.group
    <3>1. ~save.failed
      BY <1>3, <2>1 DEF Commit
    <3>2. \A k \in KeysOf(g) : Load(nvs)[k] = save.new[k] /\ g_config'[k] = save.new[k]
      BY <1>3, <2>0, <2>1, <3>1, WholeSave, CommitOutcome
    <3>3. \A k \in KeysOf(g) : Load(nvs')[k] = g_config'[k]
      BY <2>0, <3>2
    <3> QED
      BY <3>3, PartAgrees
  <2>2. CASE g # save.group
    <3>1. g \notin apart /\ ~Started(g)
      BY <1>3, <2>2 DEF Commit, Started
    <3>2. save.group \in Groups
      BY <2>0, SaveUnderWay
    <3>3. \A k \in KeysOf(g) : k \in Keys \ KeysOf(save.group)
      BY <2>2, <3>2, OrderOfKeys
    <3>4. \A k \in KeysOf(g) : g_config'[k] = g_config[k]
      BY <1>3, <3>3, CommitOutcome
    <3>5. \A k \in KeysOf(g) : Load(nvs)[k] = g_config[k]
      BY <1>0, <3>1, PartAgrees
    <3>6. \A k \in KeysOf(g) : Load(nvs')[k] = g_config'[k]
      BY <2>0, <3>4, <3>5
    <3> QED
      BY <3>6, PartAgrees
  <2> QED
    BY <2>1, <2>2
<1>4. CASE SaveFails
  <2>1. Saving /\ (AllSet => save.group \in apart') /\ apart \subseteq apart'
        /\ UNCHANGED <<nvs, g_config>> /\ (save.next = 1 \/ AllSet)
    BY <1>4 DEF SaveFails
  <2>2. ~Started(g)
    BY <2>1 DEF Started
  <2> QED
    BY <1>0, <2>1, <2>2
<1>5. CASE Restart
  BY <1>5 DEF Restart
<1>6. CASE UNCHANGED vars
  BY <1>0, <1>6 DEF vars, history, Started
<1> QED
  BY <1>1, <1>2, <1>3, <1>4, <1>5, <1>6 DEF Next, RebootTask, OtherRestart

(* KeptByRestarts: for any texts, numbers and failures, the settings in use *)
(* are the ones a restart would load, but for the group being saved and    *)
(* those of which a call failed.                                           *)
THEOREM KeptByRestarts == Spec => []RestartKeeps
<1>1. Init => WrittenSoFar /\ RestartKeeps
  BY DEF Init, WrittenSoFar, Saving, RestartKeeps
<1>2. TypeInv /\ WrittenSoFar /\ RestartKeeps /\ [Next]_vars => WrittenSoFar' /\ RestartKeeps'
  BY WrittenStep, KeepsStep
<1> QED
  BY <1>1, <1>2, TypeInvariant, PTL DEF Spec

LEMMA OneSaveStep ==
  ASSUME TypeInv, WrittenSoFar, OneSave, [Next]_vars
  PROVE  OneSave'
<1> DEFINE Whole(g) == Part(Load(nvs), g) = last[g]
<1> SUFFICES ASSUME NEW g \in Groups, g \notin broken', ~Started(g)'
             PROVE  Whole(g)'
  BY DEF OneSave
<1>0. g \in broken \/ Started(g) \/ Whole(g)
  BY DEF OneSave
<1>1. CASE Form
  <2>1. UNCHANGED <<nvs, last, broken>> /\ ~Started(g)
    <3>1. CASE UNCHANGED <<nvs, g_config, save, history>>
      BY <3>1 DEF history, Started
    <3>2. ASSUME NEW h \in Groups, NEW new \in Contents, NEW keeps \in BOOLEAN,
                 Begin(h, new, keeps)
          PROVE  UNCHANGED <<nvs, last, broken>> /\ ~Started(g)
      BY <3>2, FiveGroups DEF Begin, history, Started, NoSave
    <3> QED
      BY <1>1, <3>1, <3>2, FormBegins
  <2> QED
    BY <1>0, <2>1
<1>2. CASE SetKey
  <2>1. g # save.group
    <3>1. save'.group = save.group /\ save'.next = save.next + 1
      BY <1>2, SetKeyOutcome
    <3>2. save.next \in Nat \ {0}
      BY <1>2, SaveUnderWay DEF SetKey, SaveType
    <3> QED
      BY <3>1, <3>2 DEF Started
  <2>2. Whole(g) /\ last'[g] = last[g]
    BY <1>0, <1>2, <2>1 DEF SetKey, Started, TypeInv, Typed
  <2> QED
    BY <1>2, <2>1, <2>2, SetKeyElsewhere
<1>3. CASE Saving /\ AllSet /\ ~save.failed /\ g = save.group /\ UNCHANGED <<nvs, last>>
  <2>1. save.new \in [KeysOf(g) -> Nat] /\ last[g] = save.new
        /\ \A k \in KeysOf(g) : Load(nvs)[k] = save.new[k]
    BY <1>3, SaveUnderWay, WholeSave
  <2> QED
    BY <1>3, <2>1, PartIs
<1>4. CASE Commit
  <2>1. Saving /\ AllSet /\ UNCHANGED <<nvs, last>>
        /\ (g = save.group => ~save.failed)
        /\ (g # save.group => g \notin broken)
    BY <1>4 DEF Commit
  <2>2. g # save.group => Whole(g)
    BY <1>0, <2>1 DEF Started
  <2> QED
    BY <1>3, <2>1, <2>2
<1>5. CASE SaveFails
  <2>1. Saving /\ UNCHANGED <<nvs, last>> /\ g \notin broken
        /\ (g = save.group => ~save.failed) /\ (save.next = 1 \/ AllSet)
    BY <1>5 DEF SaveFails
  <2>2. g # save.group \/ save.next = 1 => Whole(g)
    BY <1>0, <2>1 DEF Started
  <2> QED
    BY <1>3, <2>1, <2>2
<1>6. CASE Restart
  <2>1. UNCHANGED <<nvs, last>> /\ g \notin broken
        /\ (Started(g) /\ Saving => AllSet /\ ~save.failed)
    BY <1>6 DEF Restart, Started
  <2>2. Started(g) => Saving /\ g = save.group
    BY FiveGroups DEF Started, Saving, NoSave
  <2> QED
    BY <1>0, <1>3, <2>1, <2>2
<1>7. CASE UNCHANGED vars
  BY <1>0, <1>7 DEF vars, history, Started
<1> QED
  BY <1>1, <1>2, <1>4, <1>5, <1>6, <1>7 DEF Next, RebootTask, OtherRestart

(* NeverMixed: wherever a restart falls, flash holds the values of one save *)
(* of a group, unless that restart, or a failure, cut the save short; and  *)
(* the next whole save of the group mends it.                              *)
THEOREM NeverMixed == Spec => []OneSave
<1>1. Init => WrittenSoFar /\ OneSave
  BY DEF Init, WrittenSoFar, Saving, OneSave
<1>2. TypeInv /\ WrittenSoFar /\ OneSave /\ [Next]_vars => WrittenSoFar' /\ OneSave'
  BY WrittenStep, OneSaveStep
<1> QED
  BY <1>1, <1>2, TypeInvariant, PTL DEF Spec
-----------------------------------------------------------------------------
(* Passwords *)

(* A form with an empty password field saves the password it found, and    *)
(* while it does so flash goes on holding it.                              *)
PasswordKept ==
  Saving /\ save.keeps =>
    LET g == save.group
        k == PasswordKey(g)
    IN  /\ g \in {"wifi", "mqtt"}
        /\ save.new[k] = g_config[k]
        /\ g \in apart \/ Load(nvs)[k] = g_config[k]

LEMMA PasswordKeys ==
  ASSUME NEW g \in {"wifi", "mqtt"}
  PROVE  g \in Groups /\ PasswordKey(g) \in KeysOf(g) /\ PasswordKey(g) \in Keys
  BY FiveGroups, KeysOfEach, SomeKeys DEF PasswordKey

(* SetKeyKeeps: setting the kept password can only put it back in flash.   *)
LEMMA SetKeyKeeps ==
  ASSUME TypeInv, PasswordKept, SetKey, save.keeps
  PROVE  LET k == PasswordKey(save.group)
         IN  Load(nvs')[k] = Load(nvs)[k] \/ Load(nvs')[k] = g_config[k]
<1> DEFINE g == save.group
           k == PasswordKey(g)
           j == Order[g][save.next]
<1>1. g \in {"wifi", "mqtt"} /\ save.new[k] = g_config[k]
  BY DEF PasswordKept, SetKey
<1>2. k \in Keys /\ k \in KeysOf(g) /\ Fits(k, g_config[k])
  BY <1>1, PasswordKeys DEF TypeInv, AllFit
<1>3. /\ \A i \in Keys \ {j} : nvs'[i] = nvs[i]
      /\ nvs'[j] = save.new[j] \/ nvs'[j] = nvs[j]
  BY SetKeyOutcome
<1> HIDE DEF g, k, j
<1>4. CASE nvs'[k] = nvs[k]
  <2>1. Load(nvs')[k] = Load(nvs)[k]
    BY <1>2, <1>4, LoadSame
  <2> QED
    BY <2>1 DEF k, g
<1>5. CASE nvs'[k] = save.new[k]
  <2>1. nvs'[k] # None /\ Fits(k, nvs'[k])
    BY <1>1, <1>2, <1>5, FitsNat
  <2> QED
    BY <1>1, <1>2, <1>5, <2>1, LoadOfKey DEF k, g
<1>6. nvs'[k] = nvs[k] \/ nvs'[k] = save.new[k]
  BY <1>2, <1>3
<1> QED
  BY <1>4, <1>5, <1>6 DEF k, g

LEMMA PasswordStep ==
  ASSUME TypeInv, RestartKeeps, PasswordKept, [Next]_vars
  PROVE  PasswordKept'
<1>1. CASE Form
  <2>1. CASE UNCHANGED <<nvs, g_config, save, history>>
    BY <2>1 DEF history, PasswordKept, Saving
  <2>2. ASSUME NEW g \in Groups, NEW new \in Contents, NEW keeps \in BOOLEAN,
               GoodSave(g, new, keeps), Begin(g, new, keeps)
        PROVE  PasswordKept'
    <3>1. /\ save'.group = g /\ save'.new = new /\ save'.keeps = keeps
          /\ save = NoSave /\ UNCHANGED <<nvs, g_config, apart>>
      BY <2>2 DEF Begin, history
    <3>2. ~Started(g)
      BY <3>1 DEF Started, NoSave
    <3>3. g \in apart \/ \A k \in KeysOf(g) : Load(nvs)[k] = g_config[k]
      BY <3>2, PartAgrees DEF RestartKeeps
    <3>4. keeps => g \in {"wifi", "mqtt"} /\ PasswordKey(g) \in KeysOf(g)
                   /\ new[PasswordKey(g)] = g_config[PasswordKey(g)]
      BY <2>2, PasswordKeys DEF GoodSave
    <3> QED
      BY <3>1, <3>3, <3>4 DEF PasswordKept
  <2> QED
    BY <1>1, <2>1, <2>2, FormBegins
<1>2. CASE SetKey
  <2>1. /\ save'.group = save.group /\ save'.new = save.new /\ save'.keeps = save.keeps
        /\ UNCHANGED <<g_config, apart>> /\ Saving
    BY <1>2, SetKeyOutcome DEF SetKey
  <2> QED
    BY <1>2, <2>1, SetKeyKeeps DEF PasswordKept
<1>3. CASE Commit \/ SaveFails \/ Restart
  BY <1>3 DEF Commit, SaveFails, Finish, Restart, PasswordKept, Saving
<1>4. CASE UNCHANGED vars
  BY <1>4 DEF vars, history, PasswordKept, Saving
<1> QED
  BY <1>1, <1>2, <1>3, <1>4 DEF Next, RebootTask, OtherRestart

(* What a step that is not part of a typed save does to a password.        *)
LEMMA PasswordRestoredStep ==
  ASSUME TypeInv, PasswordKept, [Next]_vars, NEW g \in {"wifi", "mqtt"}, ~TypedSave(g)
  PROVE  PasswordRestored(g)
<1> DEFINE k == PasswordKey(g)
<1>0. g \in Groups /\ k \in KeysOf(g) /\ k \in Keys
  BY PasswordKeys
<1> SUFFICES /\ Load(nvs')[k] = Load(nvs)[k] \/ (save.group = g /\ Load(nvs')[k] = g_config[k])
             /\ g_config'[k] = g_config[k] \/ g_config' = Load(nvs)
  BY DEF PasswordRestored
<1> HIDE DEF k
<1>1. CASE Form
  <2>1. UNCHANGED <<nvs, g_config>>
    BY <1>1, FormBegins DEF Begin
  <2> QED
    BY <2>1
<1>2. CASE SetKey
  <2>1. UNCHANGED g_config
    BY <1>2 DEF SetKey
  <2>2. CASE save.group = g
    <3>1. save.keeps
      BY <2>2 DEF TypedSave
    <3> QED
      BY <1>2, <2>1, <2>2, <3>1, SetKeyKeeps DEF k
  <2>3. CASE save.group # g
    <3>1. Part(Load(nvs'), g) = Part(Load(nvs), g)
      BY <1>0, <1>2, <2>3, SetKeyElsewhere
    <3> QED
      BY <1>0, <2>1, <3>1, PartAgrees
  <2> QED
    BY <2>2, <2>3
<1>3. CASE Commit
  <2>1. Saving /\ UNCHANGED nvs
    BY <1>3 DEF Commit
  <2>2. CASE save.group = g
    <3>1. save.new[k] = g_config[k]
      BY <2>1, <2>2 DEF PasswordKept, TypedSave, k
    <3> QED
      BY <1>0, <1>3, <2>1, <2>2, <3>1, CommitOutcome
  <2>3. CASE save.group # g
    <3>1. k \in Keys \ KeysOf(save.group)
      BY <1>0, <2>1, <2>3, SaveUnderWay, OrderOfKeys
    <3> QED
      BY <1>3, <2>1, <3>1, CommitOutcome
  <2> QED
    BY <2>2, <2>3
<1>4. CASE SaveFails
  BY <1>4 DEF SaveFails
<1>5. CASE Restart
  BY <1>5 DEF Restart
<1>6. CASE UNCHANGED vars
  BY <1>6 DEF vars
<1> QED
  BY <1>1, <1>2, <1>3, <1>4, <1>5, <1>6 DEF Next, RebootTask, OtherRestart

(* Where flash and RAM agree on the password, such a step changes nothing.  *)
LEMMA PasswordStaysStep ==
  ASSUME TypeInv, RestartKeeps, PasswordKept, [Next]_vars,
         NEW g \in {"wifi", "mqtt"}, ~TypedSave(g), g \notin apart
  PROVE  PasswordStays(g)
<1> DEFINE k == PasswordKey(g)
<1>0. g \in Groups /\ k \in KeysOf(g)
  BY PasswordKeys
<1>1. Load(nvs)[k] = g_config[k]
  <2>1. CASE Saving /\ save.group = g
    BY <2>1 DEF PasswordKept, TypedSave
  <2>2. CASE ~(Saving /\ save.group = g)
    <3>1. ~Started(g)
      BY <2>2 DEF Started, Saving, NoSave
    <3>2. Part(Load(nvs), g) = Part(g_config, g)
      BY <1>0, <3>1 DEF RestartKeeps
    <3> QED
      BY <1>0, <3>2, PartAgrees
  <2> QED
    BY <2>1, <2>2
<1>2. PasswordRestored(g)
  BY PasswordRestoredStep
<1> QED
  BY <1>1, <1>2 DEF PasswordRestored, PasswordStays

(* OnlyTypedPasswords: in every step of every behaviour, a password changes *)
(* only while one is saved that was typed, or, where a failed call has left *)
(* flash and RAM apart, to the one that the other of the two holds.        *)
THEOREM OnlyTypedPasswords == Spec => PasswordTyped
<1>1. Init => PasswordKept
  BY DEF Init, PasswordKept, Saving
<1>2. TypeInv /\ RestartKeeps /\ PasswordKept /\ [Next]_vars => PasswordKept'
  BY PasswordStep
<1>3. TypeInv /\ RestartKeeps /\ PasswordKept /\ [Next]_vars =>
        [\A g \in {"wifi", "mqtt"} :
           \/ TypedSave(g)
           \/ PasswordStays(g)
           \/ g \in apart /\ PasswordRestored(g)]_vars
  BY PasswordStaysStep, PasswordRestoredStep
<1> QED
  BY <1>1, <1>2, <1>3, TypeInvariant, KeptByRestarts, PTL DEF Spec, PasswordTyped
=============================================================================
